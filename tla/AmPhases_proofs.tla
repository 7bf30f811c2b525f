-------------------------- MODULE AmPhases_proofs --------------------------
(***************************************************************************)
(* Proofs about AmPhases, for every number of ranks, devices and phases,   *)
(* every plan of posts, every choice of record types and receive buffers,  *)
(* every set of phases after which the Runtime is destroyed, any number of *)
(* calls that throw, and LCI's completions recycled or not.                *)
(*                                                                         *)
(* Every lemma about a step has two parts: what the step does on the rank  *)
(* that takes it, and that it changes nothing of the other ranks (Frame).  *)
(***************************************************************************)
EXTENDS AmPhasesInv, FiniteSetTheorems, TLAPS

-----------------------------------------------------------------------------
(* Facts about the constants and the operators.                            *)

LEMMA Constants ==
  /\ NRanks \in Nat \ {0} /\ NDevices \in Nat \ {0} /\ MaxPhases \in Nat \ {0}
  /\ MaxBcopy \in Nat
  /\ IsFiniteSet(Rank) /\ IsFiniteSet(Workers)
  /\ NoType \notin Types
  /\ \A p \in Phase : RecordType[p] \in Types /\ UsePacket[p] \in BOOLEAN
  /\ \A p \in Phase, r \in Rank : Plan[p][r] \subseteq Workers \X Rank
  /\ \A t \in Types : SizeOf[t] \in Nat \ {0}
  /\ Restart \subseteq Phase /\ LeaveActive \subseteq Restart
  /\ Recycles \in BOOLEAN
<1>1. IsFiniteSet(Rank)  BY PhaseAssumption, FS_Interval DEF Rank
<1>2. \A t \in Types : SizeOf[t] \in Nat \ {0}  BY PhaseAssumption
<1>. QED  BY <1>1, <1>2, PhaseAssumption DEF NoType

LEMMA PhaseBounds ==
  ASSUME NEW p
  PROVE  p \in Phase <=> p \in Nat /\ 1 <= p /\ p <= MaxPhases
BY Constants DEF Phase

LEMMA LastPhases == Last \subseteq Phase /\ IsFiniteSet(Last)
<1>1. Last \subseteq Phase  BY Constants DEF Last, Phase
<1>2. IsFiniteSet(Phase)  BY Constants, FS_Interval DEF Phase
<1>. QED  BY <1>1, <1>2, FS_Subset

LEMMA BeforeType ==
  ASSUME NEW p \in Nat \ {0}
  PROVE  Before(p) \in Nat
<1>1. Cardinality({q \in Last : q < p}) \in Nat
  BY LastPhases, FS_Subset, FS_CardinalityType
<1>. QED  BY <1>1 DEF Before

(* A rank meets one more barrier, or two, from one phase to the next.      *)
LEMMA BeforeNext ==
  ASSUME NEW p \in Nat \ {0}
  PROVE  Before(p + 1) = Before(p) + IF p \in Last THEN 2 ELSE 1
<1>. DEFINE S == {q \in Last : q < p}
            T == {q \in Last : q < p + 1}
<1>1. IsFiniteSet(S) /\ Cardinality(S) \in Nat
  BY LastPhases, FS_Subset, FS_CardinalityType
<1>2. \A q \in Last : q \in Nat  BY LastPhases, PhaseBounds
<1>3. CASE p \in Last
  <2>1. \A q \in Last : q < p + 1 <=> q < p \/ q = p  BY <1>2
  <2>2. ~ (p < p)  OBVIOUS
  <2>3. T = S \cup {p} /\ p \notin S  BY <1>3, <2>1, <2>2
  <2>4. Cardinality(T) = Cardinality(S) + 1  BY <1>1, <2>3, FS_AddElement
  <2>. QED  BY <1>1, <1>3, <2>4 DEF Before
<1>4. CASE p \notin Last
  <2>1. T = S  BY <1>2, <1>4
  <2>. QED  BY <1>1, <1>4, <2>1 DEF Before
<1>. QED  BY <1>3, <1>4

LEMMA BeforeGrows ==
  ASSUME NEW p \in Nat \ {0}, NEW q \in Nat \ {0}, q < p
  PROVE  Before(q) < Before(p)
<1>. DEFINE S == {x \in Last : x < q}
            T == {x \in Last : x < p}
<1>1. IsFiniteSet(T) /\ Cardinality(S) \in Nat /\ Cardinality(T) \in Nat
  BY LastPhases, FS_Subset, FS_CardinalityType
<1>2. S \subseteq T
  <2>1. \A x \in Last : x \in Nat  BY LastPhases, PhaseBounds
  <2>. QED  BY <2>1
<1>3. Cardinality(S) <= Cardinality(T)  BY <1>1, <1>2, FS_Subset
<1>. QED  BY <1>1, <1>3 DEF Before

(* The first registration of a Runtime gets completion 1.                  *)
LEMMA RcompFirst ==
  ASSUME NEW p \in Phase, p = 1 \/ p - 1 \in Restart
  PROVE  Registrations(p) = 1 /\ Rcomp(p) = 1
<1>1. p \in Nat /\ 1 <= p  BY PhaseBounds
<1>2. \A s \in Restart : s \in Nat /\ 1 <= s  BY Constants, PhaseBounds
<1>3. SameRuntime(p) = {p}
  <2>1. p \in SameRuntime(p)
    BY <1>1, <1>2 DEF SameRuntime
  <2>2. ASSUME NEW q \in SameRuntime(p), q # p  PROVE FALSE
    <3>1. q \in 1 .. p /\ q \in Nat /\ q < p  BY <1>1, <2>2 DEF SameRuntime
    <3>2. p # 1  BY <1>1, <3>1
    <3>3. p - 1 \in Restart  BY <3>2
    <3>4. q <= p - 1 /\ p - 1 < p  BY <1>1, <3>1
    <3>. QED  BY <3>3, <3>4 DEF SameRuntime
  <2>. QED  BY <2>1, <2>2
<1>4. Registrations(p) = 1  BY <1>3, FS_Singleton DEF Registrations
<1>. QED  BY <1>4 DEF Rcomp

LEMMA SameRuntimeFinite ==
  ASSUME NEW p \in Phase
  PROVE  IsFiniteSet(SameRuntime(p)) /\ Registrations(p) \in Nat
<1>1. IsFiniteSet(1 .. p)  BY PhaseBounds, FS_Interval
<1>2. SameRuntime(p) \subseteq 1 .. p  BY DEF SameRuntime
<1>. QED  BY <1>1, <1>2, FS_Subset, FS_CardinalityType DEF Registrations

(* Each later one the next.                                                *)
LEMMA RcompNext ==
  ASSUME NEW p \in Phase, p + 1 \in Phase, p \notin Restart
  PROVE  Rcomp(p + 1) = IF Recycles THEN Rcomp(p) ELSE Rcomp(p) + 1
<1>1. p \in Nat /\ 1 <= p  BY PhaseBounds
<1>2. \A s \in Restart : s \in Nat  BY Constants, PhaseBounds
<1>3. SameRuntime(p + 1) = SameRuntime(p) \cup {p + 1}
  <2>1. p + 1 \in SameRuntime(p + 1)  BY <1>1, <1>2 DEF SameRuntime
  <2>2. ASSUME NEW q \in 1 .. p
        PROVE  q \in SameRuntime(p) <=> q \in SameRuntime(p + 1)
    <3>1. q \in Nat /\ q <= p /\ q \in 1 .. p + 1  BY <1>1
    <3>2. \A s \in Restart : q <= s /\ s < p <=> q <= s /\ s < p + 1
      <4>1. \A s \in Restart : s # p  OBVIOUS
      <4>. QED  BY <1>1, <1>2, <3>1, <4>1
    <3>. QED  BY <3>1, <3>2 DEF SameRuntime
  <2>3. SameRuntime(p) \subseteq 1 .. p /\ SameRuntime(p + 1) \subseteq 1 .. p + 1
    BY DEF SameRuntime
  <2>4. 1 .. p + 1 = (1 .. p) \cup {p + 1}  BY <1>1
  <2>. QED  BY <2>1, <2>2, <2>3, <2>4
<1>4. p + 1 \notin SameRuntime(p)  BY <1>1 DEF SameRuntime
<1>5. Registrations(p + 1) = Registrations(p) + 1
  BY <1>3, <1>4, SameRuntimeFinite, FS_AddElement DEF Registrations
<1>. QED  BY <1>5 DEF Rcomp

LEMMA RcompPositive ==
  ASSUME NEW p \in Phase
  PROVE  Rcomp(p) \in Nat \ {0}
<1>1. p \in Nat /\ 1 <= p  BY PhaseBounds
<1>2. p \in SameRuntime(p)
  <2>1. \A s \in Restart : s \in Nat  BY Constants, PhaseBounds, SMTT(30)
  <2>. QED  BY <1>1, <2>1 DEF SameRuntime
<1>3. Registrations(p) \in Nat \ {0}
  BY <1>2, SameRuntimeFinite, FS_EmptySet DEF Registrations
<1>. QED  BY <1>3, Constants DEF Rcomp

-----------------------------------------------------------------------------
(* What a step does to the other ranks.                                    *)

USE DEF control, resources, active, transport, buffers, given, delivery,
        Set, Goto, Fail, PerRank

Same(s) ==
  /\ pc'[s] = pc[s] /\ phase'[s] = phase[s] /\ entered'[s] = entered[s]
  /\ lci'[s] = lci[s] /\ devices'[s] = devices[s]
  /\ send_completion'[s] = send_completion[s] /\ g_runtime'[s] = g_runtime[s]
  /\ am_state'[s] = am_state[s] /\ dispatch'[s] = dispatch[s]
  /\ am_handler'[s] = am_handler[s] /\ am_rcomp'[s] = am_rcomp[s]
  /\ registry'[s] = registry[s] /\ next_rcomp'[s] = next_rcomp[s]
  /\ am_receive_uses_upacket'[s] = am_receive_uses_upacket[s]
  /\ next_generation'[s] = next_generation[s] /\ states'[s] = states[s]
  /\ cache'[s] = cache[s]
  /\ used'[s] = used[s] /\ buffered'[s] = buffered[s] /\ todo'[s] = todo[s]
  /\ recv_count'[s] = recv_count[s] /\ aborted'[s] = aborted[s]

LEMMA Frame ==
  ASSUME TypeOK, NEW r \in Rank, Step(r) \/ Throw(r), NEW s \in Rank, s # r
  PROVE  Same(s)
<1>. USE DEF TypeOK, Same
<1>1. CASE InitLci(r)  BY <1>1 DEF InitLci
<1>2. CASE AllocateDevice(r)  BY <1>2 DEF AllocateDevice
<1>3. CASE AllocateCounter(r)  BY <1>3 DEF AllocateCounter
<1>4. CASE Constructed(r)  BY <1>4 DEF Constructed
<1>5. CASE SetAmHandler(r)  BY <1>5 DEF SetAmHandler, AllocateGeneration
<1>6. CASE AllocateHandler(r) \/ RegisterRcomp(r) \/ EnterBarrier(r)
  BY <1>6 DEF AllocateHandler, RegisterRcomp, EnterBarrier
<1>7. CASE Registered(r)  BY <1>7 DEF Registered
<1>8. ASSUME NEW w \in Workers, NEW d \in Rank, NEW type \in Types, Post(r, w, d, type)
      PROVE  Same(s)
  BY <1>8 DEF Post, UseBuffers
<1>9. ASSUME NEW w \in Workers, Flush(r, w)  PROVE Same(s)
  BY <1>9 DEF Flush, UseBuffers
<1>10. ASSUME NEW m \in net, m.dst = r, Receive(m)  PROVE Same(s)
  BY <1>10 DEF Receive
<1>11. ASSUME NEW b \in receiving, GiveBack(b)  PROVE Same(s)
  BY <1>11 DEF GiveBack
<1>12. CASE Complete(r)  BY <1>12 DEF Complete
<1>13. CASE ClearAmHandler(r)
  BY <1>13 DEF ClearAmHandler, EndState, ReleaseTransport, Deregister, DropState,
               ClearAmDispatch
<1>14. CASE DestroyActive(r)
  BY <1>14 DEF DestroyActive, EndState, ReleaseTransport, Deregister, ReleaseResources,
               DropState, ClearAmDispatch
<1>15. CASE Destroy(r)  BY <1>15 DEF Destroy, ReleaseTransport, Deregister, ReleaseResources
<1>16. CASE ConstructorFails(r)
  BY <1>16 DEF ConstructorFails, ReleaseTransport, Deregister, ReleaseResources
<1>17. CASE BatchTooLarge(r)  BY <1>17 DEF BatchTooLarge, AllocateGeneration
<1>18. CASE RegistrationFails(r) \/ BarrierFails(r)
  BY <1>18 DEF RegistrationFails, BarrierFails, UndoRegistration, ReleaseTransport, Deregister,
               DropState, ClearAmDispatch
<1>19. CASE Refused(r)  BY <1>19 DEF Refused
<1>. QED
  BY <1>1, <1>2, <1>3, <1>4, <1>5, <1>6, <1>7, <1>8, <1>9, <1>10, <1>11, <1>12, <1>13,
     <1>14, <1>15, <1>16, <1>17, <1>18, <1>19 DEF Step, Throw

-----------------------------------------------------------------------------
(* Types.                                                                  *)

LEMMA Quotient ==
  ASSUME NEW n \in Nat, NEW d \in Nat \ {0}
  PROVE  n \div d \in Nat
BY SMT

LEMMA InitType == Init => TypeOK
<1>. SUFFICES ASSUME Init PROVE TypeOK  OBVIOUS
<1>1. NoState \in State  BY Constants DEF NoState, State
<1>2. NoBuffers \in Buffers /\ NoCache \in CacheEntry
  BY DEF NoBuffers, NoCache, Buffers, CacheEntry
<1>. QED
  BY <1>1, <1>2, Constants DEF Init, TypeOK, Points, Kind, NoType

LEMMA PhaseType ==
  ASSUME TypeOK, NEW r \in Rank
  PROVE  phase[r] \in Nat \ {0}
BY DEF TypeOK

(* What the conditions on the state say of the phase and the record type.  *)
LEMMA InPhase ==
  ASSUME TypeOK, LifeInv, NEW r \in Rank, pc[r] \notin {"down", "leaving"}
  PROVE  /\ phase[r] \in Phase /\ phase[r] \in Nat \ {0}
         /\ RecordType[phase[r]] \in Types /\ UsePacket[phase[r]] \in BOOLEAN
         /\ Plan[phase[r]][r] \subseteq Workers \X Rank
         /\ pc[r] \notin NoHandler =>
              /\ am_state[r].phase = phase[r]
              /\ am_state[r].type = RecordType[phase[r]]
              /\ dispatch[r] = RecordType[phase[r]]
<1>1. LifeOf(r)  BY DEF LifeInv
<1>2. phase[r] \in Phase  BY <1>1 DEF LifeOf
<1>. QED  BY <1>1, <1>2, Constants, PhaseBounds DEF LifeOf, HandlerOf

LEMMA BuffersType ==
  ASSUME TypeOK, NEW r \in Rank, NEW w \in Workers, dispatch[r] \in Types
  PROVE  StateBuffers(r, w) \in Buffers /\ WorkerBuffers(r, w) \in Buffers
<1>1. StateBuffers(r, w) \in Buffers  BY DEF TypeOK, State, StateBuffers, Buffers
<1>2. Cached(r) \in CacheEntry  BY DEF TypeOK, Cached
<1>3. Cached(r).buffers \in Buffers  BY <1>2 DEF CacheEntry
<1>. QED  BY <1>1, <1>3 DEF WorkerBuffers

(* In a phase there is an active state, and the buffers a worker gets are  *)
(* those of this state and its own: a cached pointer that matches is not   *)
(* older than the state.                                                   *)
LEMMA OwnBuffers ==
  ASSUME TypeOK, LifeInv, CacheInv, NEW r \in Rank, NEW w \in Workers,
         pc[r] \in {"exchange", "end"}
  PROVE  /\ dispatch[r] \in Types /\ am_state[r] # NoState
         /\ WorkerBuffers(r, w) = [state |-> am_state[r].id, worker |-> w]
<1>1. dispatch[r] \in Types /\ am_state[r].phase \in Phase
  BY InPhase DEF NoHandler
<1>2. am_state[r] # NoState  BY <1>1, PhaseBounds DEF NoState
<1>3. ASSUME Matches(r, w)
      PROVE  Cached(r).buffers = [state |-> am_state[r].id, worker |-> w]
  <2>1. PICK type \in Types : type = dispatch[r]  BY <1>1
  <2>2. /\ cache[r][type].buffers # NoBuffers /\ cache[r][type].worker = w
        /\ cache[r][type].generation = am_state[r].generation
    BY <1>3, <2>1 DEF Matches, Cached
  <2>3. cache[r][type].buffers = [state |-> am_state[r].id, worker |-> w]
    BY <1>2, <2>2 DEF CacheInv
  <2>. QED  BY <2>1, <2>3 DEF Cached
<1>. QED  BY <1>1, <1>2, <1>3 DEF WorkerBuffers, StateBuffers

LEMMA UseType ==
  ASSUME TypeOK, NEW r \in Rank, NEW w \in Workers, UseBuffers(r, w), dispatch[r] \in Types
  PROVE  cache' \in [Rank -> [Types -> CacheEntry]] /\ used' \in [Rank -> Buffers]
<1>1. StateBuffers(r, w) \in Buffers /\ WorkerBuffers(r, w) \in Buffers  BY BuffersType
<1>. DEFINE e == [generation |-> am_state[r].generation, worker |-> w,
                  buffers |-> StateBuffers(r, w)]
<1>2. e \in CacheEntry
  <2>1. am_state[r].generation \in Nat  BY DEF TypeOK, State
  <2>. QED  BY <1>1, <2>1 DEF CacheEntry
<1>3. cache' = cache \/ cache' = [cache EXCEPT ![r][dispatch[r]] = e]  BY DEF UseBuffers
<1>. HIDE DEF e
<1>4. cache' \in [Rank -> [Types -> CacheEntry]]
  <2>1. PICK x \in CacheEntry : x = e  BY <1>2
  <2>2. PICK t \in Types : t = dispatch[r]  OBVIOUS
  <2>3. cache \in [Rank -> [Types -> CacheEntry]]  BY DEF TypeOK
  <2>4. [cache EXCEPT ![r][t] = x] \in [Rank -> [Types -> CacheEntry]]  BY ONLY <2>3, r \in Rank
  <2>. QED  BY ONLY <1>3, <2>1, <2>2, <2>3, <2>4
<1>5. used' \in [Rank -> Buffers]
  <2>1. used' = [used EXCEPT ![r] = WorkerBuffers(r, w)]  BY DEF UseBuffers
  <2>2. PICK b \in Buffers : b = WorkerBuffers(r, w)  BY <1>1
  <2>3. used \in [Rank -> Buffers]  BY DEF TypeOK
  <2>. QED  BY ONLY <2>1, <2>2, <2>3
<1>. QED  BY <1>4, <1>5

LEMMA ReleaseType ==
  ASSUME TypeOK, NEW r \in Rank
  PROVE  /\ ReleaseResources(r) \/ UNCHANGED resources =>
              /\ devices' \in [Rank -> 0 .. NDevices]
              /\ lci' \in [Rank -> BOOLEAN] /\ send_completion' \in [Rank -> BOOLEAN]
              /\ g_runtime' \in [Rank -> BOOLEAN]
         /\ ReleaseTransport(r) =>
              /\ registry' \in [Rank -> SUBSET Nat] /\ am_rcomp' \in [Rank -> Nat]
              /\ am_handler' \in [Rank -> Kind \union {"none"}]
              /\ next_rcomp' \in [Rank -> Nat]
              /\ am_receive_uses_upacket' \in [Rank -> BOOLEAN]
<1>1. 0 \in 0 .. NDevices  BY Constants
<1>4. am_rcomp[r] \in Nat  BY DEF TypeOK
<1>2. ASSUME ReleaseResources(r)
      PROVE  /\ devices' \in [Rank -> 0 .. NDevices]
             /\ lci' \in [Rank -> BOOLEAN] /\ send_completion' \in [Rank -> BOOLEAN]
             /\ g_runtime' \in [Rank -> BOOLEAN]
  BY <1>1, <1>2 DEF ReleaseResources, TypeOK
<1>3. ASSUME ReleaseTransport(r)
      PROVE  /\ registry' \in [Rank -> SUBSET Nat] /\ am_rcomp' \in [Rank -> Nat]
             /\ am_handler' \in [Rank -> Kind \union {"none"}]
             /\ next_rcomp' \in [Rank -> Nat]
             /\ am_receive_uses_upacket' \in [Rank -> BOOLEAN]
  <2>1. next_rcomp' \in [Rank -> Nat]
    <3>1. \/ next_rcomp' = next_rcomp
          \/ next_rcomp' = [next_rcomp EXCEPT ![r] = am_rcomp[r]]
      BY <1>3 DEF ReleaseTransport, Deregister
    <3>. QED  BY <1>4, <3>1 DEF TypeOK
  <2>2. /\ registry' \in [Rank -> SUBSET Nat] /\ am_rcomp' \in [Rank -> Nat]
        /\ am_handler' \in [Rank -> Kind \union {"none"}]
        /\ am_receive_uses_upacket' \in [Rank -> BOOLEAN]
    BY <1>3, SMTT(30) DEF ReleaseTransport, Deregister, TypeOK
  <2>. QED  BY <2>1, <2>2
<1>. QED  BY <1>2, <1>3 DEF TypeOK

LEMMA RankStepType ==
  ASSUME TypeOK, LifeInv, CacheInv, NEW r \in Rank, Step(r) \/ Throw(r)
  PROVE  TypeOK'
<1>. USE DEF TypeOK
<1>1. CASE InitLci(r)  BY <1>1 DEF InitLci, Points
<1>2. CASE AllocateDevice(r)
  <2>1. devices[r] + 1 \in 0 .. NDevices  BY <1>2, Constants, SMTT(30) DEF AllocateDevice
  <2>. QED  BY <1>2, <2>1 DEF AllocateDevice
<1>3. CASE AllocateCounter(r)
  <2>1. /\ send_completion' \in [Rank -> BOOLEAN] /\ g_runtime' \in [Rank -> BOOLEAN]
        /\ pc' \in [Rank -> Points]
    BY <1>3, SMTT(30) DEF AllocateCounter, Points
  <2>2. UNCHANGED <<phase, entered, failures, lci, devices, active, transport,
                    next_generation, buffers, delivery>>
    BY <1>3 DEF AllocateCounter
  <2>. QED  BY <2>1, <2>2
<1>4. CASE Constructed(r)  BY <1>4 DEF Constructed, Points
<1>5. CASE SetAmHandler(r)
  <2>1. [id |-> states[r] + 1, generation |-> next_generation[r], phase |-> phase[r],
         type |-> RecordType[phase[r]]] \in State
    <3>1. phase[r] \in Phase /\ RecordType[phase[r]] \in Types
      BY <1>5, InPhase DEF SetAmHandler
    <3>2. phase[r] \in 0 .. MaxPhases  BY <3>1, PhaseBounds, Constants
    <3>3. next_generation[r] \in Nat /\ states[r] + 1 \in Nat  OBVIOUS
    <3>. HIDE DEF TypeOK
    <3>. QED  BY <3>1, <3>2, <3>3 DEF State
  <2>2. RecordType[phase[r]] \in Types  BY <1>5, InPhase DEF SetAmHandler
  <2>3. /\ next_generation' \in [Rank -> Nat] /\ states' \in [Rank -> Nat]
        /\ recv_count' \in [Rank -> Nat] /\ pc' \in [Rank -> Points]
    BY <1>5, SMTT(30) DEF SetAmHandler, AllocateGeneration, Points
  <2>4. am_state' \in [Rank -> State] /\ dispatch' \in [Rank -> Types \union {NoType}]
    BY <1>5, <2>1, <2>2 DEF SetAmHandler
  <2>. QED  BY <1>5, <2>3, <2>4 DEF SetAmHandler
<1>6. CASE AllocateHandler(r)
  <2>1. am_handler' \in [Rank -> Kind \union {"none"}] /\ pc' \in [Rank -> Points]
    BY <1>6 DEF AllocateHandler, Points, Kind
  <2>. QED  BY <1>6, <2>1 DEF AllocateHandler
<1>21. CASE RegisterRcomp(r)
  <2>1. UsePacket[phase[r]] \in BOOLEAN  BY <1>21, InPhase DEF RegisterRcomp
  <2>2. /\ am_receive_uses_upacket' \in [Rank -> BOOLEAN] /\ am_rcomp' \in [Rank -> Nat]
        /\ next_rcomp' \in [Rank -> Nat]
    <3>1. /\ am_receive_uses_upacket' =
               [am_receive_uses_upacket EXCEPT ![r] = UsePacket[phase[r]]]
          /\ am_rcomp' = [am_rcomp EXCEPT ![r] = next_rcomp[r]]
          /\ next_rcomp' = [next_rcomp EXCEPT ![r] = @ + 1]
      BY <1>21 DEF RegisterRcomp
    <3>2. r \in Rank /\ am_receive_uses_upacket \in [Rank -> BOOLEAN]  OBVIOUS
    <3>3. am_rcomp \in [Rank -> Nat] /\ next_rcomp \in [Rank -> Nat]  OBVIOUS
    <3>4. am_receive_uses_upacket' \in [Rank -> BOOLEAN]  BY ONLY <2>1, <3>1, <3>2
    <3>5. am_rcomp' \in [Rank -> Nat]  BY ONLY <3>1, <3>2, <3>3
    <3>6. next_rcomp' \in [Rank -> Nat]  BY ONLY <3>1, <3>2, <3>3
    <3>. QED  BY ONLY <3>4, <3>5, <3>6
  <2>3. registry' \in [Rank -> SUBSET Nat]
    <3>1. registry' = [registry EXCEPT ![r] = @ \union {next_rcomp[r]}]
      BY <1>21 DEF RegisterRcomp
    <3>2. r \in Rank /\ registry \in [Rank -> SUBSET Nat] /\ next_rcomp[r] \in Nat
      OBVIOUS
    <3>3. PICK n \in Nat : n = next_rcomp[r]  BY ONLY <3>2
    <3>. QED  BY ONLY <3>1, <3>2, <3>3
  <2>4. pc' \in [Rank -> Points]  BY <1>21 DEF RegisterRcomp, Points
  <2>. QED  BY <1>21, <2>2, <2>3, <2>4 DEF RegisterRcomp
<1>22. CASE EnterBarrier(r)
  <2>1. pc' \in [Rank -> Points] /\ entered' \in [Rank -> Nat]
    <3>1. /\ entered' = [entered EXCEPT ![r] = @ + 1]
          /\ \E label \in {"constructing", "barrier"} : pc' = [pc EXCEPT ![r] = label]
      BY <1>22 DEF EnterBarrier
    <3>2. {"constructing", "barrier"} \subseteq Points  BY DEF Points
    <3>3. pc \in [Rank -> Points] /\ entered \in [Rank -> Nat]  OBVIOUS
    <3>4. pc' \in [Rank -> Points]  BY ONLY <3>1, <3>2, <3>3
    <3>5. entered' \in [Rank -> Nat]  BY ONLY <3>1, <3>3
    <3>. QED  BY <3>4, <3>5
  <2>. QED  BY <1>22, <2>1 DEF EnterBarrier
<1>7. CASE Registered(r)
  <2>1. Plan[phase[r]][r] \subseteq Workers \X Rank  BY <1>7, InPhase DEF Registered
  <2>. QED  BY <1>7, <2>1 DEF Registered, Points
<1>8. ASSUME NEW w \in Workers, NEW d \in Rank, NEW type \in Types, Post(r, w, d, type)
      PROVE  TypeOK'
  <2>1. dispatch[r] \in Types  BY <1>8 DEF Post, MatchesType
  <2>2. cache' \in [Rank -> [Types -> CacheEntry]] /\ used' \in [Rank -> Buffers]
    BY <1>8, <2>1, UseType DEF Post
  <2>3. buffered' = [buffered EXCEPT ![r] = @ \union {<<WorkerBuffers(r, w), d, type>>}]
    BY <1>8 DEF Post
  <2>4. buffered' \in [Rank -> SUBSET (Buffers \X Rank \X Types)]
    <3>. DEFINE E == Buffers \X Rank \X Types
    <3>5. WorkerBuffers(r, w) \in Buffers  BY <2>1, BuffersType
    <3>1. <<WorkerBuffers(r, w), d, type>> \in E /\ buffered \in [Rank -> SUBSET E]
      BY <3>5
    <3>. HIDE DEF E
    <3>2. \A e \in E : [buffered EXCEPT ![r] = @ \union {e}] \in [Rank -> SUBSET E]  BY <3>1
    <3>3. buffered' \in [Rank -> SUBSET E]  BY <2>3, <3>1, <3>2
    <3>. QED  BY <3>3 DEF E
  <2>. QED  BY <1>8, <2>2, <2>4 DEF Post
<1>9. ASSUME NEW w \in Workers, Flush(r, w)  PROVE TypeOK'
  <2>1. dispatch[r] \in Types /\ phase[r] \in Phase
    BY <1>9, InPhase DEF Flush, NoHandler
  <2>2. cache' \in [Rank -> [Types -> CacheEntry]] /\ used' \in [Rank -> Buffers]
    BY <1>9, <2>1, UseType DEF Flush
  <2>3. ASSUME NEW b \in BuffersOf(r, w)
        PROVE  [phase |-> phase[r], src |-> r, worker |-> b[1].worker, dst |-> b[2],
                type |-> b[3], rcomp |-> am_rcomp[r]] \in Message
    <3>1. b \in Buffers \X Rank \X Types /\ b[1] = WorkerBuffers(r, w)
      BY <2>3 DEF BuffersOf
    <3>2. b[2] \in Rank /\ b[3] \in Types  BY <3>1
    <3>3. b[1].worker \in Workers  BY <1>9, <3>1, OwnBuffers DEF Flush
    <3>4. am_rcomp[r] \in Nat  OBVIOUS
    <3>. QED  BY <2>1, <3>2, <3>3, <3>4 DEF Message
  <2>4. net' \subseteq Message  BY <1>9, <2>3 DEF Flush
  <2>. QED  BY <1>9, <2>2, <2>4 DEF Flush
<1>10. ASSUME NEW m \in net, m.dst = r, Receive(m)  PROVE TypeOK'
  <2>1. \/ pc[r] \notin NoHandler /\ pc[r] \notin {"down", "leaving"}
        \/ pc[r] = "constructing"
    BY <1>10 DEF Receive, NoHandler
  <2>2. m \in Message  OBVIOUS
  <2>3. ASSUME pc[r] = "constructing"  PROVE am_state[r] = NoState
    BY <2>3 DEF LifeInv, LifeOf, HandlerOf, NoHandler
  <2>4. ASSUME am_state[r] # NoState
        PROVE  /\ RecordCount(MessageBytes(m), am_state[r].type) \in Nat
               /\ am_handler[r] \in Kind
    <3>1. pc[r] \in Live /\ pc[r] \notin NoHandler /\ pc[r] \notin {"down", "leaving"}
      BY <1>10, <2>1, <2>3, <2>4 DEF Receive, NoHandler, Live
    <3>2. am_state[r].type \in Types  BY <3>1, InPhase
    <3>3. MessageBytes(m) \in Nat  BY <2>2, Constants DEF Message, MessageBytes
    <3>4. SizeOf[am_state[r].type] \in Nat \ {0}  BY <3>2, Constants
    <3>5. RecordCount(MessageBytes(m), am_state[r].type) \in Nat
      BY <3>3, <3>4, Quotient DEF RecordCount
    <3>6. am_handler[r] \in Kind
      BY <3>1 DEF LifeInv, LifeOf, TransportOf, KindOf, Kind, Live
    <3>. QED  BY <3>5, <3>6
  <2>5. CASE am_state[r] # NoState
    <3>1. [message |-> m, kind |-> am_handler[r]] \in [message : Message, kind : Kind]
      BY <2>2, <2>4, <2>5
    <3>2. handled' \subseteq handled \union {<<m, am_state[r]>>} /\ am_state[r] \in State
      BY <1>10 DEF Receive
    <3>3. receiving' \subseteq receiving \union {[message |-> m, kind |-> am_handler[r]]}
      BY <1>10 DEF Receive
    <3>4. aborted' \in [Rank -> BOOLEAN]  BY <1>10 DEF Receive
    <3>7. \/ UNCHANGED recv_count
          \/ recv_count' = [recv_count EXCEPT
                ![r] = @ + RecordCount(MessageBytes(m), am_state[r].type)]
      BY <1>10 DEF Receive
    <3>8. recv_count' \in [Rank -> Nat]
      <4>1. \A n \in Nat : [recv_count EXCEPT ![r] = @ + n] \in [Rank -> Nat]  OBVIOUS
      <4>2. PICK n \in Nat : n = RecordCount(MessageBytes(m), am_state[r].type)
        BY <2>4, <2>5
      <4>3. recv_count \in [Rank -> Nat]  OBVIOUS
      <4>4. recv_count' = recv_count \/ recv_count' = [recv_count EXCEPT ![r] = @ + n]
        BY ONLY <3>7, <4>2
      <4>. QED  BY ONLY <4>1, <4>2, <4>3, <4>4
    <3>5. handled' \subseteq Message \X State  BY <2>2, <3>2
    <3>6. receiving' \subseteq [message : Message, kind : Kind]  BY <3>1, <3>3
    <3>. QED  BY <1>10, <3>4, <3>5, <3>6, <3>8 DEF Receive
  <2>6. CASE am_state[r] = NoState
    <3>1. UNCHANGED <<recv_count, handled, receiving>> /\ aborted' \in [Rank -> BOOLEAN]
      BY <1>10, <2>6 DEF Receive
    <3>. QED  BY <1>10, <3>1 DEF Receive
  <2>. QED  BY <2>5, <2>6
<1>11. ASSUME NEW b \in receiving, GiveBack(b)  PROVE TypeOK'
  <2>1. b.kind \in Kind  OBVIOUS
  <2>2. returned' \subseteq Kind \X Kind  BY <1>11, <2>1 DEF GiveBack, Kind
  <2>3. receiving' \subseteq receiving  BY <1>11 DEF GiveBack
  <2>. QED  BY <1>11, <2>2, <2>3 DEF GiveBack
<1>12. CASE Complete(r)  BY <1>12 DEF Complete, Points
<1>13. CASE pc[r] = "end" /\ EndState(r) /\ pc' = Set(pc, r, pc'[r])
            /\ pc'[r] \in Points /\ phase' = [phase EXCEPT ![r] = @ + 1]
            /\ UNCHANGED <<entered, failures, next_generation, buffers, delivery>>
            /\ (UNCHANGED resources \/ ReleaseResources(r))
  <2>1. phase[r] + 1 \in 1 .. MaxPhases + 1
    <3>1. phase[r] \in Phase  BY <1>13, InPhase
    <3>. QED  BY <3>1, PhaseBounds, Constants, SMTT(30)
  <2>3. NoState \in State  BY Constants DEF NoState, State
  <2>5. /\ phase' \in [Rank -> 1 .. MaxPhases + 1] /\ pc' \in [Rank -> Points]
        /\ am_state' \in [Rank -> State] /\ dispatch' \in [Rank -> Types \union {NoType}]
        /\ states' \in [Rank -> Nat]
    BY <1>13, <2>1, <2>3 DEF EndState, DropState, ClearAmDispatch
  <2>6. /\ registry' \in [Rank -> SUBSET Nat] /\ am_rcomp' \in [Rank -> Nat]
        /\ am_handler' \in [Rank -> Kind \union {"none"}] /\ next_rcomp' \in [Rank -> Nat]
        /\ am_receive_uses_upacket' \in [Rank -> BOOLEAN]
    BY <1>13, ReleaseType DEF EndState
  <2>7. /\ devices' \in [Rank -> 0 .. NDevices]
        /\ lci' \in [Rank -> BOOLEAN] /\ send_completion' \in [Rank -> BOOLEAN]
        /\ g_runtime' \in [Rank -> BOOLEAN]
    BY <1>13, ReleaseType
  <2>. QED  BY <1>13, <2>5, <2>6, <2>7
<1>14. CASE ClearAmHandler(r)
  <2>1. AfterPhase(r) \in Points  BY DEF AfterPhase, Points
  <2>. QED  BY <1>13, <1>14, <2>1 DEF ClearAmHandler
<1>15. CASE DestroyActive(r)
  BY <1>13, <1>15 DEF DestroyActive, Points
<1>16. CASE Destroy(r)
  BY <1>16, ReleaseType DEF Destroy, Points
<1>17. CASE ConstructorFails(r)
  BY <1>17, ReleaseType DEF ConstructorFails, Points
<1>18. CASE BatchTooLarge(r)
  <2>1. next_generation' \in [Rank -> Nat]  BY <1>18 DEF BatchTooLarge, AllocateGeneration
  <2>. QED  BY <1>18, <2>1 DEF BatchTooLarge
<1>19. CASE RegistrationFails(r) \/ BarrierFails(r)
  <2>1. NoState \in State  BY Constants DEF NoState, State
  <2>2. ReleaseTransport(r) /\ DropState(r) /\ pc' = [pc EXCEPT ![r] = "idle"]
    BY <1>19 DEF RegistrationFails, BarrierFails, UndoRegistration
  <2>3. UNCHANGED <<phase, entered, resources, next_generation, buffers, delivery>>
    BY <1>19 DEF RegistrationFails, BarrierFails
  <2>. QED
    BY <2>1, <2>2, <2>3, ReleaseType DEF DropState, ClearAmDispatch, Points
<1>20. CASE Refused(r)  BY <1>20 DEF Refused
<1>. QED
  BY <1>1, <1>2, <1>3, <1>4, <1>5, <1>6, <1>7, <1>8, <1>9, <1>10, <1>11, <1>12, <1>14,
     <1>15, <1>16, <1>17, <1>18, <1>19, <1>20, <1>21, <1>22 DEF Step, Throw

-----------------------------------------------------------------------------
(* The life of a rank.                                                     *)

LEMMA InitLife == Init => LifeInv
<1>. SUFFICES ASSUME Init, NEW r \in Rank PROVE LifeOf(r)  BY DEF LifeInv
<1>1. Before(1) = 0
  <2>1. {q \in Last : q < 1} = {}  BY LastPhases, PhaseBounds
  <2>. QED  BY <2>1, FS_EmptySet DEF Before
<1>2. entered[r] = Ticket(r)  BY <1>1 DEF Init, Ticket, Outside
<1>3. HandlerOf(r)  BY DEF Init, HandlerOf, NoHandler, NoState
<1>4. ResourcesOf(r)  BY DEF Init, ResourcesOf
<1>5. TransportOf(r)  BY DEF Init, TransportOf, Live, WithRcomp, NoHandler
<1>. QED  BY <1>2, <1>3, <1>4, <1>5 DEF Init, LifeOf, Outside

(* The end of a state leaves nothing of it, and LCI has the completion to  *)
(* give out that the next registration needs.                              *)
LEMMA Released ==
  ASSUME TypeOK, LifeInv, NEW r \in Rank, ReleaseTransport(r)
  PROVE  /\ am_handler'[r] = "none" /\ am_rcomp'[r] = 0 /\ registry'[r] = {}
         /\ next_rcomp'[r] =
              IF Recycles /\ pc[r] \in WithRcomp THEN 1 ELSE next_rcomp[r]
<1>1. registry[r] = {am_rcomp[r]} \ {0}  BY DEF LifeInv, LifeOf, TransportOf
<1>2. am_handler'[r] = "none" /\ am_rcomp'[r] = 0 /\ registry'[r] = {}
  BY <1>1 DEF ReleaseTransport, Deregister, TypeOK
<1>3. CASE pc[r] \in WithRcomp
  <2>1. am_rcomp[r] = Rcomp(phase[r])  BY <1>3 DEF LifeInv, LifeOf, TransportOf
  <2>2. Recycles => am_rcomp[r] = 1  BY <2>1 DEF Rcomp
  <2>3. next_rcomp'[r] = IF Recycles THEN 1 ELSE next_rcomp[r]
    BY <2>2 DEF ReleaseTransport, Deregister, TypeOK
  <2>. QED  BY <1>2, <1>3, <2>3
<1>4. CASE pc[r] \notin WithRcomp
  <2>1. am_rcomp[r] = 0  BY <1>4 DEF LifeInv, LifeOf, TransportOf
  <2>2. next_rcomp'[r] = next_rcomp[r]  BY <2>1 DEF ReleaseTransport, Deregister
  <2>. QED  BY <1>2, <1>4, <2>2
<1>. QED  BY <1>3, <1>4

LEMMA OwnLife ==
  ASSUME TypeOK, LifeInv, NEW r \in Rank, Step(r) \/ Throw(r)
  PROVE  LifeOf(r)'
<1>. DEFINE p == phase[r]
<1>1. /\ p \in Nat \ {0} /\ Before(p) \in Nat /\ devices[r] \in 0 .. NDevices
      /\ NDevices \in Nat /\ entered[r] \in Nat
  BY BeforeType, Constants, SMTT(30) DEF TypeOK
<1>2. LifeOf(r)  BY DEF LifeInv
<1>3. DOMAIN pc = Rank  BY DEF TypeOK
<1>. USE DEF TypeOK, LifeOf, Ticket, Outside, Live, WithRcomp, NoHandler, ResourcesOf,
             HandlerOf, TransportOf
<1>4. CASE InitLci(r)
  <2>1. p \in Phase  BY <1>1, <1>4, PhaseBounds DEF InitLci
  <2>2. p = 1 \/ p - 1 \in Restart
    <3>1. p = 1 \/ p - 1 \in Last  BY <1>2, <1>4 DEF InitLci
    <3>2. p - 1 # MaxPhases  BY <2>1, PhaseBounds, Constants, SMTT(30)
    <3>. QED  BY <3>1, <3>2 DEF Last
  <2>3. Rcomp(p) = 1  BY <2>1, <2>2, RcompFirst
  <2>. QED  BY <1>2, <1>4, <2>1, <2>3 DEF InitLci
<1>5. CASE AllocateDevice(r)  BY <1>2, <1>5 DEF AllocateDevice
<1>6. CASE AllocateCounter(r)  BY <1>2, <1>6 DEF AllocateCounter
<1>7. CASE Constructed(r)  BY <1>1, <1>2, <1>7 DEF Constructed
<1>8. CASE SetAmHandler(r)  BY <1>2, <1>8 DEF SetAmHandler, AllocateGeneration
<1>9. CASE AllocateHandler(r)  BY <1>2, <1>9 DEF AllocateHandler, KindOf
<1>24. CASE RegisterRcomp(r)
  <2>1. Rcomp(p) \in Nat \ {0}  BY <1>2, <1>24, RcompPositive DEF RegisterRcomp
  <2>2. /\ am_receive_uses_upacket'[r] = UsePacket[p] /\ am_rcomp'[r] = Rcomp(p)
        /\ registry'[r] = {Rcomp(p)} /\ next_rcomp'[r] = Rcomp(p) + 1
    BY <1>2, <1>24 DEF RegisterRcomp
  <2>. QED  BY <1>2, <1>24, <2>1, <2>2, SMTT(30) DEF RegisterRcomp
<1>25. CASE EnterBarrier(r)
  <2>1. entered'[r] = entered[r] + 1 /\ UNCHANGED <<phase, resources, active, transport>>
    BY <1>25 DEF EnterBarrier
  <2>2. \/ pc[r] = "attach" /\ pc'[r] = "constructing"
        \/ pc[r] = "enter" /\ pc'[r] = "barrier"
    BY <1>25 DEF EnterBarrier
  <2>3. entered'[r] = Ticket(r)'  BY <1>1, <1>2, <2>1, <2>2
  <2>4. HandlerOf(r)' /\ TransportOf(r)' /\ ResourcesOf(r)'  BY <1>2, <2>1, <2>2
  <2>. QED  BY <1>2, <2>1, <2>2, <2>3, <2>4
<1>10. CASE Registered(r)  BY <1>2, <1>10 DEF Registered
<1>11. ASSUME NEW w \in Workers, NEW d \in Rank, NEW type \in Types, Post(r, w, d, type)
       PROVE  LifeOf(r)'
  BY <1>2, <1>11 DEF Post
<1>12. ASSUME NEW w \in Workers, Flush(r, w)  PROVE LifeOf(r)'
  BY <1>2, <1>12 DEF Flush
<1>13. ASSUME NEW m \in net, m.dst = r, Receive(m)  PROVE LifeOf(r)'
  BY <1>2, <1>13 DEF Receive
<1>14. ASSUME NEW b \in receiving, GiveBack(b)  PROVE LifeOf(r)'
  BY <1>2, <1>14 DEF GiveBack
<1>15. CASE Complete(r)  BY <1>2, <1>15 DEF Complete
<1>16. ASSUME pc[r] = "end", EndState(r)
       PROVE  /\ p \in Phase
              /\ am_state'[r] = NoState /\ dispatch'[r] = NoState.type
              /\ am_handler'[r] = "none" /\ am_rcomp'[r] = 0 /\ registry'[r] = {}
              /\ next_rcomp'[r] = IF Recycles THEN 1 ELSE Rcomp(p) + 1
              /\ p + 1 - 1 = p
  <2>1. am_state'[r] = NoState /\ dispatch'[r] = NoState.type
    BY <1>16 DEF EndState, DropState, ClearAmDispatch, NoState
  <2>4. p + 1 - 1 = p  BY <1>1
  <2>6. ReleaseTransport(r)  BY <1>16 DEF EndState
  <2>7. p \in Phase /\ next_rcomp[r] = Rcomp(p) + 1 /\ pc[r] \in WithRcomp  BY <1>2, <1>16
  <2>. QED  BY <2>1, <2>4, <2>6, <2>7, Released
<1>17. CASE ClearAmHandler(r)
  <2>1. pc[r] = "end" /\ EndState(r) /\ phase'[r] = p + 1 /\ pc'[r] = AfterPhase(r)
    BY <1>17 DEF ClearAmHandler
  <2>2. UNCHANGED resources /\ entered' = entered  BY <1>17 DEF ClearAmHandler
  <2>3. p \in Phase /\ p + 1 - 1 = p  BY <1>16, <2>1
  <2>4. CASE p \in Last
    <3>1. pc'[r] = "leaving"  BY <2>1, <2>4 DEF AfterPhase, Last
    <3>2. Before(p + 1) = Before(p) + 2  BY <1>1, <2>4, BeforeNext
    <3>3. entered'[r] = Before(p + 1)  BY <1>2, <2>1, <2>2, <3>2
    <3>4. p + 1 # 1 => p + 1 - 1 \in Last  BY <2>3, <2>4
    <3>5. HandlerOf(r)' /\ TransportOf(r)'  BY <1>16, <2>1, <3>1
    <3>6. ResourcesOf(r)'  BY <1>2, <2>1, <2>2, <3>1
    <3>8. entered'[r] = Ticket(r)'
      <4>1. phase'[r] = p + 1 /\ pc'[r] \in Outside  BY <2>1, <3>1
      <4>. QED  BY ONLY <1>1, <3>3, <4>1, BeforeType DEF Ticket
    <3>. QED  BY <2>1, <2>3, <2>4, <3>1, <3>5, <3>6, <3>8
  <2>5. CASE p \notin Last
    <3>1. pc'[r] = "idle"  BY <2>1, <2>5 DEF AfterPhase, Last
    <3>2. Before(p + 1) = Before(p) + 1  BY <1>1, <2>5, BeforeNext
    <3>3. entered'[r] = Before(p + 1) + 1  BY <1>1, <1>2, <2>1, <2>2, <3>2
    <3>4. p # MaxPhases /\ p \notin Restart  BY <2>5 DEF Last
    <3>5. p + 1 \in Phase
      <4>1. p \in Nat /\ 1 <= p /\ p <= MaxPhases  BY <2>3, PhaseBounds
      <4>3. MaxPhases \in Nat  BY Constants
      <4>2. p + 1 \in Nat /\ 1 <= p + 1 /\ p + 1 <= MaxPhases  BY ONLY <3>4, <4>1, <4>3
      <4>. QED  BY <4>2, PhaseBounds
    <3>6. next_rcomp'[r] = Rcomp(p + 1)
      <4>1. Rcomp(p + 1) = IF Recycles THEN Rcomp(p) ELSE Rcomp(p) + 1
        BY <2>3, <3>4, <3>5, RcompNext
      <4>2. Recycles => Rcomp(p) = 1  BY DEF Rcomp
      <4>3. next_rcomp'[r] = IF Recycles THEN 1 ELSE Rcomp(p) + 1  BY <1>16, <2>1
      <4>. QED  BY ONLY <4>1, <4>2, <4>3
    <3>7. HandlerOf(r)' /\ TransportOf(r)'  BY <1>16, <2>1, <3>1, <3>6
    <3>8. ResourcesOf(r)'  BY <1>2, <2>1, <2>2, <3>1
    <3>10. entered'[r] = Ticket(r)'  BY <2>1, <3>1, <3>3
    <3>. QED  BY <2>1, <3>1, <3>5, <3>7, <3>8, <3>10
  <2>. QED  BY <2>4, <2>5
<1>18. CASE DestroyActive(r)
  <2>1. pc[r] = "end" /\ EndState(r) /\ phase'[r] = p + 1 /\ pc'[r] = "down"
    BY <1>18 DEF DestroyActive
  <2>2. /\ ~lci'[r] /\ devices'[r] = 0 /\ ~send_completion'[r] /\ ~g_runtime'[r]
        /\ entered' = entered
    BY <1>18 DEF DestroyActive, ReleaseResources
  <2>3. p \in Last  BY <1>18, Constants DEF DestroyActive, Last
  <2>4. Before(p + 1) = Before(p) + 2  BY <1>1, <2>3, BeforeNext
  <2>5. entered'[r] = Before(p + 1)  BY <1>2, <2>1, <2>2, <2>4
  <2>6. HandlerOf(r)' /\ TransportOf(r)'  BY <1>16, <2>1
  <2>7. ResourcesOf(r)'  BY <2>1, <2>2
  <2>8. p + 1 - 1 = p  BY <1>16, <2>1
  <2>10. entered'[r] = Ticket(r)'
    <3>1. phase'[r] = p + 1 /\ pc'[r] \in Outside  BY <2>1
    <3>. QED  BY ONLY <1>1, <2>5, <3>1, BeforeType DEF Ticket
  <2>. QED  BY <2>1, <2>3, <2>6, <2>7, <2>8, <2>10
<1>19. CASE Destroy(r)
  <2>1. ReleaseTransport(r) /\ pc[r] \notin WithRcomp  BY <1>19 DEF Destroy
  <2>2. /\ am_handler'[r] = "none" /\ am_rcomp'[r] = 0 /\ registry'[r] = {}
        /\ next_rcomp'[r] = next_rcomp[r]
    BY <2>1, Released
  <2>. QED  BY <1>2, <1>19, <2>2, ZenonT(40) DEF Destroy, ReleaseResources
<1>20. CASE ConstructorFails(r)
  <2>1. ReleaseTransport(r) /\ pc[r] \notin WithRcomp  BY <1>20 DEF ConstructorFails
  <2>2. /\ am_handler'[r] = "none" /\ am_rcomp'[r] = 0 /\ registry'[r] = {}
        /\ next_rcomp'[r] = next_rcomp[r]
    BY <2>1, Released
  <2>. QED  BY <1>2, <1>20, <2>2, ZenonT(40) DEF ConstructorFails, ReleaseResources
<1>21. CASE BatchTooLarge(r)  BY <1>2, <1>21 DEF BatchTooLarge
<1>22. ASSUME pc[r] \in {"register", "rcomp", "enter"}, pc[r] = "enter" => Recycles,
              ReleaseTransport(r), DropState(r), pc' = [pc EXCEPT ![r] = "idle"],
              UNCHANGED <<phase, entered, resources>>
       PROVE  LifeOf(r)'
  <2>1. /\ am_handler'[r] = "none" /\ am_rcomp'[r] = 0 /\ registry'[r] = {}
        /\ next_rcomp'[r] = IF Recycles /\ pc[r] \in WithRcomp THEN 1 ELSE next_rcomp[r]
    BY <1>22, Released
  <2>2. Recycles => Rcomp(p) = 1  BY DEF Rcomp
  <2>3. next_rcomp'[r] = Rcomp(p)  BY <1>2, <1>22, <2>1, <2>2
  <2>4. pc'[r] = "idle" /\ am_state'[r] = NoState /\ dispatch'[r] = NoState.type
    BY <1>22 DEF DropState, ClearAmDispatch, NoState
  <2>5. HandlerOf(r)' /\ TransportOf(r)'  BY <1>22, <2>1, <2>3, <2>4
  <2>6. ResourcesOf(r)' /\ entered'[r] = Ticket(r)'  BY <1>2, <1>22, <2>4
  <2>. QED  BY <1>2, <1>22, <2>4, <2>5, <2>6
<1>26. CASE RegistrationFails(r)  BY <1>22, <1>26 DEF RegistrationFails
<1>27. CASE BarrierFails(r)  BY <1>22, <1>27 DEF BarrierFails, UndoRegistration
<1>23. CASE Refused(r)  BY <1>2, <1>23 DEF Refused
<1>. QED
  BY <1>4, <1>5, <1>6, <1>7, <1>8, <1>9, <1>10, <1>11, <1>12, <1>13, <1>14, <1>15, <1>17,
     <1>18, <1>19, <1>20, <1>21, <1>23, <1>24, <1>25, <1>26, <1>27 DEF Step, Throw

LEMMA RankStepLife ==
  ASSUME TypeOK, LifeInv, NEW r \in Rank, Step(r) \/ Throw(r)
  PROVE  LifeInv'
<1>1. ASSUME NEW s \in Rank, s # r  PROVE LifeOf(s)'
  <2>1. Same(s) /\ LifeOf(s)  BY <1>1, Frame DEF LifeInv
  <2>. QED  BY <2>1 DEF Same, LifeOf, Ticket, ResourcesOf, HandlerOf, TransportOf
<1>. QED  BY <1>1, OwnLife DEF LifeInv

-----------------------------------------------------------------------------
(* The generations of the cache.                                           *)

LEMMA InitCache == Init => CacheInv
BY DEF Init, CacheInv, NoState, NoCache

LEMMA RankStepCache ==
  ASSUME TypeOK, LifeInv, CacheInv, NEW r \in Rank, Step(r) \/ Throw(r)
  PROVE  CacheInv'
<1>. DEFINE Fits(e, state) == /\ state # NoState /\ e.buffers # NoBuffers
                              /\ e.generation = state.generation
                              => e.buffers = [state |-> state.id, worker |-> e.worker]
            Good(s) == /\ am_state[s].generation < next_generation[s]
                       /\ \A type \in Types :
                            /\ cache[s][type].generation < next_generation[s]
                            /\ Fits(cache[s][type], am_state[s])
<1>1. ASSUME NEW s \in Rank, s # r  PROVE Good(s)'
  <2>1. Same(s) /\ Good(s)  BY <1>1, Frame DEF CacheInv
  <2>. QED  BY <2>1 DEF Same
<1>. SUFFICES Good(r)'  BY <1>1 DEF CacheInv
<1>2. /\ DOMAIN am_state = Rank /\ DOMAIN next_generation = Rank
      /\ DOMAIN cache = Rank /\ DOMAIN cache[r] = Types
      /\ next_generation[r] \in Nat /\ am_state[r].generation \in Nat
      /\ \A type \in Types : cache[r][type].generation \in Nat
  BY DEF CacheInv, TypeOK, State, CacheEntry
<1>14. /\ am_state[r].generation < next_generation[r]
       /\ \A type \in Types : cache[r][type].generation < next_generation[r]
       /\ \A type \in Types : Fits(cache[r][type], am_state[r])
  BY DEF CacheInv
<1>3. 0 < next_generation[r]  BY <1>2, <1>14
<1>4. CASE UNCHANGED <<am_state, next_generation, cache>>  BY <1>4, <1>14
<1>5. CASE UNCHANGED <<am_state, cache>> /\ AllocateGeneration(r)
  <2>1. next_generation'[r] = next_generation[r] + 1  BY <1>2, <1>5 DEF AllocateGeneration
  <2>. HIDE DEF Fits
  <2>. QED  BY <1>2, <1>5, <1>14, <2>1
<1>6. CASE SetAmHandler(r)
  <2>1. /\ next_generation'[r] = next_generation[r] + 1 /\ cache' = cache
        /\ am_state'[r].generation = next_generation[r]
    BY <1>2, <1>6 DEF SetAmHandler, AllocateGeneration
  <2>2. ASSUME NEW type \in Types
        PROVE  /\ cache'[r][type].generation < next_generation'[r]
               /\ Fits(cache[r][type], am_state[r])'
    <3>1. /\ cache'[r][type].generation < next_generation'[r]
          /\ cache'[r][type].generation # am_state'[r].generation
      BY <1>2, <1>14, <2>1
    <3>. QED  BY <3>1
  <2>3. am_state'[r].generation < next_generation'[r]  BY <1>2, <2>1
  <2>. QED  BY <2>2, <2>3
<1>7. CASE DropState(r) /\ UNCHANGED <<next_generation, cache>>
  <2>1. am_state'[r] = NoState /\ NoState.generation = 0
    BY <1>2, <1>7 DEF DropState, NoState
  <2>2. \A type \in Types : Fits(cache[r][type], am_state[r])'  BY <2>1
  <2>. HIDE DEF Fits
  <2>. QED  BY <1>3, <1>7, <1>14, <2>1, <2>2
<1>8. ASSUME NEW w \in Workers, UseBuffers(r, w), UNCHANGED <<am_state, next_generation>>
      PROVE  Good(r)'
  <2>. DEFINE e == [generation |-> am_state[r].generation, worker |-> w,
                    buffers |-> StateBuffers(r, w)]
  <2>1. e.generation = am_state[r].generation /\ Fits(e, am_state[r])  BY DEF StateBuffers
  <2>2. cache' = cache \/ cache' = [cache EXCEPT ![r][dispatch[r]] = e]
    BY <1>8 DEF UseBuffers
  <2>. HIDE DEF e, Fits
  <2>3. ASSUME NEW type \in Types
        PROVE  cache'[r][type] = cache[r][type] \/ cache'[r][type] = e
    BY <1>2, <2>2
  <2>4. \A type \in Types : /\ cache'[r][type].generation < next_generation[r]
                            /\ Fits(cache'[r][type], am_state[r])
    BY <1>14, <2>1, <2>3
  <2>5. UNCHANGED <<am_state, next_generation>>  BY <1>8
  <2>. QED  BY <1>14, <2>4, <2>5 DEF Fits
<1>9. ASSUME NEW w \in Workers, Flush(r, w)  PROVE Good(r)'
  <2>1. UseBuffers(r, w) /\ UNCHANGED <<am_state, next_generation>>  BY <1>9 DEF Flush
  <2>. QED  BY <1>8, <2>1
<1>10. ASSUME NEW w \in Workers, NEW d \in Rank, NEW type \in Types, Post(r, w, d, type)
       PROVE  Good(r)'
  <2>1. UseBuffers(r, w) /\ UNCHANGED <<am_state, next_generation>>  BY <1>10 DEF Post
  <2>. QED  BY <1>8, <2>1
<1>. HIDE DEF Good
<1>11. CASE ClearAmHandler(r) \/ DestroyActive(r) \/ RegistrationFails(r) \/ BarrierFails(r)
  BY <1>7, <1>11 DEF ClearAmHandler, DestroyActive, RegistrationFails, BarrierFails, EndState
<1>12. CASE BatchTooLarge(r)  BY <1>5, <1>12 DEF BatchTooLarge
<1>13. CASE \/ InitLci(r) \/ AllocateDevice(r) \/ AllocateCounter(r) \/ Constructed(r)
            \/ AllocateHandler(r) \/ RegisterRcomp(r) \/ EnterBarrier(r)
            \/ Registered(r) \/ Complete(r) \/ Destroy(r)
            \/ ConstructorFails(r) \/ Refused(r)
            \/ \E m \in net : Receive(m)
            \/ \E b \in receiving : GiveBack(b)
  BY <1>4, <1>13
  DEF InitLci, AllocateDevice, AllocateCounter, Constructed, AllocateHandler, RegisterRcomp,
      EnterBarrier, Registered, Complete, Destroy, ConstructorFails, Refused, Receive, GiveBack
<1>. QED  BY <1>6, <1>9, <1>10, <1>11, <1>12, <1>13 DEF Step, Throw

-----------------------------------------------------------------------------
(* The steps outside the exchange.  They touch no value and no message,    *)
(* and a rank that is live stays where it is.                              *)

Quiet(r) ==
  \/ InitLci(r) \/ AllocateDevice(r) \/ AllocateCounter(r) \/ Constructed(r)
  \/ SetAmHandler(r) \/ AllocateHandler(r) \/ RegisterRcomp(r) \/ EnterBarrier(r)
  \/ Destroy(r) \/ Throw(r)

LEMMA QuietEffect ==
  ASSUME TypeOK, NEW r \in Rank, Quiet(r)
  PROVE  /\ UNCHANGED <<phase, todo, buffered, net, handled, given, aborted>>
         /\ \A s \in Rank : \/ pc'[s] = pc[s]
                            \/ s = r /\ pc[s] \notin Live /\ pc'[s] \notin {"exchange", "end"}
         /\ \/ UNCHANGED recv_count /\ (pc'[r] \notin NoHandler => pc[r] \notin NoHandler)
            \/ recv_count' = [recv_count EXCEPT ![r] = 0] /\ pc[r] = "idle"
         /\ UNCHANGED am_state \/ pc[r] \notin Live
<1>. USE DEF TypeOK, Live, NoHandler
<1>1. CASE InitLci(r)  BY <1>1 DEF InitLci
<1>2. CASE AllocateDevice(r)  BY <1>2 DEF AllocateDevice
<1>3. CASE AllocateCounter(r)  BY <1>3 DEF AllocateCounter
<1>4. CASE Constructed(r)  BY <1>4 DEF Constructed
<1>5. CASE SetAmHandler(r)  BY <1>5 DEF SetAmHandler
<1>6. CASE AllocateHandler(r) \/ RegisterRcomp(r) \/ EnterBarrier(r)
  BY <1>6 DEF AllocateHandler, RegisterRcomp, EnterBarrier
<1>7. CASE Destroy(r)  BY <1>7 DEF Destroy
<1>8. CASE ConstructorFails(r)  BY <1>8 DEF ConstructorFails
<1>9. CASE BatchTooLarge(r)  BY <1>9 DEF BatchTooLarge
<1>10. CASE RegistrationFails(r) \/ BarrierFails(r)
  BY <1>10 DEF RegistrationFails, BarrierFails
<1>11. CASE Refused(r)  BY <1>11 DEF Refused
<1>. QED
  BY <1>1, <1>2, <1>3, <1>4, <1>5, <1>6, <1>7, <1>8, <1>9, <1>10, <1>11 DEF Quiet, Throw

(* The end of a phase, in clear_am_handler() or in the destructor.         *)
Ends(r) == ClearAmHandler(r) \/ DestroyActive(r)

LEMMA EndEffect ==
  ASSUME TypeOK, LifeInv, SenderInv, NEW r \in Rank, Ends(r)
  PROVE  /\ UNCHANGED <<todo, buffered, recv_count, net, handled, given, aborted>>
         /\ pc[r] = "end" /\ pc'[r] \in NoHandler \ {"constructing"}
         /\ phase' = [phase EXCEPT ![r] = @ + 1]
         /\ \A s \in Rank : s # r => pc'[s] = pc[s] /\ phase'[s] = phase[s]
         /\ phase[r] \in Nat /\ phase'[r] = phase[r] + 1
         /\ todo[r] = {} /\ buffered[r] = {}
<1>1. /\ UNCHANGED <<todo, buffered, recv_count, net, handled, given, aborted>>
      /\ pc[r] = "end" /\ pc'[r] \in NoHandler \ {"constructing"}
      /\ phase' = [phase EXCEPT ![r] = @ + 1] /\ EndState(r)
  BY DEF Ends, ClearAmHandler, DestroyActive, AfterPhase, NoHandler, TypeOK
<1>2. Step(r)  BY DEF Ends, Step
<1>3. \A s \in Rank : s # r => Same(s)  BY <1>2, Frame
<1>4. buffered[r] = {}
  <2>1. \A b \in buffered[r] : b[1].state # am_state[r].id
    BY <1>1 DEF EndState, HasBufferedRecords
  <2>2. ASSUME NEW b \in buffered[r]  PROVE b[1].state = am_state[r].id
    <3>1. PICK x \in Plan[phase[r]][r] : b = Entry(r, phase[r], x)
      BY DEF SenderInv, SenderOf
    <3>. QED  BY <3>1 DEF Entry
  <2>. QED  BY <2>1, <2>2
<1>5. todo[r] = {}  BY <1>1 DEF SenderInv, SenderOf
<1>6. phase[r] \in Nat /\ phase'[r] = phase[r] + 1  BY <1>1 DEF TypeOK
<1>. QED  BY <1>1, <1>3, <1>4, <1>5, <1>6 DEF Same

-----------------------------------------------------------------------------
(* The barrier.  A rank that leaves it has seen the others in it.          *)

LEMMA Moves ==
  ASSUME TypeOK, LifeInv, SenderInv, NEW r \in Rank, Step(r) \/ Throw(r), NEW s \in Rank
  PROVE  \/ /\ phase'[s] = phase[s]
            /\ pc[s] \in Live => pc'[s] \in Live
            /\ pc'[s] \in {"exchange", "end"} =>
                 pc[s] \in {"exchange", "end"} \/ (s = r /\ Registered(r))
         \/ s = r /\ Ends(r)
<1>1. CASE s # r  BY <1>1, Frame DEF Same
<1>2. CASE Quiet(r)  BY <1>2, QuietEffect DEF Live
<1>3. CASE s = r /\ Registered(r)  BY <1>3 DEF Registered, Live, TypeOK
<1>4. CASE s = r /\ Complete(r)  BY <1>4 DEF Complete, Live, TypeOK
<1>5. CASE UNCHANGED <<pc, phase>>  BY <1>5
<1>6. ASSUME NEW w \in Workers, NEW d \in Rank, NEW type \in Types, Post(r, w, d, type)
      PROVE  UNCHANGED <<pc, phase>>
  BY <1>6 DEF Post
<1>7. ASSUME NEW w \in Workers, Flush(r, w)  PROVE UNCHANGED <<pc, phase>>  BY <1>7 DEF Flush
<1>8. ASSUME NEW m \in net, Receive(m)  PROVE UNCHANGED <<pc, phase>>  BY <1>8 DEF Receive
<1>9. ASSUME NEW b \in receiving, GiveBack(b)  PROVE UNCHANGED <<pc, phase>>
  BY <1>9 DEF GiveBack
<1>. QED
  BY <1>1, <1>2, <1>3, <1>4, <1>5, <1>6, <1>7, <1>8, <1>9 DEF Step, Quiet, Ends

LEMMA StartedStays ==
  ASSUME TypeOK, LifeInv, SenderInv, NEW r \in Rank, Step(r) \/ Throw(r), NEW s \in Rank,
         NEW p \in Nat, Started(s, p)
  PROVE  Started(s, p)'
<1>1. CASE s = r /\ Ends(r)
  <2>1. phase[r] \in Nat /\ phase'[r] = phase[r] + 1  BY <1>1, EndEffect
  <2>. QED  BY <1>1, <2>1 DEF Started
<1>2. CASE phase'[s] = phase[s] /\ (pc[s] \in Live => pc'[s] \in Live)
  BY <1>2 DEF Started
<1>. QED  BY <1>1, <1>2, Moves

(* A rank that has not started the phase has entered fewer barriers than   *)
(* one that waits in the barrier of the phase.                             *)
LEMMA TicketGap ==
  ASSUME TypeOK, LifeInv, NEW r \in Rank, NEW s \in Rank, pc[r] = "barrier",
         entered[s] >= entered[r]
  PROVE  Started(s, phase[r])
<1>1. /\ phase[r] \in Nat \ {0} /\ phase[s] \in Nat \ {0}
      /\ Before(phase[r]) \in Nat /\ Before(phase[s]) \in Nat
  <2>1. phase[r] \in Nat \ {0} /\ phase[s] \in Nat \ {0}  BY PhaseType
  <2>. QED  BY <2>1, BeforeType
<1>2. entered[r] = Before(phase[r]) + 2  BY DEF LifeInv, LifeOf, Ticket, Live, Outside
<1>3. /\ entered[s] \in Nat /\ entered[s] <= Before(phase[s]) + 2
      /\ pc[s] \notin Live => entered[s] <= Before(phase[s]) + 1
  <2>1. entered[s] = Ticket(s)  BY DEF LifeInv, LifeOf
  <2>. QED  BY <1>1, <2>1 DEF Ticket, Live, Outside
<1>4. CASE phase[s] < phase[r]
  <2>1. Before(phase[s]) < Before(phase[r])  BY <1>1, <1>4, BeforeGrows
  <2>. QED  BY <1>1, <1>2, <1>3, <2>1
<1>5. CASE phase[s] = phase[r]
  <2>1. pc[s] \in Live  BY <1>1, <1>2, <1>3, <1>5
  <2>. QED  BY <1>5, <2>1 DEF Started
<1>6. CASE phase[s] > phase[r]  BY <1>6 DEF Started
<1>. QED  BY <1>1, <1>4, <1>5, <1>6

LEMMA RankStepStarted ==
  ASSUME TypeOK, LifeInv, SenderInv, StartedInv, NEW r \in Rank, Step(r) \/ Throw(r)
  PROVE  StartedInv'
<1>. SUFFICES ASSUME NEW t \in Rank, pc'[t] \in {"exchange", "end"}, NEW s \in Rank
              PROVE  Started(s, phase[t])'
  BY DEF StartedInv
<1>1. ~ (t = r /\ Ends(r))  BY EndEffect DEF NoHandler
<1>2. /\ phase'[t] = phase[t] /\ phase[t] \in Nat
      /\ pc[t] \in {"exchange", "end"} \/ (t = r /\ Registered(r))
  <2>1. phase[t] \in Nat  BY PhaseType
  <2>. QED  BY <1>1, <2>1, Moves
<1>3. Started(s, phase[t])
  <2>1. CASE pc[t] \in {"exchange", "end"}  BY <2>1 DEF StartedInv
  <2>2. CASE t = r /\ Registered(r)  BY <2>2, TicketGap DEF Registered, AllEntered
  <2>. QED  BY <1>2, <2>1, <2>2
<1>4. PICK p \in Nat : p = phase[t]  BY <1>2
<1>5. Started(s, p)'  BY <1>3, <1>4, StartedStays
<1>. QED  BY <1>2, <1>4, <1>5 DEF Started

-----------------------------------------------------------------------------
(* The values of the sender.                                               *)

LEMMA PlanPairs ==
  ASSUME NEW p \in Phase, NEW s \in Rank, NEW x \in Plan[p][s]
  PROVE  x \in Workers \X Rank /\ x = <<x[1], x[2]>> /\ x[1] \in Workers /\ x[2] \in Rank
<1>1. x \in Workers \X Rank  BY Constants
<1>. QED  BY <1>1

(* Different values have different entries in the buffers and different    *)
(* messages.                                                               *)
LEMMA EntryExact ==
  ASSUME NEW p \in Phase, NEW s \in Rank, NEW x \in Plan[p][s], NEW y \in Plan[p][s],
         Entry(s, p, x) = Entry(s, p, y)
  PROVE  x = y
<1>1. x[1] = y[1] /\ x[2] = y[2]
  <2>1. Entry(s, p, x)[1].worker = x[1] /\ Entry(s, p, x)[2] = x[2]  BY DEF Entry
  <2>2. Entry(s, p, y)[1].worker = y[1] /\ Entry(s, p, y)[2] = y[2]  BY DEF Entry
  <2>. QED  BY <2>1, <2>2
<1>. QED  BY <1>1, PlanPairs

LEMMA MsgExact ==
  ASSUME NEW p \in Phase, NEW s \in Rank, NEW x \in Plan[p][s],
         NEW q \in Phase, NEW t \in Rank, NEW y \in Plan[q][t], Msg(p, s, x) = Msg(q, t, y)
  PROVE  p = q /\ s = t /\ x = y
<1>1. p = q /\ s = t /\ x[1] = y[1] /\ x[2] = y[2]  BY DEF Msg
<1>. QED  BY <1>1, PlanPairs

LEMMA InitSender == Init => SenderInv
BY DEF Init, SenderInv, SenderOf

(* What a post moves from the plan into the buffers.                       *)
LEMMA PostEffect ==
  ASSUME TypeOK, LifeInv, CacheInv, SenderInv, NEW r \in Rank, NEW w \in Workers,
         NEW d \in Rank, NEW type \in Types, Post(r, w, d, type)
  PROVE  /\ phase[r] \in Phase /\ pc[r] = "exchange" /\ <<w, d>> \in todo[r]
         /\ <<w, d>> \in Plan[phase[r]][r]
         /\ todo' = [todo EXCEPT ![r] = @ \ {<<w, d>>}]
         /\ buffered' = [buffered EXCEPT ![r] = @ \union {Entry(r, phase[r], <<w, d>>)}]
         /\ UNCHANGED <<pc, phase, am_state, delivery>>
<1>1. pc[r] = "exchange" /\ <<w, d>> \in todo[r]  BY DEF Post
<1>2. phase[r] \in Phase /\ dispatch[r] = RecordType[phase[r]]
  BY <1>1, InPhase DEF NoHandler
<1>3. <<w, d>> \in Plan[phase[r]][r]  BY <1>1 DEF SenderInv, SenderOf
<1>4. <<WorkerBuffers(r, w), d, type>> = Entry(r, phase[r], <<w, d>>)
  <2>1. type = RecordType[phase[r]]  BY <1>2 DEF Post, MatchesType
  <2>2. WorkerBuffers(r, w) = [state |-> am_state[r].id, worker |-> w]  BY <1>1, OwnBuffers
  <2>. QED  BY <2>1, <2>2 DEF Entry
<1>. QED  BY <1>1, <1>2, <1>3, <1>4 DEF Post

LEMMA RankStepSender ==
  ASSUME TypeOK, LifeInv, CacheInv, SenderInv, NEW r \in Rank, Step(r) \/ Throw(r)
  PROVE  SenderInv'
<1>1. ASSUME NEW s \in Rank, s # r  PROVE SenderOf(s)'
  <2>1. Same(s) /\ SenderOf(s)  BY <1>1, Frame DEF SenderInv
  <2>2. ASSUME NEW q, NEW x  PROVE Entry(s, q, x)' = Entry(s, q, x)
    BY <2>1 DEF Same, Entry
  <2>. QED  BY <2>1, <2>2 DEF Same, SenderOf
<1>. SUFFICES SenderOf(r)'  BY <1>1 DEF SenderInv
<1>. USE DEF SenderOf
<1>2. SenderOf(r)  BY DEF SenderInv
<1>11. ASSUME am_state' = am_state, NEW q, NEW x  PROVE Entry(r, q, x)' = Entry(r, q, x)
  BY <1>11 DEF Entry
<1>3. CASE Quiet(r)
  <2>1. UNCHANGED <<phase, todo, buffered>>  BY <1>3, QuietEffect
  <2>2. pc'[r] = pc[r] \/ (pc[r] \notin Live /\ pc'[r] \notin {"exchange", "end"})
    BY <1>3, QuietEffect
  <2>3. UNCHANGED am_state \/ buffered[r] = {}  BY <1>2, <1>3, QuietEffect DEF Live
  <2>4. \A b \in buffered'[r] : \E x \in Plan[phase'[r]][r] \ todo'[r] : b = Entry(r, phase[r], x)'
    BY <1>2, <1>11, <2>1, <2>3
  <2>5. /\ todo'[r] # {} => pc'[r] = "exchange"
        /\ buffered'[r] # {} => pc'[r] \in {"exchange", "end"}
        /\ pc'[r] = "exchange" => todo'[r] \subseteq Plan[phase'[r]][r]
    BY <1>2, <2>1, <2>2 DEF Live
  <2>. QED  BY <2>4, <2>5
<1>4. CASE Ends(r)
  <2>1. todo'[r] = {} /\ buffered'[r] = {} /\ pc'[r] # "exchange"
    BY <1>4, EndEffect DEF NoHandler
  <2>. QED  BY <2>1
<1>5. CASE Registered(r)
  <2>1. /\ pc'[r] = "exchange" /\ todo'[r] = Plan[phase[r]][r] /\ buffered' = buffered
        /\ phase' = phase /\ pc[r] = "barrier"
    BY <1>5 DEF Registered, TypeOK
  <2>2. buffered'[r] = {}  BY <1>2, <2>1
  <2>. QED  BY <2>1, <2>2
<1>6. ASSUME NEW w \in Workers, NEW d \in Rank, NEW type \in Types, Post(r, w, d, type)
      PROVE  SenderOf(r)'
  <2>1. /\ phase[r] \in Phase /\ pc[r] = "exchange" /\ <<w, d>> \in Plan[phase[r]][r]
        /\ todo'[r] = todo[r] \ {<<w, d>>}
        /\ buffered'[r] = buffered[r] \union {Entry(r, phase[r], <<w, d>>)}
        /\ UNCHANGED <<pc, phase, am_state>>
    <3>1. DOMAIN todo = Rank /\ DOMAIN buffered = Rank  BY DEF TypeOK
    <3>. QED  BY <1>6, <3>1, PostEffect
  <2>2. ASSUME NEW b \in buffered'[r]
        PROVE  \E x \in Plan[phase[r]][r] \ todo'[r] : b = Entry(r, phase[r], x)
    BY <1>2, <2>1
  <2>3. \A x : Entry(r, phase[r], x)' = Entry(r, phase[r], x)  BY <2>1 DEF Entry
  <2>. QED  BY <1>2, <2>1, <2>2, <2>3
<1>7. ASSUME NEW w \in Workers, Flush(r, w)  PROVE SenderOf(r)'
  <2>1. /\ UNCHANGED <<pc, phase, am_state, todo>>
        /\ buffered'[r] = buffered[r] \ BuffersOf(r, w) /\ pc[r] \in {"exchange", "end"}
    BY <1>7 DEF Flush, TypeOK
  <2>2. \A x : Entry(r, phase[r], x)' = Entry(r, phase[r], x)  BY <2>1 DEF Entry
  <2>. QED  BY <1>2, <2>1, <2>2
<1>8. ASSUME NEW m \in net, Receive(m)  PROVE SenderOf(r)'
  <2>1. UNCHANGED <<pc, phase, am_state, todo, buffered>>  BY <1>8 DEF Receive
  <2>. QED  BY <1>2, <2>1 DEF Entry
<1>9. ASSUME NEW b \in receiving, GiveBack(b)  PROVE SenderOf(r)'
  <2>1. UNCHANGED <<pc, phase, am_state, todo, buffered>>  BY <1>9 DEF GiveBack
  <2>. QED  BY <1>2, <2>1 DEF Entry
<1>10. CASE Complete(r)
  <2>1. /\ todo[r] = {} /\ pc[r] = "exchange" /\ pc'[r] = "end"
        /\ UNCHANGED <<phase, am_state, todo, buffered>>
    BY <1>10 DEF Complete, TypeOK
  <2>2. \A x : Entry(r, phase[r], x)' = Entry(r, phase[r], x)  BY <2>1 DEF Entry
  <2>. QED  BY <1>2, <2>1, <2>2
<1>. QED
  BY <1>3, <1>4, <1>5, <1>6, <1>7, <1>8, <1>9, <1>10 DEF Step, Quiet, Ends

(* The values that a flush sends.                                          *)
Out(r, w) ==
  {x \in Plan[phase[r]][r] \ todo[r] : Entry(r, phase[r], x) \in BuffersOf(r, w)}

LEMMA FlushEffect ==
  ASSUME TypeOK, LifeInv, SenderInv, NEW r \in Rank, NEW w \in Workers, Flush(r, w)
  PROVE  /\ phase[r] \in Phase /\ pc[r] \in {"exchange", "end"}
         /\ BuffersOf(r, w) \subseteq buffered[r]
         /\ buffered' = [buffered EXCEPT ![r] = @ \ BuffersOf(r, w)]
         /\ net' = net \union {Msg(phase[r], r, x) : x \in Out(r, w)}
         /\ UNCHANGED <<pc, phase, am_state, todo, recv_count, handled, given, aborted>>
<1>. DEFINE Sent(b) == [phase |-> phase[r], src |-> r, worker |-> b[1].worker, dst |-> b[2],
                        type |-> b[3], rcomp |-> am_rcomp[r]]
<1>1. pc[r] \in {"exchange", "end"}  BY DEF Flush
<1>2. phase[r] \in Phase  BY <1>1, InPhase
<1>3. am_rcomp[r] = Rcomp(phase[r])
  BY <1>1 DEF LifeInv, LifeOf, TransportOf, Live, WithRcomp
<1>4. net' = net \union {Sent(b) : b \in BuffersOf(r, w)}  BY DEF Flush
<1>5. BuffersOf(r, w) \subseteq buffered[r]  BY DEF BuffersOf
<1>6. ASSUME NEW x PROVE Sent(Entry(r, phase[r], x)) = Msg(phase[r], r, x)
  BY <1>3 DEF Entry, Msg
<1>7. ASSUME NEW b \in BuffersOf(r, w)
      PROVE  \E x \in Out(r, w) : b = Entry(r, phase[r], x)
  BY <1>5, <1>7 DEF SenderInv, SenderOf, Out
<1>8. \A x \in Out(r, w) : Entry(r, phase[r], x) \in BuffersOf(r, w)  BY DEF Out
<1>. HIDE DEF Sent
<1>9. {Sent(b) : b \in BuffersOf(r, w)} = {Msg(phase[r], r, x) : x \in Out(r, w)}
  BY <1>6, <1>7, <1>8
<1>. QED  BY <1>1, <1>2, <1>4, <1>5, <1>9 DEF Flush

(* A step that is no flush sends nothing.                                  *)
LEMMA SentSame ==
  ASSUME TypeOK, LifeInv, CacheInv, SenderInv, NEW r \in Rank, Step(r) \/ Throw(r),
         \A w \in Workers : ~ Flush(r, w),
         NEW p \in Phase, NEW s \in Rank, NEW x \in Plan[p][s]
  PROVE  SentBy(s, p, x)' <=> SentBy(s, p, x)
<1>. USE DEF SentBy
<1>1. CASE s # r
  <2>1. Same(s)  BY <1>1, Frame
  <2>2. Entry(s, p, x)' = Entry(s, p, x)  BY <2>1 DEF Same, Entry
  <2>. QED  BY <2>1, <2>2 DEF Same
<1>9. ASSUME am_state' = am_state  PROVE Entry(r, p, x)' = Entry(r, p, x)
  BY <1>9 DEF Entry
<1>. SUFFICES ASSUME s = r PROVE SentBy(r, p, x)' <=> SentBy(r, p, x)  BY <1>1
<1>2. CASE Quiet(r)
  <2>1. UNCHANGED <<phase, todo, buffered>>  BY <1>2, QuietEffect
  <2>2. pc'[r] = pc[r] \/ (pc[r] \notin Live /\ pc'[r] \notin {"exchange", "end"})
    BY <1>2, QuietEffect
  <2>3. UNCHANGED am_state \/ pc[r] \notin Live  BY <1>2, QuietEffect
  <2>. QED  BY <1>9, <2>1, <2>2, <2>3 DEF Live
<1>3. CASE Ends(r)
  <2>1. /\ pc[r] = "end" /\ pc'[r] \notin {"exchange", "end"} /\ phase'[r] = phase[r] + 1
        /\ phase[r] \in Nat /\ todo[r] = {} /\ buffered[r] = {}
    BY <1>3, EndEffect DEF NoHandler
  <2>2. p \in Nat  BY PhaseBounds
  <2>. QED  BY <2>1, <2>2
<1>4. CASE Registered(r)
  <2>1. /\ pc[r] = "barrier" /\ todo'[r] = Plan[phase[r]][r] /\ phase' = phase
    BY <1>4 DEF Registered, TypeOK
  <2>. QED  BY <2>1
<1>5. ASSUME NEW w \in Workers, NEW d \in Rank, NEW type \in Types, Post(r, w, d, type)
      PROVE  SentBy(r, p, x)' <=> SentBy(r, p, x)
  <2>1. /\ <<w, d>> \in todo[r] /\ <<w, d>> \in Plan[phase[r]][r]
        /\ UNCHANGED <<pc, phase, am_state>>
    BY <1>5, PostEffect
  <2>2. /\ todo'[r] = todo[r] \ {<<w, d>>}
        /\ buffered'[r] = buffered[r] \union {Entry(r, phase[r], <<w, d>>)}
    <3>1. DOMAIN todo = Rank /\ DOMAIN buffered = Rank  BY DEF TypeOK
    <3>. QED  BY <1>5, <3>1, PostEffect
  <2>3. p = phase[r] /\ x # <<w, d>> => Entry(r, p, x) # Entry(r, phase[r], <<w, d>>)
    BY <2>1, EntryExact
  <2>. QED  BY <1>9, <2>1, <2>2, <2>3
<1>6. ASSUME NEW m \in net, Receive(m)  PROVE SentBy(r, p, x)' <=> SentBy(r, p, x)
  BY <1>6, <1>9 DEF Receive
<1>7. ASSUME NEW b \in receiving, GiveBack(b)  PROVE SentBy(r, p, x)' <=> SentBy(r, p, x)
  BY <1>7, <1>9 DEF GiveBack
<1>8. CASE Complete(r)  BY <1>8, <1>9 DEF Complete, TypeOK
<1>. QED  BY <1>2, <1>3, <1>4, <1>5, <1>6, <1>7, <1>8 DEF Step, Quiet, Ends

LEMMA SentByFlush ==
  ASSUME TypeOK, LifeInv, SenderInv, NEW r \in Rank, NEW w \in Workers, Flush(r, w),
         NEW p \in Phase, NEW s \in Rank, NEW x \in Plan[p][s]
  PROVE  /\ SentBy(s, p, x)' <=>
              SentBy(s, p, x) \/ (s = r /\ p = phase[r] /\ x \in Out(r, w))
         /\ s = r /\ p = phase[r] /\ x \in Out(r, w) => ~ SentBy(s, p, x)
<1>1. /\ phase[r] \in Phase /\ pc[r] \in {"exchange", "end"}
      /\ BuffersOf(r, w) \subseteq buffered[r] /\ UNCHANGED <<pc, phase, am_state, todo>>
  BY FlushEffect
<1>2. \A t \in Rank : buffered'[t] = IF t = r THEN buffered[r] \ BuffersOf(r, w)
                                              ELSE buffered[t]
  <2>1. DOMAIN buffered = Rank  BY DEF TypeOK
  <2>2. buffered' = [buffered EXCEPT ![r] = @ \ BuffersOf(r, w)]  BY FlushEffect
  <2>. QED  BY <2>1, <2>2
<1>3. p \in Nat /\ phase[r] \in Nat /\ ~ (phase[r] < phase[r])
  BY PhaseBounds, PhaseType
<1>4. Entry(s, p, x)' = Entry(s, p, x)  BY <1>1 DEF Entry
<1>. QED  BY <1>1, <1>2, <1>3, <1>4 DEF SentBy, Out

-----------------------------------------------------------------------------
(* The messages.                                                           *)

LEMMA InitMessages == Init => MessageInv /\ ReceiverInv /\ CountInv /\ StartedInv
<1>. SUFFICES ASSUME Init PROVE MessageInv /\ ReceiverInv /\ CountInv /\ StartedInv
  OBVIOUS
<1>1. HandledMessages = {} /\ net = {}  BY DEF Init, HandledMessages
<1>2. \A r \in Rank : phase[r] = 1 /\ pc[r] = "down"  BY DEF Init
<1>3. MessageInv
  <2>1. \A p \in Phase, s \in Rank : \A x : ~ SentBy(s, p, x)
    BY <1>2, PhaseBounds DEF SentBy
  <2>. QED  BY <1>1, <2>1 DEF MessageInv
<1>4. ReceiverInv  BY DEF Init, ReceiverInv
<1>5. CountInv
  <2>1. \A p \in Phase, d \in Rank : ~ Finished(d, p)
    BY <1>2, PhaseBounds DEF Finished
  <2>2. IsFiniteSet(handled)  BY FS_EmptySet DEF Init
  <2>. QED  BY <1>2, <2>1, <2>2 DEF CountInv, NoHandler
<1>6. StartedInv  BY <1>2 DEF StartedInv
<1>. QED  BY <1>3, <1>4, <1>5, <1>6

(* A message that is received meets the handler of its phase.              *)
LEMMA ReceiveEffect ==
  ASSUME TypeOK, LifeInv, MessageInv, ReceiverInv, NEW m \in net, Receive(m)
  PROVE  /\ m \in Message /\ m.dst \in Rank /\ m.phase = phase[m.dst]
         /\ pc[m.dst] \in {"barrier", "exchange"}
         /\ m.type = am_state[m.dst].type /\ m.phase = am_state[m.dst].phase
         /\ net' = net \ {m} /\ handled' = handled \union {<<m, am_state[m.dst]>>}
         /\ recv_count' = [recv_count EXCEPT ![m.dst] = @ + 1]
         /\ receiving' = receiving \union {[message |-> m, kind |-> KindOf(phase[m.dst])]}
         /\ UNCHANGED <<pc, phase, todo, buffered, returned, aborted>>
<1>. DEFINE r == m.dst
<1>1. m \in Message /\ r \in Rank /\ phase[r] = m.phase /\ pc[r] \in {"barrier", "exchange"}
  BY DEF TypeOK, Message, ReceiverInv
<1>2. PICK p \in Phase, s \in Rank : \E x \in Plan[p][s] : m = Msg(p, s, x)
  BY DEF MessageInv
<1>3. m.phase = p /\ m.type = RecordType[p] /\ m.rcomp = Rcomp(p)  BY <1>2 DEF Msg
<1>4. /\ am_state[r].phase = p /\ am_state[r].type = RecordType[p]
      /\ am_handler[r] = KindOf(p) /\ registry[r] = {Rcomp(p)} \ {0} /\ g_runtime[r]
  <2>1. LifeOf(r) /\ pc[r] \in Live /\ pc[r] \notin NoHandler /\ pc[r] \notin {"down", "devices"}
    BY <1>1 DEF LifeInv, Live, NoHandler
  <2>2. HandlerOf(r) /\ TransportOf(r) /\ ResourcesOf(r)  BY <2>1 DEF LifeOf
  <2>3. phase[r] = p  BY <1>1, <1>3
  <2>4. am_state[r].phase = p /\ am_state[r].type = RecordType[p]
    BY <2>1, <2>2, <2>3 DEF HandlerOf
  <2>7. pc[r] \notin NoHandler \union {"register"} /\ pc[r] \in WithRcomp
    BY <1>1 DEF NoHandler, WithRcomp, Live
  <2>5. am_handler[r] = KindOf(p) /\ registry[r] = {Rcomp(p)} \ {0}
    BY <2>2, <2>3, <2>7 DEF TransportOf
  <2>6. g_runtime[r]  BY <2>1, <2>2 DEF ResourcesOf
  <2>. QED  BY <2>4, <2>5, <2>6
<1>5. m.rcomp \in registry[r]  BY <1>3, <1>4, RcompPositive
<1>6. am_state[r] # NoState  BY <1>4, PhaseBounds DEF NoState
<1>7. SizeOf[RecordType[p]] \in Nat \ {0}  BY Constants
<1>8. /\ ValidBatch(MessageBytes(m), am_state[r].type)
      /\ RecordCount(MessageBytes(m), am_state[r].type) = 1
  <2>1. \A n \in Nat \ {0} : n % n = 0 /\ n \div n = 1  BY SMT
  <2>. QED  BY <1>3, <1>4, <1>7, <2>1 DEF ValidBatch, RecordCount, MessageBytes
<1>. QED  BY <1>1, <1>3, <1>4, <1>5, <1>6, <1>8 DEF Receive

(* It was not handled before.                                              *)
LEMMA HandledGrows ==
  ASSUME TypeOK, LifeInv, MessageInv, ReceiverInv, NEW m \in net, Receive(m)
  PROVE  /\ HandledMessages' = HandledMessages \union {m}
         /\ m \notin HandledMessages
         /\ net' \union HandledMessages' = net \union HandledMessages
<1>1. handled' = handled \union {<<m, am_state[m.dst]>>} /\ net' = net \ {m}
  BY ReceiveEffect
<1>2. HandledMessages' = HandledMessages \union {m}
  <2>. DEFINE g == <<m, am_state[m.dst]>>
  <2>1. g[1] = m  OBVIOUS
  <2>2. handled' = handled \union {g}  BY <1>1
  <2>. HIDE DEF g
  <2>3. {h[1] : h \in handled \union {g}} = {h[1] : h \in handled} \union {m}  BY <2>1
  <2>. QED  BY <2>2, <2>3 DEF HandledMessages
<1>3. m \notin HandledMessages  BY DEF MessageInv
<1>. QED  BY <1>1, <1>2, <1>3

(* All the other steps.                                                    *)
LEMMA OtherEffect ==
  ASSUME TypeOK, LifeInv, SenderInv, NEW r \in Rank, Step(r) \/ Throw(r),
         \A w \in Workers : ~ Flush(r, w), \A m \in net : ~ Receive(m)
  PROVE  UNCHANGED <<net, handled, aborted>>
<1>1. CASE Quiet(r)  BY <1>1, QuietEffect
<1>2. CASE Ends(r)  BY <1>2, EndEffect
<1>3. CASE Registered(r)  BY <1>3 DEF Registered
<1>4. CASE Complete(r)  BY <1>4 DEF Complete
<1>5. CASE \E w \in Workers, d \in Rank, type \in Types : Post(r, w, d, type)
  BY <1>5 DEF Post
<1>6. CASE \E b \in receiving : GiveBack(b)  BY <1>6 DEF GiveBack
<1>. QED  BY <1>1, <1>2, <1>3, <1>4, <1>5, <1>6 DEF Step, Quiet, Ends

LEMMA RankStepMessage ==
  ASSUME TypeOK, LifeInv, CacheInv, SenderInv, MessageInv, ReceiverInv,
         NEW r \in Rank, Step(r) \/ Throw(r)
  PROVE  MessageInv'
<1>. DEFINE Both == net \union HandledMessages
<1>1. /\ \A m \in Both : \E p \in Phase, s \in Rank : \E x \in Plan[p][s] :
           m = Msg(p, s, x) /\ SentBy(s, p, x)
      /\ \A p \in Phase, s \in Rank : \A x \in Plan[p][s] :
           SentBy(s, p, x) => Msg(p, s, x) \in Both
      /\ net \intersect HandledMessages = {}
  BY DEF MessageInv
<1>2. ASSUME \A w \in Workers : ~ Flush(r, w),
             net' \union HandledMessages' = Both,
             net' \intersect HandledMessages' = {}
      PROVE  MessageInv'
  <2>1. \A p \in Phase, s \in Rank : \A x \in Plan[p][s] : SentBy(s, p, x)' <=> SentBy(s, p, x)
    BY <1>2, SentSame
  <2>. QED  BY <1>1, <1>2, <2>1 DEF MessageInv, Msg
<1>3. CASE \E m \in net : Receive(m)
  <2>1. PICK m \in net : Receive(m)  BY <1>3
  <2>2. \A w \in Workers : ~ Flush(r, w)
    <3>1. net' = net \ {m}  BY <2>1, ReceiveEffect
    <3>2. ASSUME NEW w \in Workers, Flush(r, w)  PROVE net \subseteq net'
      BY <3>2, FlushEffect
    <3>. QED  BY <3>1, <3>2
  <2>3. net' \union HandledMessages' = Both  BY <2>1, HandledGrows
  <2>4. net' \intersect HandledMessages' = {}
    <3>1. net' = net \ {m} /\ HandledMessages' = HandledMessages \union {m}
      BY <2>1, ReceiveEffect, HandledGrows
    <3>. QED  BY <1>1, <3>1
  <2>. QED  BY <1>2, <2>2, <2>3, <2>4
<1>4. CASE \E w \in Workers : Flush(r, w)
  <2>1. PICK w \in Workers : Flush(r, w)  BY <1>4
  <2>2. /\ phase[r] \in Phase /\ handled' = handled
        /\ net' = net \union {Msg(phase[r], r, x) : x \in Out(r, w)}
    BY <2>1, FlushEffect
  <2>3. HandledMessages' = HandledMessages  BY <2>2 DEF HandledMessages
  <2>4. Out(r, w) \subseteq Plan[phase[r]][r]  BY DEF Out
  <2>5. \A p \in Phase, s \in Rank : \A x \in Plan[p][s] :
          /\ SentBy(s, p, x)' <=>
               SentBy(s, p, x) \/ (s = r /\ p = phase[r] /\ x \in Out(r, w))
          /\ s = r /\ p = phase[r] /\ x \in Out(r, w) => ~ SentBy(s, p, x)
    BY <2>1, SentByFlush
  <2>6. ASSUME NEW m \in net' \union HandledMessages'
        PROVE  \E p \in Phase, s \in Rank : \E x \in Plan[p][s] :
                 m = Msg(p, s, x) /\ SentBy(s, p, x)'
    <3>1. CASE m \in Both
      <4>1. PICK p \in Phase, s \in Rank : \E x \in Plan[p][s] :
                   m = Msg(p, s, x) /\ SentBy(s, p, x)
        BY <1>1, <3>1
      <4>2. PICK x \in Plan[p][s] : m = Msg(p, s, x) /\ SentBy(s, p, x)  BY <4>1
      <4>3. SentBy(s, p, x)'  BY <2>5, <4>2
      <4>. QED  BY <4>2, <4>3
    <3>2. CASE m \in {Msg(phase[r], r, x) : x \in Out(r, w)}
      <4>1. PICK x \in Out(r, w) : m = Msg(phase[r], r, x)  BY <3>2
      <4>2. x \in Plan[phase[r]][r]  BY <2>4
      <4>3. PICK q \in Phase : q = phase[r]  BY <2>2
      <4>4. SentBy(r, q, x)'  BY <2>5, <4>2, <4>3
      <4>. QED  BY <4>1, <4>2, <4>3, <4>4
    <3>. QED  BY <2>2, <2>3, <3>1, <3>2
  <2>7. ASSUME NEW p \in Phase, NEW s \in Rank, NEW x \in Plan[p][s], SentBy(s, p, x)'
        PROVE  Msg(p, s, x) \in net' \union HandledMessages'
    BY <1>1, <2>2, <2>3, <2>5, <2>7
  <2>8. ASSUME NEW m \in net', m \in HandledMessages'  PROVE FALSE
    <3>1. m \notin net  BY <1>1, <2>3, <2>8
    <3>2. PICK x \in Out(r, w) : m = Msg(phase[r], r, x)  BY <2>2, <3>1
    <3>3. PICK p \in Phase, s \in Rank : \E y \in Plan[p][s] :
                 m = Msg(p, s, y) /\ SentBy(s, p, y)
      BY <1>1, <2>3, <2>8
    <3>4. PICK y \in Plan[p][s] : m = Msg(p, s, y) /\ SentBy(s, p, y)  BY <3>3
    <3>5. p = phase[r] /\ s = r /\ x = y
      <4>1. PICK q \in Phase : q = phase[r]  BY <2>2
      <4>2. x \in Plan[q][r] /\ Msg(q, r, x) = Msg(p, s, y)  BY <2>4, <3>2, <3>4, <4>1
      <4>. QED  BY <4>1, <4>2, MsgExact
    <3>. QED  BY <2>5, <3>4, <3>5
  <2>. QED  BY <2>6, <2>7, <2>8 DEF MessageInv, Msg
<1>5. CASE (\A w \in Workers : ~ Flush(r, w)) /\ (\A m \in net : ~ Receive(m))
  <2>1. net' = net /\ handled' = handled  BY <1>5, OtherEffect
  <2>2. HandledMessages' = HandledMessages  BY <2>1 DEF HandledMessages
  <2>. QED  BY <1>1, <1>2, <1>5, <2>1, <2>2
<1>. QED  BY <1>3, <1>4, <1>5

-----------------------------------------------------------------------------
(* The receiver.                                                           *)

(* A rank that completes a phase has handled all the values of the phase:  *)
(* it counts as many as there are, and no value twice.                     *)
LEMMA CompleteAll ==
  ASSUME TypeOK, LifeInv, MessageInv, ReceiverInv, CountInv, NEW r \in Rank, Complete(r),
         NEW s \in Rank, NEW x \in Plan[phase[r]][s], x[2] = r
  PROVE  Msg(phase[r], s, x) \in HandledMessages
<1>1. phase[r] \in Phase /\ pc[r] = "exchange"  BY InPhase DEF Complete
<1>2. PICK p \in Phase : p = phase[r]  BY <1>1
<1>. DEFINE R == Received(r)
            T == {y \in Rank \X Workers : <<y[2], r>> \in Plan[p][y[1]]}
            f == [h \in R |-> <<h[1].src, h[1].worker>>]
<1>3. ASSUME NEW h \in R
      PROVE  \E t \in Rank : \E y \in Plan[p][t] :
               h[1] = Msg(p, t, y) /\ y[2] = r /\ f[h] = <<t, y[1]>>
  <2>1. h \in handled /\ h[1].phase = p /\ h[1].dst = r  BY <1>2 DEF Received
  <2>2. h[1] \in HandledMessages  BY <2>1 DEF HandledMessages
  <2>3. PICK q \in Phase, t \in Rank : \E y \in Plan[q][t] : h[1] = Msg(q, t, y)
    BY <2>2 DEF MessageInv
  <2>4. PICK y \in Plan[q][t] : h[1] = Msg(q, t, y)  BY <2>3
  <2>5. q = p /\ y[2] = r /\ h[1].src = t /\ h[1].worker = y[1]  BY <2>1, <2>4 DEF Msg
  <2>. QED  BY <2>4, <2>5
<1>4. f \in [R -> T]
  <2>1. ASSUME NEW h \in R  PROVE f[h] \in T
    <3>1. PICK t \in Rank : \E y \in Plan[p][t] :
                 h[1] = Msg(p, t, y) /\ y[2] = r /\ f[h] = <<t, y[1]>>
      BY <1>3
    <3>2. PICK y \in Plan[p][t] : y[2] = r /\ f[h] = <<t, y[1]>>  BY <3>1
    <3>3. y = <<y[1], r>> /\ y[1] \in Workers  BY <3>2, PlanPairs
    <3>. HIDE DEF f
    <3>4. f[h][1] = t /\ f[h][2] = y[1] /\ f[h] \in Rank \X Workers  BY <3>2, <3>3
    <3>5. <<f[h][2], r>> \in Plan[p][f[h][1]]  BY <3>3, <3>4
    <3>. QED  BY <3>4, <3>5
  <2>. QED  BY <2>1
<1>5. ASSUME NEW h \in R, NEW g \in R, f[h] = f[g]  PROVE h = g
  <2>1. PICK t \in Rank : \E y \in Plan[p][t] :
               h[1] = Msg(p, t, y) /\ y[2] = r /\ f[h] = <<t, y[1]>>
    BY <1>3
  <2>2. PICK y \in Plan[p][t] : h[1] = Msg(p, t, y) /\ y[2] = r /\ f[h] = <<t, y[1]>>
    BY <2>1
  <2>3. PICK u \in Rank : \E z \in Plan[p][u] :
               g[1] = Msg(p, u, z) /\ z[2] = r /\ f[g] = <<u, z[1]>>
    BY <1>3
  <2>4. PICK z \in Plan[p][u] : g[1] = Msg(p, u, z) /\ z[2] = r /\ f[g] = <<u, z[1]>>
    BY <2>3
  <2>. HIDE DEF f
  <2>5. t = u /\ y[1] = z[1] /\ y[2] = z[2]
    <3>1. <<t, y[1]>> = <<u, z[1]>>  BY <1>5, <2>2, <2>4
    <3>. QED  BY <2>2, <2>4, <3>1
  <2>6. h[1] = g[1]  BY <2>2, <2>4, <2>5 DEF Msg
  <2>7. h \in handled /\ g \in handled  BY DEF Received
  <2>. QED  BY <2>6, <2>7 DEF ReceiverInv
<1>6. f \in Injection(R, T)
  <2>. HIDE DEF f, R, T
  <2>. QED  BY <1>4, <1>5 DEF Injection, IsInjective
<1>7. IsFiniteSet(T)
  <2>1. IsFiniteSet(Rank \X Workers)  BY Constants, FS_Product
  <2>2. T \subseteq Rank \X Workers  OBVIOUS
  <2>. QED  BY <2>1, <2>2, FS_Subset
<1>8. Cardinality(R) >= Cardinality(T)
  <2>1. recv_count[r] = Cardinality(R)  BY <1>1 DEF CountInv, NoHandler
  <2>2. Expected(p, r) = Cardinality(T)  BY DEF Expected
  <2>. QED  BY <1>2, <2>1, <2>2 DEF Complete
<1>9. f \in Surjection(R, T)
  <2>. HIDE DEF f, R, T
  <2>1. /\ IsFiniteSet(R) /\ Cardinality(R) <= Cardinality(T)
        /\ Cardinality(R) = Cardinality(T) <=> f \in Surjection(R, T)
    BY <1>6, <1>7, FS_Injection
  <2>2. Cardinality(R) \in Nat /\ Cardinality(T) \in Nat  BY <1>7, <2>1, FS_CardinalityType
  <2>. QED  BY <1>8, <2>1, <2>2
<1>10. x \in Plan[p][s] /\ x = <<x[1], r>> /\ x[1] \in Workers  BY <1>2, PlanPairs
<1>11. <<s, x[1]>> \in T
  <2>. DEFINE y == <<s, x[1]>>
  <2>1. y \in Rank \X Workers /\ y[1] = s /\ y[2] = x[1]  BY <1>10
  <2>2. <<y[2], r>> \in Plan[p][y[1]]  BY <1>10, <2>1
  <2>. QED  BY <2>1, <2>2
<1>12. PICK h \in R : f[h] = <<s, x[1]>>
  <2>. HIDE DEF f, R, T
  <2>. QED  BY <1>9, <1>11 DEF Surjection
<1>13. PICK t \in Rank : \E y \in Plan[p][t] :
              h[1] = Msg(p, t, y) /\ y[2] = r /\ f[h] = <<t, y[1]>>
  BY <1>3
<1>14. PICK y \in Plan[p][t] : h[1] = Msg(p, t, y) /\ y[2] = r /\ f[h] = <<t, y[1]>>
  BY <1>13
<1>15. t = s /\ y[1] = x[1] /\ y[2] = x[2]
  <2>. HIDE DEF f
  <2>. QED  BY <1>12, <1>14
<1>16. h[1] = Msg(p, s, x)  BY <1>14, <1>15 DEF Msg
<1>17. h[1] \in HandledMessages  BY DEF HandledMessages, Received
<1>. QED  BY <1>2, <1>16, <1>17

(* A rank stays open for the messages of its phase until it completes it.  *)
LEMMA OpenStays ==
  ASSUME TypeOK, LifeInv, SenderInv, NEW r \in Rank, Step(r) \/ Throw(r), NEW s \in Rank
  PROVE  \/ /\ phase'[s] = phase[s]
            /\ pc[s] \in {"barrier", "exchange"} => pc'[s] \in {"barrier", "exchange"}
            /\ pc'[s] = "end" => pc[s] = "end"
         \/ s = r /\ Ends(r)
         \/ s = r /\ Complete(r)
<1>1. CASE s # r  BY <1>1, Frame DEF Same
<1>2. CASE Quiet(r)  BY <1>2, QuietEffect DEF Live
<1>3. CASE s = r /\ Registered(r)  BY <1>3 DEF Registered, TypeOK
<1>4. CASE UNCHANGED <<pc, phase>>  BY <1>4
<1>5. ASSUME NEW w \in Workers, NEW d \in Rank, NEW type \in Types, Post(r, w, d, type)
      PROVE  UNCHANGED <<pc, phase>>
  BY <1>5 DEF Post
<1>6. ASSUME NEW w \in Workers, Flush(r, w)  PROVE UNCHANGED <<pc, phase>>  BY <1>6 DEF Flush
<1>7. ASSUME NEW m \in net, Receive(m)  PROVE UNCHANGED <<pc, phase>>  BY <1>7 DEF Receive
<1>8. ASSUME NEW b \in receiving, GiveBack(b)  PROVE UNCHANGED <<pc, phase>>
  BY <1>8 DEF GiveBack
<1>. QED
  BY <1>1, <1>2, <1>3, <1>4, <1>5, <1>6, <1>7, <1>8 DEF Step, Quiet, Ends

LEMMA GiveBackEffect ==
  ASSUME TypeOK, LifeInv, ReceiverInv, NEW b \in receiving, GiveBack(b)
  PROVE  /\ receiving' = receiving \ {b}
         /\ returned' = returned \union {<<b.kind, b.kind>>}
         /\ UNCHANGED <<pc, phase, recv_count, net, handled, aborted>>
<1>. DEFINE r == b.message.dst
<1>1. r \in Rank  BY DEF TypeOK, Message
<1>2. pc[r] \in {"barrier", "exchange"} /\ b.kind = KindOf(phase[r])  BY DEF ReceiverInv
<1>3. am_receive_uses_upacket[r] = UsePacket[phase[r]]
  BY <1>1, <1>2 DEF LifeInv, LifeOf, TransportOf, Live, WithRcomp
<1>4. b.kind = IF am_receive_uses_upacket[r] THEN "packet" ELSE "heap"
  BY <1>2, <1>3 DEF KindOf
<1>. QED  BY <1>4 DEF GiveBack

LEMMA OtherGiven ==
  ASSUME TypeOK, LifeInv, SenderInv, NEW r \in Rank, Step(r) \/ Throw(r),
         \A w \in Workers : ~ Flush(r, w), \A m \in net : ~ Receive(m)
  PROVE  UNCHANGED given \/ \E b \in receiving : GiveBack(b)
<1>1. CASE Quiet(r)  BY <1>1, QuietEffect
<1>2. CASE Ends(r)  BY <1>2, EndEffect
<1>3. CASE Registered(r)  BY <1>3 DEF Registered
<1>4. CASE Complete(r)  BY <1>4 DEF Complete
<1>5. CASE \E w \in Workers, d \in Rank, type \in Types : Post(r, w, d, type)
  BY <1>5 DEF Post
<1>. QED  BY <1>1, <1>2, <1>3, <1>4, <1>5 DEF Step, Quiet, Ends

LEMMA HandledPhase ==
  ASSUME TypeOK, NEW h \in handled
  PROVE  h[1] \in HandledMessages /\ h[1].phase \in Nat /\ h[1].dst \in Rank
<1>1. h[1] \in Message  BY DEF TypeOK
<1>. QED  BY <1>1, PhaseBounds DEF HandledMessages, Message

(* The receiver of a new message has started the phase, since its sender   *)
(* has left the barrier, and has not finished it, since the value is among *)
(* those it waits for.                                                     *)
LEMMA FlushMeets ==
  ASSUME TypeOK, LifeInv, StartedInv, SenderInv, MessageInv, CountInv,
         NEW r \in Rank, NEW w \in Workers, Flush(r, w), NEW x \in Out(r, w)
  PROVE  /\ Msg(phase[r], r, x).dst = x[2] /\ Msg(phase[r], r, x).phase = phase[r]
         /\ phase[x[2]] = phase[r] /\ pc[x[2]] \in {"barrier", "exchange"}
<1>1. phase[r] \in Phase /\ pc[r] \in {"exchange", "end"}  BY FlushEffect
<1>2. PICK p \in Phase : p = phase[r]  BY <1>1
<1>3. x \in Plan[p][r] /\ x[2] \in Rank  BY <1>2, PlanPairs DEF Out
<1>4. Started(x[2], p)  BY <1>1, <1>2, <1>3 DEF StartedInv
<1>5. ASSUME Finished(x[2], p)  PROVE FALSE
  <2>1. Msg(p, r, x) \in HandledMessages  BY <1>3, <1>5 DEF CountInv
  <2>2. PICK q \in Phase, t \in Rank : \E y \in Plan[q][t] :
               Msg(p, r, x) = Msg(q, t, y) /\ SentBy(t, q, y)
    BY <2>1 DEF MessageInv
  <2>3. PICK y \in Plan[q][t] : Msg(p, r, x) = Msg(q, t, y) /\ SentBy(t, q, y)  BY <2>2
  <2>4. q = p /\ t = r /\ y = x  BY <1>3, <2>3, MsgExact
  <2>5. ~ SentBy(r, p, x)  BY <1>2, <1>3, SentByFlush
  <2>. QED  BY <2>3, <2>4, <2>5
<1>6. phase[x[2]] = p /\ pc[x[2]] \in {"barrier", "exchange"}
  <2>1. ~ (phase[x[2]] > p)  BY <1>5 DEF Finished
  <2>. QED  BY <1>4, <1>5, <2>1 DEF Started, Finished, Live
<1>. QED  BY <1>2, <1>6 DEF Msg

(* The parts of ReceiverInv about messages on their way, and about buffers *)
(* that have been counted.                                                 *)
LEMMA RankStepOpen ==
  ASSUME IInv, NEW r \in Rank, Step(r) \/ Throw(r)
  PROVE  /\ \A m \in net' : phase'[m.dst] = m.phase /\ pc'[m.dst] \in {"barrier", "exchange"}
         /\ \A b \in receiving' : /\ pc'[b.message.dst] \in {"barrier", "exchange"}
                                  /\ b.kind = KindOf(phase'[b.message.dst])
<1>. USE DEF IInv
<1>1. /\ \A m \in net : /\ m.dst \in Rank
                        /\ phase[m.dst] = m.phase /\ pc[m.dst] \in {"barrier", "exchange"}
      /\ \A b \in receiving : /\ b.message.dst \in Rank
                              /\ pc[b.message.dst] \in {"barrier", "exchange"}
                              /\ b.kind = KindOf(phase[b.message.dst])
  BY DEF ReceiverInv, TypeOK, Message
<1>2. CASE \E m \in net : Receive(m)
  <2>1. PICK m \in net : Receive(m)  BY <1>2
  <2>2. /\ net' = net \ {m} /\ UNCHANGED <<pc, phase>> /\ m.dst \in Rank
        /\ receiving' = receiving \union {[message |-> m, kind |-> KindOf(phase[m.dst])]}
    BY <2>1, ReceiveEffect
  <2>. QED  BY <1>1, <2>2
<1>3. CASE \E w \in Workers : Flush(r, w)
  <2>1. PICK w \in Workers : Flush(r, w)  BY <1>3
  <2>2. /\ net' = net \union {Msg(phase[r], r, x) : x \in Out(r, w)}
        /\ UNCHANGED <<pc, phase, receiving>>
    BY <2>1, FlushEffect
  <2>3. \A x \in Out(r, w) :
          /\ Msg(phase[r], r, x).dst = x[2] /\ Msg(phase[r], r, x).phase = phase[r]
          /\ phase[x[2]] = phase[r] /\ pc[x[2]] \in {"barrier", "exchange"}
    BY <2>1, FlushMeets
  <2>. QED  BY <1>1, <2>2, <2>3
<1>4. CASE (\A w \in Workers : ~ Flush(r, w)) /\ (\A m \in net : ~ Receive(m))
  <2>1. net' = net  BY <1>4, OtherEffect
  <2>2. receiving' \subseteq receiving
    <3>1. \A b \in receiving : GiveBack(b) => receiving' \subseteq receiving
      BY DEF GiveBack
    <3>. QED  BY <1>4, <3>1, OtherGiven
  <2>3. ASSUME NEW s \in Rank, pc[s] \in {"barrier", "exchange"},
               (\E m \in net : m.dst = s) \/ (\E b \in receiving : b.message.dst = s)
        PROVE  phase'[s] = phase[s] /\ pc'[s] \in {"barrier", "exchange"}
    <3>1. ~ (s = r /\ Ends(r))  BY <2>3, EndEffect
    <3>2. ASSUME s = r, Complete(r)  PROVE FALSE
      <4>1. \A b \in receiving : b.message.dst # r  BY <3>2 DEF Complete, Joined
      <4>2. PICK m \in net : m.dst = r  BY <2>3, <3>2, <4>1
      <4>3. PICK p \in Phase, t \in Rank : \E x \in Plan[p][t] : m = Msg(p, t, x)
        BY DEF MessageInv
      <4>4. PICK x \in Plan[p][t] : m = Msg(p, t, x)  BY <4>3
      <4>5. x[2] = r /\ p = phase[r]  BY <1>1, <4>2, <4>4 DEF Msg
      <4>6. m \in HandledMessages  BY <3>2, <4>4, <4>5, CompleteAll
      <4>. QED  BY <4>6 DEF MessageInv
    <3>. QED  BY <2>3, <3>1, <3>2, OpenStays
  <2>. QED  BY <1>1, <2>1, <2>2, <2>3
<1>. QED  BY <1>2, <1>3, <1>4

LEMMA RankStepReceiver ==
  ASSUME IInv, NEW r \in Rank, Step(r) \/ Throw(r)
  PROVE  ReceiverInv'
<1>. USE DEF IInv
<1>1. /\ \A h \in handled : /\ Started(h[1].dst, h[1].phase)
                            /\ h[2].phase = h[1].phase /\ h[2].type = h[1].type
      /\ \A h, g \in handled : h[1] = g[1] => h = g
      /\ \A x \in returned : x[1] = x[2]
      /\ \A s \in Rank : ~aborted[s]
  BY DEF ReceiverInv
<1>2. \A h \in handled : Started(h[1].dst, h[1].phase)'
  <2>1. ASSUME NEW h \in handled, NEW d, NEW p, d = h[1].dst, p = h[1].phase
        PROVE  Started(d, p)'
    <3>1. d \in Rank /\ p \in Nat  BY <2>1, HandledPhase
    <3>2. Started(d, p)  BY <1>1, <2>1
    <3>. QED  BY <3>1, <3>2, StartedStays
  <2>. QED  BY <2>1 DEF Started
<1>3. CASE \E m \in net : Receive(m)
  <2>1. PICK m \in net : Receive(m)  BY <1>3
  <2>. DEFINE g == <<m, am_state[m.dst]>>
  <2>2. /\ m.phase = phase[m.dst] /\ pc[m.dst] \in {"barrier", "exchange"}
        /\ m.type = am_state[m.dst].type /\ m.phase = am_state[m.dst].phase
        /\ handled' = handled \union {g} /\ UNCHANGED <<pc, phase, returned, aborted>>
    BY <2>1, ReceiveEffect
  <2>3. Started(m.dst, m.phase)'  BY <2>2 DEF Started, Live
  <2>4. g[1] = m /\ g[2] = am_state[m.dst]  OBVIOUS
  <2>5. \A h \in handled : h[1] # m
    BY <2>1, HandledGrows DEF HandledMessages
  <2>. HIDE DEF g
  <2>6. \A h, k \in handled' : h[1] = k[1] => h = k  BY <1>1, <2>2, <2>4, <2>5
  <2>7. \A h \in handled' : h[2].phase = h[1].phase /\ h[2].type = h[1].type
    BY <1>1, <2>2, <2>4
  <2>9. \A h \in handled' : Started(h[1].dst, h[1].phase)'
    <3>1. ASSUME NEW h \in handled' PROVE Started(h[1].dst, h[1].phase)'
      <4>1. CASE h \in handled  BY <1>2, <4>1
      <4>2. CASE h = g  BY <2>2, <2>4, <4>2 DEF Started, Live
      <4>. QED  BY <2>2, <4>1, <4>2
    <3>. QED  BY <3>1
  <2>. QED  BY <1>1, <2>2, <2>6, <2>7, <2>9, RankStepOpen DEF ReceiverInv
<1>4. CASE \E w \in Workers : Flush(r, w)
  <2>1. PICK w \in Workers : Flush(r, w)  BY <1>4
  <2>2. UNCHANGED <<handled, given, aborted>>  BY <2>1, FlushEffect
  <2>. QED  BY <1>1, <1>2, <2>2, RankStepOpen DEF ReceiverInv
<1>5. CASE (\A w \in Workers : ~ Flush(r, w)) /\ (\A m \in net : ~ Receive(m))
  <2>1. UNCHANGED <<handled, aborted>>  BY <1>5, OtherEffect
  <2>2. \A x \in returned' : x[1] = x[2]
    <3>1. CASE UNCHANGED given  BY <1>1, <3>1
    <3>2. ASSUME NEW b \in receiving, GiveBack(b)  PROVE \A x \in returned' : x[1] = x[2]
      <4>1. returned' = returned \union {<<b.kind, b.kind>>}  BY <3>2, GiveBackEffect
      <4>. QED  BY <1>1, <4>1
    <3>. QED  BY <1>5, <3>1, <3>2, OtherGiven
  <2>. QED  BY <1>1, <1>2, <2>1, <2>2, RankStepOpen DEF ReceiverInv
<1>. QED  BY <1>3, <1>4, <1>5

-----------------------------------------------------------------------------
(* The counts.                                                             *)

(* Nothing of a phase is handled by a rank that has not started it.        *)
LEMMA NothingReceived ==
  ASSUME TypeOK, ReceiverInv, NEW r \in Rank, pc[r] = "idle"
  PROVE  Received(r) = {}
<1>1. ASSUME NEW h \in Received(r)  PROVE FALSE
  <2>1. h \in handled /\ h[1].phase = phase[r] /\ h[1].dst = r  BY DEF Received
  <2>2. Started(r, phase[r])  BY <2>1 DEF ReceiverInv
  <2>3. phase[r] \in Nat /\ ~ (phase[r] > phase[r])  BY PhaseType
  <2>. QED  BY <2>2, <2>3 DEF Started, Live
<1>. QED  BY <1>1

LEMMA RankStepHandled ==
  ASSUME IInv, NEW r \in Rank, Step(r) \/ Throw(r)
  PROVE  IsFiniteSet(handled') /\ HandledMessages \subseteq HandledMessages'
<1>. USE DEF IInv
<1>1. IsFiniteSet(handled)  BY DEF CountInv
<1>2. CASE \E m \in net : Receive(m)
  <2>1. PICK m \in net : Receive(m)  BY <1>2
  <2>2. handled' = handled \union {<<m, am_state[m.dst]>>}  BY <2>1, ReceiveEffect
  <2>3. IsFiniteSet(handled')  BY <1>1, <2>2, FS_AddElement
  <2>. QED  BY <2>1, <2>3, HandledGrows
<1>3. CASE UNCHANGED handled  BY <1>1, <1>3 DEF HandledMessages
<1>. QED  BY <1>2, <1>3, OtherEffect, FlushEffect

LEMMA RankStepReceived ==
  ASSUME IInv, NEW r \in Rank, Step(r) \/ Throw(r), NEW s \in Rank, pc'[s] \notin NoHandler
  PROVE  recv_count'[s] = Cardinality(Received(s)')
<1>. USE DEF IInv
<1>1. pc[s] \notin NoHandler => recv_count[s] = Cardinality(Received(s))  BY DEF CountInv
<1>2. DOMAIN recv_count = Rank /\ recv_count[s] \in Nat  BY DEF TypeOK
<1>3. ASSUME phase'[s] = phase[s], handled' = handled  PROVE Received(s)' = Received(s)
  BY <1>3 DEF Received
<1>4. CASE \E m \in net : Receive(m)
  <2>1. PICK m \in net : Receive(m)  BY <1>4
  <2>. DEFINE g == <<m, am_state[m.dst]>>
  <2>2. /\ m.phase = phase[m.dst] /\ handled' = handled \union {g} /\ UNCHANGED <<pc, phase>>
        /\ recv_count' = [recv_count EXCEPT ![m.dst] = @ + 1]
    BY <2>1, ReceiveEffect
  <2>3. g[1] = m /\ g \notin handled
    <3>1. g[1] = m  OBVIOUS
    <3>2. \A h \in handled : h[1] # m  BY <2>1, HandledGrows DEF HandledMessages
    <3>. QED  BY <3>1, <3>2
  <2>. HIDE DEF g
  <2>4. CASE m.dst = s
    <3>1. Received(s)' = Received(s) \union {g} /\ g \notin Received(s)
      BY <2>2, <2>3, <2>4 DEF Received
    <3>2. IsFiniteSet(Received(s))
      <4>1. Received(s) \subseteq handled /\ IsFiniteSet(handled)  BY DEF Received, CountInv
      <4>. QED  BY <4>1, FS_Subset
    <3>3. Cardinality(Received(s)') = Cardinality(Received(s)) + 1
      BY <3>1, <3>2, FS_AddElement
    <3>. QED  BY <1>1, <1>2, <2>2, <2>4, <3>3
  <2>5. CASE m.dst # s
    <3>1. Received(s)' = Received(s)  BY <2>2, <2>3, <2>5 DEF Received
    <3>. QED  BY <1>1, <1>2, <2>2, <2>5, <3>1
  <2>. QED  BY <2>4, <2>5
<1>5. CASE \E w \in Workers : Flush(r, w)
  <2>1. UNCHANGED <<pc, phase, recv_count, handled>>  BY <1>5, FlushEffect
  <2>. QED  BY <1>1, <1>3, <2>1
<1>6. CASE (\A w \in Workers : ~ Flush(r, w)) /\ (\A m \in net : ~ Receive(m))
  <2>1. handled' = handled  BY <1>6, OtherEffect
  <2>2. ASSUME phase'[s] = phase[s], pc[s] \notin NoHandler, recv_count'[s] = recv_count[s]
        PROVE  recv_count'[s] = Cardinality(Received(s)')
    BY <1>1, <1>3, <2>1, <2>2
  <2>3. CASE s # r  BY <2>2, <2>3, Frame DEF Same
  <2>4. CASE s = r /\ Quiet(r)
    <3>1. phase' = phase  BY <2>4, QuietEffect
    <3>2. CASE UNCHANGED recv_count /\ (pc'[r] \notin NoHandler => pc[r] \notin NoHandler)
      BY <2>2, <2>4, <3>1, <3>2
    <3>3. CASE recv_count' = [recv_count EXCEPT ![r] = 0] /\ pc[r] = "idle"
      <4>1. Received(s) = {}  BY <2>4, <3>3, NothingReceived
      <4>2. Received(s)' = {}  BY <1>3, <2>1, <3>1, <4>1
      <4>3. recv_count'[s] = 0  BY <1>2, <2>4, <3>3
      <4>. QED  BY <4>2, <4>3, FS_EmptySet
    <3>. QED  BY <2>4, <3>2, <3>3, QuietEffect
  <2>5. CASE s = r /\ Ends(r)  BY <2>5, EndEffect
  <2>6. CASE Registered(r)  BY <2>2, <2>3, <2>6 DEF Registered, NoHandler
  <2>7. CASE Complete(r)  BY <2>2, <2>3, <2>7 DEF Complete, NoHandler
  <2>8. ASSUME NEW w \in Workers, NEW d \in Rank, NEW type \in Types, Post(r, w, d, type)
        PROVE  recv_count'[s] = Cardinality(Received(s)')
    BY <2>2, <2>8, PostEffect
  <2>9. ASSUME NEW b \in receiving, GiveBack(b)
        PROVE  recv_count'[s] = Cardinality(Received(s)')
    BY <2>2, <2>9, GiveBackEffect
  <2>. QED
    BY <1>6, <2>3, <2>4, <2>5, <2>6, <2>7, <2>8, <2>9 DEF Step, Quiet, Ends
<1>. QED  BY <1>4, <1>5, <1>6

LEMMA RankStepFinished ==
  ASSUME IInv, NEW r \in Rank, Step(r) \/ Throw(r), NEW p \in Phase, NEW d \in Rank,
         Finished(d, p)', NEW s \in Rank, NEW x \in Plan[p][s], x[2] = d
  PROVE  Msg(p, s, x) \in HandledMessages
<1>. USE DEF IInv
<1>1. p \in Nat /\ phase[d] \in Nat  BY PhaseBounds, PhaseType
<1>2. CASE Finished(d, p)  BY <1>2 DEF CountInv
<1>3. CASE d = r /\ Ends(r)
  <2>1. phase'[r] = phase[r] + 1 /\ pc[r] = "end" /\ pc'[r] # "end"
    BY <1>3, EndEffect DEF NoHandler
  <2>2. Finished(d, p)  BY <1>1, <1>3, <2>1 DEF Finished
  <2>. QED  BY <1>2, <2>2
<1>4. CASE d = r /\ Complete(r)
  <2>1. phase' = phase  BY <1>4 DEF Complete
  <2>2. Finished(d, p) \/ p = phase[r]  BY <1>1, <1>4, <2>1 DEF Finished
  <2>3. CASE p = phase[r]  BY <1>4, <2>3, CompleteAll
  <2>. QED  BY <1>2, <2>2, <2>3
<1>5. CASE phase'[d] = phase[d] /\ (pc'[d] = "end" => pc[d] = "end")
  BY <1>2, <1>5 DEF Finished
<1>. QED  BY <1>3, <1>4, <1>5, OpenStays

LEMMA RankStepCount ==
  ASSUME IInv, NEW r \in Rank, Step(r) \/ Throw(r)
  PROVE  CountInv'
<1>1. IsFiniteSet(handled') /\ HandledMessages \subseteq HandledMessages'
  BY RankStepHandled
<1>2. \A s \in Rank : pc'[s] \notin NoHandler => recv_count'[s] = Cardinality(Received(s)')
  BY RankStepReceived
<1>3. ASSUME NEW p \in Phase, NEW d \in Rank, Finished(d, p)',
             NEW s \in Rank, NEW x \in Plan[p][s], x[2] = d
      PROVE  Msg(p, s, x) \in HandledMessages'
  BY <1>1, <1>3, RankStepFinished
<1>. QED  BY <1>1, <1>2, <1>3 DEF CountInv, Msg

-----------------------------------------------------------------------------
(* The theorems.                                                           *)

(* The inductive invariant holds in every reachable state.                 *)
THEOREM Inductive == Spec => []IInv
<1>1. Init => IInv
  BY InitType, InitLife, InitCache, InitSender, InitMessages DEF IInv
<1>2. IInv /\ [Next]_vars => IInv'
  <2>. SUFFICES ASSUME IInv, [Next]_vars PROVE IInv'  OBVIOUS
  <2>1. CASE Next
    <3>1. PICK r \in Rank : Step(r) \/ Throw(r)  BY <2>1 DEF Next
    <3>2. TypeOK'  BY <3>1, RankStepType DEF IInv
    <3>3. LifeInv'  BY <3>1, RankStepLife DEF IInv
    <3>4. CacheInv'  BY <3>1, RankStepCache DEF IInv
    <3>5. StartedInv'  BY <3>1, RankStepStarted DEF IInv
    <3>6. SenderInv'  BY <3>1, RankStepSender DEF IInv
    <3>7. MessageInv'  BY <3>1, RankStepMessage DEF IInv
    <3>8. ReceiverInv'  BY <3>1, RankStepReceiver
    <3>9. CountInv'  BY <3>1, RankStepCount
    <3>. QED  BY <3>2, <3>3, <3>4, <3>5, <3>6, <3>7, <3>8, <3>9 DEF IInv
  <2>2. CASE UNCHANGED vars
    <3>1. /\ UNCHANGED TypeOK /\ UNCHANGED CacheInv /\ UNCHANGED SenderInv
      BY <2>2 DEF vars, TypeOK, CacheInv, SenderInv, SenderOf, Entry
    <3>2. UNCHANGED LifeInv
      BY <2>2 DEF vars, LifeInv, LifeOf, Ticket, ResourcesOf, HandlerOf, TransportOf
    <3>3. UNCHANGED StartedInv  BY <2>2 DEF vars, StartedInv, Started
    <3>4. UNCHANGED MessageInv /\ UNCHANGED ReceiverInv /\ UNCHANGED CountInv
      BY <2>2 DEF vars, MessageInv, ReceiverInv, CountInv, HandledMessages, SentBy, Started,
                  Finished, Received, Entry
    <3>. QED  BY <3>1, <3>2, <3>3, <3>4 DEF IInv
  <2>. QED  BY <2>1, <2>2
<1>. QED  BY <1>1, <1>2, PTL DEF Spec

(* The variables have their types.                                         *)
THEOREM TypeCorrect == Spec => []TypeOK
<1>1. IInv => TypeOK  BY DEF IInv
<1>. QED  BY <1>1, Inductive, PTL

(* A value is handled in the phase and as the type it was posted in, and   *)
(* no message meets a rank without its handler.                            *)
THEOREM PhasesStayApart == Spec => []PhasesApart
<1>1. IInv => PhasesApart  BY DEF IInv, ReceiverInv, PhasesApart
<1>. QED  BY <1>1, Inductive, PTL

(* A receive buffer is given back as what it was taken as.                 *)
THEOREM BuffersGoBack == Spec => []ReceiveBuffersGoBack
<1>1. IInv => ReceiveBuffersGoBack  BY DEF IInv, ReceiverInv, ReceiveBuffersGoBack
<1>. QED  BY <1>1, Inductive, PTL

(* Whatever call threw, nothing is left of LCI without a Runtime, nor of a *)
(* handler between phases.                                                 *)
THEOREM Cleanup == Spec => []NothingLeft
<1>1. ASSUME IInv, NEW r \in Rank
      PROVE  /\ pc[r] = "down" =>
                  ~lci[r] /\ devices[r] = 0 /\ ~send_completion[r] /\ ~g_runtime[r]
             /\ pc[r] \in {"down", "devices", "attach", "constructing", "idle", "leaving"} =>
                  am_state[r] = NoState /\ am_handler[r] = "none" /\ am_rcomp[r] = 0
             /\ dispatch[r] = am_state[r].type
             /\ registry[r] = {am_rcomp[r]} \ {0}
  <2>1. ResourcesOf(r) /\ HandlerOf(r) /\ TransportOf(r)
    BY <1>1 DEF IInv, LifeInv, LifeOf
  <2>. QED  BY <2>1 DEF ResourcesOf, HandlerOf, TransportOf, NoHandler, Live, WithRcomp
<1>2. IInv => NothingLeft  BY <1>1 DEF NothingLeft
<1>. QED  BY <1>2, Inductive, PTL

(* Nothing that was posted in a phase is lost when the phase ends.         *)
THEOREM NothingLost == Spec => []ClearLosesNothing
<1>1. ASSUME IInv, NEW r \in Rank, NEW p \in Phase, p < phase[r], NEW x \in Plan[p][r]
      PROVE  \E m \in net \union {h[1] : h \in handled} :
               m.phase = p /\ m.src = r /\ m.worker = x[1] /\ m.dst = x[2]
  <2>1. SentBy(r, p, x)  BY <1>1 DEF SentBy
  <2>2. Msg(p, r, x) \in net \union HandledMessages  BY <1>1, <2>1 DEF IInv, MessageInv
  <2>. QED  BY <2>2 DEF HandledMessages, Msg
<1>2. IInv => ClearLosesNothing  BY <1>1 DEF ClearLosesNothing
<1>. QED  BY <1>2, Inductive, PTL

(* A post or a flush works on the buffers of the active state and of its   *)
(* own worker: a cached pointer whose key matches does not belong to a     *)
(* state that is gone, since no generation is given out twice.             *)
THEOREM BuffersCurrent == Spec => BuffersAreCurrent
<1>1. ASSUME TypeOK, LifeInv, CacheInv, NEW r \in Rank, NEW w \in Workers, UseBuffers(r, w),
             pc[r] \in {"exchange", "end"}
      PROVE  used'[r] = [state |-> am_state[r].id, worker |-> w]
  <2>1. used' = [used EXCEPT ![r] = WorkerBuffers(r, w)] /\ DOMAIN used = Rank
    BY <1>1 DEF UseBuffers, TypeOK
  <2>. QED  BY <1>1, <2>1, OwnBuffers
<1>. DEFINE Current ==
       \A r \in Rank, w \in Workers :
         (\E d \in Rank, type \in Types : Post(r, w, d, type)) \/ Flush(r, w) =>
            used'[r] = [state |-> am_state[r].id, worker |-> w]
<1>2. IInv /\ [Next]_vars => [Current]_vars
  <2>1. ASSUME NEW r \in Rank, NEW w \in Workers,
               (\E d \in Rank, type \in Types : Post(r, w, d, type)) \/ Flush(r, w)
        PROVE  UseBuffers(r, w) /\ pc[r] \in {"exchange", "end"}
    BY <2>1 DEF Post, Flush
  <2>. QED  BY <1>1, <2>1 DEF IInv
<1>3. Spec => [][Current]_vars
  <2>. HIDE DEF Current
  <2>. QED  BY <1>2, Inductive, PTL DEF Spec
<1>. QED  BY <1>3 DEF BuffersAreCurrent

(* A new phase gets a generation that none of the cached buffers has: what *)
(* the cache keeps of an earlier phase is not taken for its own.           *)
GenerationIsFresh ==
  [][\A r \in Rank : SetAmHandler(r) =>
       \A type \in Types : cache'[r][type].generation < am_state'[r].generation]_vars

THEOREM FreshGeneration == Spec => GenerationIsFresh
<1>. DEFINE Fresh ==
       \A r \in Rank : SetAmHandler(r) =>
         \A type \in Types : cache'[r][type].generation < am_state'[r].generation
<1>1. TypeOK /\ CacheInv /\ [Next]_vars => [Fresh]_vars
  <2>. SUFFICES ASSUME TypeOK, CacheInv, NEW r \in Rank, SetAmHandler(r), NEW type \in Types
                PROVE  cache'[r][type].generation < am_state'[r].generation
    OBVIOUS
  <2>1. cache' = cache /\ am_state'[r].generation = next_generation[r]
    BY DEF SetAmHandler, TypeOK
  <2>. QED  BY <2>1 DEF CacheInv
<1>2. IInv => TypeOK /\ CacheInv  BY DEF IInv
<1>3. Spec => [][Fresh]_vars
  <2>. HIDE DEF Fresh
  <2>. QED  BY <1>1, <1>2, Inductive, PTL DEF Spec
<1>. QED  BY <1>3 DEF GenerationIsFresh
=============================================================================
