----------------------------- MODULE AmPhasesInv -----------------------------
(***************************************************************************)
(* The inductive invariant of AmPhases.                                    *)
(*                                                                         *)
(* Two things keep the phases apart.  Every rank goes through the same     *)
(* barriers in the same order, so that a rank that has left the barrier of *)
(* a phase knows that the others have registered their handlers for it,    *)
(* under the same remote completion: always the first when LCI recycles    *)
(* them, else one more in each phase since LCI was initialized.  And no    *)
(* rank ends a phase before it has received all that the others send to it *)
(* in this phase.                                                          *)
(***************************************************************************)
EXTENDS AmPhases

Points == {"down", "devices", "attach", "constructing", "idle", "register", "rcomp", "enter",
           "barrier", "exchange", "end", "leaving"}

(* The points of the code in or after the barrier of a phase, with a       *)
(* completion registered, without a handler state, and outside the barrier *)
(* of the constructor.                                                     *)
Live == {"barrier", "exchange", "end"}
WithRcomp == Live \union {"enter"}
NoHandler == {"down", "devices", "attach", "constructing", "idle", "leaving"}
Outside == {"down", "devices", "attach", "leaving"}

Kind == {"packet", "heap"}
KindOf(p) == IF UsePacket[p] THEN "packet" ELSE "heap"

State == [id : Nat, generation : Nat, phase : 0 .. MaxPhases, type : Types \union {NoType}]
Buffers == [state : Nat, worker : Workers \union {0}]
CacheEntry == [generation : Nat, worker : Workers \union {0}, buffers : Buffers]
Message == [phase : Phase, src : Rank, worker : Workers, dst : Rank, type : Types, rcomp : Nat]

TypeOK ==
  /\ pc \in [Rank -> Points]
  /\ phase \in [Rank -> 1 .. MaxPhases + 1]
  /\ devices \in [Rank -> 0 .. NDevices]
  /\ lci \in [Rank -> BOOLEAN] /\ send_completion \in [Rank -> BOOLEAN]
  /\ g_runtime \in [Rank -> BOOLEAN] /\ aborted \in [Rank -> BOOLEAN]
  /\ am_receive_uses_upacket \in [Rank -> BOOLEAN]
  /\ am_state \in [Rank -> State]
  /\ dispatch \in [Rank -> Types \union {NoType}]
  /\ am_handler \in [Rank -> Kind \union {"none"}]
  /\ registry \in [Rank -> SUBSET Nat]
  /\ entered \in [Rank -> Nat] /\ recv_count \in [Rank -> Nat]
  /\ am_rcomp \in [Rank -> Nat] /\ next_rcomp \in [Rank -> Nat]
  /\ next_generation \in [Rank -> Nat] /\ states \in [Rank -> Nat]
  /\ cache \in [Rank -> [Types -> CacheEntry]]
  /\ used \in [Rank -> Buffers]
  /\ buffered \in [Rank -> SUBSET (Buffers \X Rank \X Types)]
  /\ todo \in [Rank -> SUBSET (Workers \X Rank)]
  /\ net \subseteq Message
  /\ handled \subseteq Message \X State
  /\ receiving \subseteq [message : Message, kind : Kind]
  /\ returned \subseteq Kind \X Kind

-----------------------------------------------------------------------------
(* The life of a Runtime on one rank.                                      *)

(* The last phase of a Runtime.                                            *)
Last == Restart \union {MaxPhases}

(* The barriers before a phase for which a Runtime is constructed, and     *)
(* before any point of the code.                                           *)
Before(p) == p - 1 + Cardinality({q \in Last : q < p})

Ticket(r) ==
  Before(phase[r]) + IF pc[r] \in Outside THEN 0 ELSE IF pc[r] \in Live THEN 2 ELSE 1

(* The phases since LCI was initialized, and the completion registered for *)
(* a phase.                                                                *)
SameRuntime(p) == {q \in 1 .. p : \A s \in Restart : ~ (q <= s /\ s < p)}
Registrations(p) == Cardinality(SameRuntime(p))
Rcomp(p) == IF Recycles THEN 1 ELSE Registrations(p)

ResourcesOf(r) ==
  /\ pc[r] = "down" => ~lci[r] /\ devices[r] = 0 /\ ~send_completion[r]
  /\ g_runtime[r] <=> pc[r] \notin {"down", "devices"}

HandlerOf(r) ==
  /\ pc[r] \in NoHandler => am_state[r] = NoState
  /\ pc[r] \notin NoHandler =>
       am_state[r].phase = phase[r] /\ am_state[r].type = RecordType[phase[r]]
  /\ dispatch[r] = am_state[r].type

TransportOf(r) ==
  /\ pc[r] \in NoHandler \union {"register"} => am_handler[r] = "none"
  /\ pc[r] \notin NoHandler \union {"register"} => am_handler[r] = KindOf(phase[r])
  /\ pc[r] \notin WithRcomp => am_rcomp[r] = 0
  /\ pc[r] \in WithRcomp =>
       /\ am_receive_uses_upacket[r] = UsePacket[phase[r]]
       /\ am_rcomp[r] = Rcomp(phase[r])
  /\ registry[r] = {am_rcomp[r]} \ {0}
  /\ pc[r] \in {"devices", "attach", "constructing", "idle", "register", "rcomp"} =>
       next_rcomp[r] = Rcomp(phase[r])
  /\ pc[r] \in WithRcomp => next_rcomp[r] = Rcomp(phase[r]) + 1

LifeOf(r) ==
  /\ pc[r] \notin {"down", "leaving"} => phase[r] \in Phase
  /\ pc[r] \in Outside => phase[r] = 1 \/ phase[r] - 1 \in Last
  /\ entered[r] = Ticket(r)
  /\ ResourcesOf(r)
  /\ HandlerOf(r)
  /\ TransportOf(r)

LifeInv == \A r \in Rank : LifeOf(r)

(* No cache entry has a generation that a later phase will get, and one    *)
(* with the generation of the active state points to buffers of this state *)
(* and of the worker in its key.                                           *)
CacheInv ==
  \A r \in Rank :
    /\ am_state[r].generation < next_generation[r]
    /\ \A type \in Types :
         /\ cache[r][type].generation < next_generation[r]
         /\ /\ am_state[r] # NoState
            /\ cache[r][type].buffers # NoBuffers
            /\ cache[r][type].generation = am_state[r].generation
            => cache[r][type].buffers =
                 [state |-> am_state[r].id, worker |-> cache[r][type].worker]

-----------------------------------------------------------------------------
(* The ranks among each other.                                             *)

Started(s, p) == phase[s] > p \/ (phase[s] = p /\ pc[s] \in Live)
Finished(s, p) == phase[s] > p \/ (phase[s] = p /\ pc[s] = "end")

(* A rank in the exchange has seen all the others enter the barrier.       *)
StartedInv ==
  \A r \in Rank : pc[r] \in {"exchange", "end"} =>
    \A s \in Rank : Started(s, phase[r])

-----------------------------------------------------------------------------
(* The values.  Each is to be posted, in a buffer, on its way or handled.  *)

Msg(p, s, x) == [phase |-> p, src |-> s, worker |-> x[1], dst |-> x[2],
                 type |-> RecordType[p], rcomp |-> Rcomp(p)]
Entry(s, p, x) == <<[state |-> am_state[s].id, worker |-> x[1]], x[2], RecordType[p]>>

HandledMessages == {h[1] : h \in handled}

(* A rank has sent a value of its plan.                                    *)
SentBy(s, p, x) ==
  \/ p < phase[s]
  \/ /\ p = phase[s] /\ pc[s] \in {"exchange", "end"}
     /\ x \notin todo[s] /\ Entry(s, p, x) \notin buffered[s]

SenderOf(s) ==
  /\ todo[s] # {} => pc[s] = "exchange"
  /\ buffered[s] # {} => pc[s] \in {"exchange", "end"}
  /\ pc[s] = "exchange" => todo[s] \subseteq Plan[phase[s]][s]
  /\ \A b \in buffered[s] : \E x \in Plan[phase[s]][s] \ todo[s] : b = Entry(s, phase[s], x)

SenderInv == \A s \in Rank : SenderOf(s)

(* The messages are those of the values that have been sent.               *)
MessageInv ==
  /\ \A m \in net \union HandledMessages :
       \E p \in Phase, s \in Rank : \E x \in Plan[p][s] : m = Msg(p, s, x) /\ SentBy(s, p, x)
  /\ \A p \in Phase, s \in Rank : \A x \in Plan[p][s] :
       SentBy(s, p, x) => Msg(p, s, x) \in net \union HandledMessages
  /\ net \intersect HandledMessages = {}

(* A message meets the phase it was sent in, and stays there.              *)
ReceiverInv ==
  /\ \A m \in net : phase[m.dst] = m.phase /\ pc[m.dst] \in {"barrier", "exchange"}
  /\ \A h \in handled : /\ Started(h[1].dst, h[1].phase)
                        /\ h[2].phase = h[1].phase /\ h[2].type = h[1].type
  /\ \A h, g \in handled : h[1] = g[1] => h = g
  /\ \A b \in receiving : /\ pc[b.message.dst] \in {"barrier", "exchange"}
                          /\ b.kind = KindOf(phase[b.message.dst])
  /\ \A x \in returned : x[1] = x[2]
  /\ \A r \in Rank : ~aborted[r]

(* recv_count() is the number of the values handled in the phase, and a    *)
(* rank that has finished a phase has handled all of them.                 *)
Received(r) == {h \in handled : h[1].phase = phase[r] /\ h[1].dst = r}

CountInv ==
  /\ IsFiniteSet(handled)
  /\ \A r \in Rank : pc[r] \notin NoHandler => recv_count[r] = Cardinality(Received(r))
  /\ \A p \in Phase, d \in Rank : Finished(d, p) =>
       \A s \in Rank : \A x \in Plan[p][s] : x[2] = d => Msg(p, s, x) \in HandledMessages

IInv ==
  /\ TypeOK
  /\ LifeInv
  /\ CacheInv
  /\ StartedInv
  /\ SenderInv
  /\ MessageInv
  /\ ReceiverInv
  /\ CountInv
=============================================================================
