-------------------------- MODULE ProfileRecorderInv --------------------------
(***************************************************************************)
(* The inductive invariant of ProfileRecorder.                             *)
(*                                                                         *)
(* A thread that is recording makes the additions of one operation, which  *)
(* is known by then (owner): each counter has what it should have, but for *)
(* the operations whose addition to it is still to come.                   *)
(***************************************************************************)
EXTENDS ProfileRecorder

OfWorker == {"post", "filled", "flush", "progress"}
OfNobody == {"barrier", "am_profile"}

FrameSet == [kind : OfWorker \cup OfNobody, worker : Scope,
             message : SUBSET Buffered, previous : Scope]

Receives == {"remote_receive", "loopback_receive"}
Owner == [operation : {"flush"} \cup Receives, message : Incoming \cup Buffered, worker : Scope]

Addition == [scope : Scope, operation : Operation \cup {"receive"},
             counter : Counter \cup {"recv_count"}, by : Nat]

Types ==
  /\ enabled \in BOOLEAN /\ ended \in BOOLEAN
  /\ current \in [Threads -> Scope]
  /\ frames \in [Threads -> Seq(FrameSet)]
  /\ recording \in [Threads -> Seq(Addition)]
  /\ counters \in [Scope -> [Operation -> [Counter -> Nat]]]
  /\ recv_count \in Nat
  /\ seen \in [Threads -> Nat]
  /\ snapshot \in [Threads -> Seq(Nat)]
  /\ arriving \subseteq Incoming /\ unsent \subseteq Buffered
  /\ calls \in [Threads -> 0 .. MaxCalls]
  /\ owner \subseteq Owner /\ IsFiniteSet(owner)

-----------------------------------------------------------------------------
(* The calls a thread is in: none, one, or a flush inside a post_am() that *)
(* has filled a buffer, of the same worker.  The scope of each restores    *)
(* the index of the one around it.                                         *)
FrameOf(f) ==
  /\ f.kind \in OfWorker => f.worker \in Worker
  /\ f.kind \in OfNobody => f.worker = NoWorker
  /\ f.kind = "flush" => \E m \in Buffered \ unsent :
       f.message = {m} /\ \A e \in owner : ~ (e.operation = "flush" /\ e.message = m)
  /\ f.kind # "flush" => f.message = {}

StackOf(t) ==
  /\ \A i \in 1 .. Len(frames[t]) : FrameOf(frames[t][i])
  /\ Len(frames[t]) <= 2
  /\ Len(frames[t]) = 1 => frames[t][1].previous = NoWorker
  /\ Len(frames[t]) = 2 =>
       /\ frames[t][1].kind = "filled" /\ frames[t][1].previous = NoWorker
       /\ frames[t][2].kind = "flush" /\ frames[t][2].worker = frames[t][1].worker
       /\ enabled => frames[t][2].previous = frames[t][1].worker
       /\ ~enabled => frames[t][2].previous = NoWorker
  /\ current[t] = IF enabled /\ frames[t] # << >> THEN Top(t).worker ELSE NoWorker

StackInv ==
  /\ \A t \in Threads : StackOf(t)
  /\ \A t, u \in Threads : t # u /\ In(t, {"flush"}) /\ In(u, {"flush"}) =>
       Top(t).message \cap Top(u).message = {}

-----------------------------------------------------------------------------
(* The additions that are to come.                                         *)

Busy == {t \in Threads : ~Running(t)}

Full(e) ==
  IF e.operation = "flush" THEN Additions("flush", e.worker, record_count[e.message])
  ELSE ReceiveSteps(e.operation, e.worker, record_count[e.message])

From(additions, k) == SubSeq(additions, k, Len(additions))

RestOf(t, e) == \E k \in 1 .. Len(Full(e)) : recording[t] = From(Full(e), k)

ToCome(t, scope, operation, counter) ==
  \E i \in 1 .. Len(recording[t]) :
    /\ recording[t][i].scope = scope /\ recording[t][i].operation = operation
    /\ recording[t][i].counter = counter

(* The operations whose addition has been made; op[t] is the one that the  *)
(* busy thread t records.                                                  *)
Made(op, S, scope, operation, counter) ==
  {e \in S : \A t \in Busy : op[t] = e => ~ ToCome(t, scope, operation, counter)}

Received == {e \in owner : e.operation \in Receives}

CountedBy(op) ==
  /\ \A t \in Busy : RestOf(t, op[t])
  /\ \A t, u \in Busy : op[t] = op[u] => t = u
  /\ \A s \in Scope, o \in Operation, c \in Counter :
       enabled => counters[s][o][c] = Tally(c, Made(op, MadeIn(o, s), s, o, c))
  /\ recv_count = Tally("records", Made(op, Received, Aggregate, "receive", "recv_count"))

CountInv == \E op \in [Busy -> owner] : CountedBy(op)

(* No operation is measured twice.                                         *)
OwnerInv ==
  /\ \A e \in owner : e.operation = "remote_receive" => e.message \in Incoming \ arriving
  /\ \A e \in owner : e.operation # "remote_receive" => e.message \in Buffered \ unsent

-----------------------------------------------------------------------------
(* The profile a thread has read so far, completed with what it would read *)
(* now, covers what it saw of recv_count().                                *)
Reads(t, n) == IF n <= Len(snapshot[t]) THEN snapshot[t][n] ELSE Load(n)

(* The loads of the values received, from other ranks and from the own.    *)
RemoteLoad == 6
LoopbackLoad == 8

SnapshotOf(t) ==
  /\ Len(snapshot[t]) <= Loads
  /\ ~enabled \/ ~In(t, {"am_profile"}) => snapshot[t] = << >>
  /\ enabled /\ In(t, {"am_profile"}) => seen[t] <= Reads(t, RemoteLoad) + Reads(t, LoopbackLoad)

SnapshotInv == \A t \in Threads : SnapshotOf(t)

EndInv ==
  /\ ~ended => submitted = << >>
  /\ ended => /\ \A t \in Threads : Outermost(t)
              /\ submitted = IF enabled THEN <<counters>> ELSE << >>

IInv ==
  /\ Types
  /\ StackInv
  /\ OwnerInv
  /\ CountInv
  /\ SnapshotInv
  /\ EndInv
=============================================================================
