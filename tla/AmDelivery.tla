----------------------------- MODULE AmDelivery -----------------------------
(***************************************************************************)
(* What one typed active-message phase promises to the application,        *)
(* whatever buffers, packets, devices and threads carry the values:        *)
(*                                                                         *)
(*   - the handler of a value's destination rank runs for it exactly once, *)
(*     and only after some worker has posted it;                           *)
(*   - a rank ends its phase only when all its own values are posted and   *)
(*     every value sent to it has been handled;                            *)
(*   - every rank does end its phase.                                      *)
(*                                                                         *)
(* AmExchange is shown to implement this specification.                    *)
(***************************************************************************)
EXTENDS Naturals

CONSTANTS
  Rank,      \* the ranks of the job
  Records,   \* the values posted during the phase
  Source,    \* Source[v]: the rank that posts value v
  Dest       \* Dest[v]: the rank it is addressed to

VARIABLES
  posted,    \* the values whose post_am() call has begun
  got,       \* got[r][v]: how often rank r's handler has run for v
  ended      \* the ranks that have cleared their handler

vars == <<posted, got, ended>>

Init ==
  /\ posted = {}
  /\ got = [r \in Rank |-> [v \in Records |-> 0]]
  /\ ended = {}

Post(v) ==
  /\ v \notin posted
  /\ posted' = posted \cup {v}
  /\ UNCHANGED <<got, ended>>

Handle(v) ==
  /\ v \in posted
  /\ got[Dest[v]][v] = 0
  /\ got' = [got EXCEPT ![Dest[v]][v] = 1]
  /\ UNCHANGED <<posted, ended>>

End(r) ==
  /\ r \notin ended
  /\ \A v \in Records : Source[v] = r => v \in posted
  /\ \A v \in Records : Dest[v] = r => got[r][v] = 1
  /\ ended' = ended \cup {r}
  /\ UNCHANGED <<posted, got>>

Next ==
  \/ \E v \in Records : Post(v) \/ Handle(v)
  \/ \E r \in Rank : End(r)

SafeSpec == Init /\ [][Next]_vars

Spec == SafeSpec /\ WF_vars(Next)
=============================================================================
