----------------------------- MODULE ProfileLog -----------------------------
(***************************************************************************)
(* What profile output promises: the file of a process grows by whole      *)
(* phases, in the order the phases ended, each of them once, and is never  *)
(* seen half written.  A process that starts finds the file an earlier one *)
(* left, and its own first output replaces it.                             *)
(***************************************************************************)
EXTENDS Naturals, Sequences

VARIABLES
  submitted,   \* the profiles of the phases this process has ended, in order
  durable      \* those of them that are in the file

logVars == <<submitted, durable>>

Prefix(s, t) == Len(s) <= Len(t) /\ \A i \in 1 .. Len(s) : s[i] = t[i]

Init == submitted = <<>> /\ durable = <<>>

(* A phase ends.                                                           *)
EndPhase ==
  /\ Len(submitted') = Len(submitted) + 1
  /\ Prefix(submitted, submitted')
  /\ UNCHANGED durable

(* The file is replaced by one that holds more phases.                     *)
Output ==
  /\ Len(durable) < Len(durable')
  /\ Prefix(durable, durable')
  /\ Prefix(durable', submitted)
  /\ UNCHANGED submitted

(* A process starts after the one before it has ended or died.             *)
Restart == submitted' = <<>> /\ durable' = <<>>

Next == EndPhase \/ Output \/ Restart

Spec == Init /\ [][Next]_logVars
=============================================================================
