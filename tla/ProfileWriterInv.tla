-------------------------- MODULE ProfileWriterInv --------------------------
(***************************************************************************)
(* The inductive invariant of ProfileWriter.                               *)
(***************************************************************************)
EXTENDS ProfileWriter

Holding == {"take", "open", "copy", "rows", "close", "rename", "catch", "reinsert"}

(* One thread at a time is between the two ends of the mutex, and it alone *)
(* has profiles in hand.                                                   *)
MutexInv ==
  \A t \in Threads :
    /\ pc[t] \in Holding <=> write_mutex = t
    /\ profiles[t] # <<>> <=> pc[t] \in Holding \ {"take"}

(* What the temporary file holds as it is made.                            *)
TemporaryInv ==
  \A t \in Threads :
    /\ pc[t] = "copy" => temporary_file = <<>>
    /\ pc[t] = "rows" => temporary_file = Durable
    /\ pc[t] \in {"copy", "rows", "rename"} => stream_ok[t]
    /\ pc[t] \in {"close", "rename"} /\ stream_ok[t] => temporary_file = Durable \o profiles[t]

(* What a thread was promised is in the file, in its hands or, until it    *)
(* holds the mutex and has emptied it, in the queue.                       *)
PromiseInv ==
  \A t \in Threads :
    /\ promised[t] <= Len(submitted)
    /\ pc[t] \in Holding \ {"take"} => promised[t] <= Len(Durable) + Len(profiles[t])
    /\ pc[t] = "returned" => promised[t] <= Len(Durable)

FileInv == ~profile_output_started => output_file = found_file

IInv ==
  /\ TypeOK
  /\ MutexInv
  /\ TemporaryInv
  /\ PromiseInv
  /\ FileInv
  /\ Ledger
=============================================================================
