--------------------------- MODULE ProfileWriter ----------------------------
(***************************************************************************)
(* Profile output of lci_irregular.  clear_am_handler() queues the profile *)
(* of the phase it ends; write_profiles() may be called by any thread at   *)
(* any time, and once more by the destructor of Runtime:                   *)
(*                                                                         *)
(*   lock profile_write_mutex_; swap the queue out under profile_mutex_;   *)
(*   write a temporary file, which begins with a copy of the output file   *)
(*   if this process has written one; rename it over the output file;      *)
(*   on any failure remove it, put the profiles back, and throw.           *)
(*                                                                         *)
(* A section under profile_mutex_ is one step.  The file system is         *)
(* external: every operation on it may fail, and the process may die       *)
(* between two steps, leaving the two files as they are.                   *)
(***************************************************************************)
EXTENDS Naturals, Sequences

CONSTANTS
  Threads,       \* threads of the process
  Main,          \* the one that clears phases and destroys the Runtime
  None,          \* no thread
  Torn,          \* what a failed write leaves in a file
  MaxPhases,     \* bound: phases a process ends
  MaxFailures,   \* bound: failures of the file system
  MaxCrashes     \* bound: processes that die

ASSUME ThreadAssumption == Main \in Threads /\ None \notin Threads

(* The profile of a phase: the process it belongs to and its number.       *)
Profile == Nat \X Nat

Line == Profile \cup {Torn}

VARIABLES
  process,                 \* number of the running process
  alive,                   \* it is running
  submitted,               \* history: profiles queued by this process
  pending_profiles,        \* Runtime::pending_profiles_
  profile_output_started,  \* Runtime::profile_output_started_
  write_mutex,             \* holder of profile_write_mutex_, or None
  pc,                      \* where each thread is in write_profiles()
  profiles,                \* its local queue
  stream_ok,               \* the temporary stream has not failed
  promised,                \* history: profiles queued when it made its call
  destroying,              \* the destructor has begun
  output_file,             \* the lines of the output file
  temporary_file,          \* those of the temporary file
  found_file,              \* history: the output file when the process started
  failures                 \* bound: failures so far

memory == <<submitted, pending_profiles, profile_output_started, write_mutex,
            pc, profiles, stream_ok, promised, destroying>>
files == <<output_file, temporary_file>>
others == <<process, alive, found_file>>
vars == <<others, memory, files, failures>>

(* The memory of a process that starts.                                    *)
StartMemory ==
  /\ submitted' = <<>>
  /\ pending_profiles' = <<>>
  /\ profile_output_started' = FALSE
  /\ write_mutex' = None
  /\ pc' = [t \in Threads |-> "idle"]
  /\ profiles' = [t \in Threads |-> <<>>]
  /\ stream_ok' = [t \in Threads |-> TRUE]
  /\ promised' = [t \in Threads |-> 0]
  /\ destroying' = FALSE

Init ==
  /\ process = 0
  /\ alive = TRUE
  /\ submitted = <<>>
  /\ pending_profiles = <<>>
  /\ profile_output_started = FALSE
  /\ write_mutex = None
  /\ pc = [t \in Threads |-> "idle"]
  /\ profiles = [t \in Threads |-> <<>>]
  /\ stream_ok = [t \in Threads |-> TRUE]
  /\ promised = [t \in Threads |-> 0]
  /\ destroying = FALSE
  /\ output_file = <<>>
  /\ temporary_file = <<>>
  /\ found_file = <<>>
  /\ failures = 0

-----------------------------------------------------------------------------
(* submit_profile(), called by the thread that clears a phase.             *)
SubmitProfile ==
  /\ alive
  /\ ~destroying
  /\ pc[Main] = "idle"
  /\ Len(submitted) < MaxPhases
  /\ LET p == <<process, Len(submitted) + 1>>
     IN  /\ submitted' = Append(submitted, p)
         /\ pending_profiles' = Append(pending_profiles, p)
  /\ UNCHANGED <<others, profile_output_started, write_mutex, pc, profiles, stream_ok,
                 promised, destroying, files, failures>>

(* A thread calls write_profiles(); it waits for the mutex.                *)
Call(t) ==
  /\ alive
  /\ ~destroying
  /\ pc[t] = "idle"
  /\ pc' = [pc EXCEPT ![t] = "lock"]
  /\ promised' = [promised EXCEPT ![t] = Len(submitted)]
  /\ UNCHANGED <<others, submitted, pending_profiles, profile_output_started, write_mutex,
                 profiles, stream_ok, destroying, files, failures>>

(* ~Runtime() calls it when no other thread uses the Runtime any more.     *)
Destroy ==
  /\ alive
  /\ ~destroying
  /\ \A t \in Threads : pc[t] = "idle"
  /\ destroying' = TRUE
  /\ pc' = [pc EXCEPT ![Main] = "lock"]
  /\ promised' = [promised EXCEPT ![Main] = Len(submitted)]
  /\ UNCHANGED <<others, submitted, pending_profiles, profile_output_started, write_mutex,
                 profiles, stream_ok, files, failures>>

AlwaysFree == TRUE                                                \* fault
MutexFree == write_mutex = None

LockWriter(t) ==
  /\ alive
  /\ pc[t] = "lock"
  /\ MutexFree
  /\ write_mutex' = t
  /\ pc' = [pc EXCEPT ![t] = "take"]
  /\ UNCHANGED <<others, submitted, pending_profiles, profile_output_started, profiles,
                 stream_ok, promised, destroying, files, failures>>

(* The queue is swapped out.  An empty one ends the call.                  *)
TakeQueue(t) ==
  /\ alive
  /\ pc[t] = "take"
  /\ IF pending_profiles = <<>>
     THEN /\ pc' = [pc EXCEPT ![t] = "returned"]
          /\ write_mutex' = None
          /\ UNCHANGED <<profiles, pending_profiles>>
     ELSE /\ pc' = [pc EXCEPT ![t] = "open"]
          /\ profiles' = [profiles EXCEPT ![t] = pending_profiles]
          /\ pending_profiles' = <<>>
          /\ UNCHANGED write_mutex
  /\ UNCHANGED <<others, submitted, profile_output_started, stream_ok, promised,
                 destroying, files, failures>>

(* create_directories() and the truncating open.                           *)
OpenTemporary(t) ==
  /\ alive
  /\ pc[t] = "open"
  /\ pc' = [pc EXCEPT ![t] = "copy"]
  /\ temporary_file' = <<>>
  /\ stream_ok' = [stream_ok EXCEPT ![t] = TRUE]
  /\ UNCHANGED <<others, submitted, pending_profiles, profile_output_started, write_mutex,
                 profiles, promised, destroying, output_file, failures>>

NothingCopied == <<>>                                             \* fault
CopiedLines == IF profile_output_started THEN output_file ELSE <<>>

CopyPrevious(t) ==
  /\ alive
  /\ pc[t] = "copy"
  /\ pc' = [pc EXCEPT ![t] = "rows"]
  /\ temporary_file' = temporary_file \o CopiedLines
  /\ UNCHANGED <<others, submitted, pending_profiles, profile_output_started, write_mutex,
                 profiles, stream_ok, promised, destroying, output_file, failures>>

WriteRows(t) ==
  /\ alive
  /\ pc[t] = "rows"
  /\ pc' = [pc EXCEPT ![t] = "close"]
  /\ temporary_file' = temporary_file \o profiles[t]
  /\ UNCHANGED <<others, submitted, pending_profiles, profile_output_started, write_mutex,
                 profiles, stream_ok, promised, destroying, output_file, failures>>

(* A write that fails marks the stream; nothing is thrown yet.             *)
FailWrite(t) ==
  /\ alive
  /\ pc[t] = "rows"
  /\ failures < MaxFailures
  /\ failures' = failures + 1
  /\ pc' = [pc EXCEPT ![t] = "close"]
  /\ temporary_file' = Append(temporary_file, Torn)
  /\ stream_ok' = [stream_ok EXCEPT ![t] = FALSE]
  /\ UNCHANGED <<others, submitted, pending_profiles, profile_output_started, write_mutex,
                 profiles, promised, destroying, output_file>>

CloseUnchecked(t) == TRUE                                         \* fault
Complete(t) == stream_ok[t]

CloseTemporary(t) ==
  /\ alive
  /\ pc[t] = "close"
  /\ pc' = [pc EXCEPT ![t] = IF Complete(t) THEN "rename" ELSE "catch"]
  /\ UNCHANGED <<others, submitted, pending_profiles, profile_output_started, write_mutex,
                 profiles, stream_ok, promised, destroying, files, failures>>

(* The rename, atomic in the file system; the local queue goes out of      *)
(* scope and the mutex is released.                                        *)
RenameTemporary(t) ==
  /\ alive
  /\ pc[t] = "rename"
  /\ output_file' = temporary_file
  /\ temporary_file' = <<>>
  /\ profile_output_started' = TRUE
  /\ profiles' = [profiles EXCEPT ![t] = <<>>]
  /\ write_mutex' = None
  /\ pc' = [pc EXCEPT ![t] = "returned"]
  /\ UNCHANGED <<others, submitted, pending_profiles, stream_ok, promised, destroying, failures>>

(* An operation throws: creating the directory or the file, reading or     *)
(* copying the output file if there is one to copy, closing (the lines     *)
(* never reached the disk), or renaming.                                   *)
FileError(t) ==
  /\ alive
  /\ \/ pc[t] \in {"open", "close", "rename"}
     \/ pc[t] = "copy" /\ profile_output_started
  /\ failures < MaxFailures
  /\ failures' = failures + 1
  /\ pc' = [pc EXCEPT ![t] = "catch"]
  /\ UNCHANGED <<others, submitted, pending_profiles, profile_output_started, write_mutex,
                 profiles, stream_ok, promised, destroying, files>>

RemoveTemporary(t) ==
  /\ alive
  /\ pc[t] = "catch"
  /\ temporary_file' = <<>>
  /\ pc' = [pc EXCEPT ![t] = "reinsert"]
  /\ UNCHANGED <<others, submitted, pending_profiles, profile_output_started, write_mutex,
                 profiles, stream_ok, promised, destroying, output_file, failures>>

QueuedAtEnd(t) == pending_profiles \o profiles[t]                 \* fault
Requeued(t) == profiles[t] \o pending_profiles

KeptBy(t) == t                                                    \* fault
ReleasedBy(t) == None

(* The profiles go back to the front of the queue, and the call throws.    *)
Reinsert(t) ==
  /\ alive
  /\ pc[t] = "reinsert"
  /\ pending_profiles' = Requeued(t)
  /\ profiles' = [profiles EXCEPT ![t] = <<>>]
  /\ write_mutex' = ReleasedBy(t)
  /\ pc' = [pc EXCEPT ![t] = "threw"]
  /\ UNCHANGED <<others, submitted, profile_output_started, stream_ok, promised,
                 destroying, files, failures>>

(* The caller goes on; after the destructor nothing does.                  *)
Return(t) ==
  /\ alive
  /\ ~destroying
  /\ pc[t] \in {"returned", "threw"}
  /\ pc' = [pc EXCEPT ![t] = "idle"]
  /\ UNCHANGED <<others, submitted, pending_profiles, profile_output_started, write_mutex,
                 profiles, stream_ok, promised, destroying, files, failures>>

Destroyed == destroying /\ pc[Main] \in {"returned", "threw"}

(* The process dies, or exits after the destructor.                        *)
Crash ==
  /\ alive
  /\ process < MaxCrashes
  /\ alive' = FALSE
  /\ UNCHANGED <<process, found_file, memory, files, failures>>

StartProcess ==
  /\ ~alive
  /\ alive' = TRUE
  /\ process' = process + 1
  /\ found_file' = output_file
  /\ StartMemory
  /\ UNCHANGED <<files, failures>>

WriterStep(t) ==
  \/ LockWriter(t)
  \/ TakeQueue(t)
  \/ OpenTemporary(t)
  \/ CopyPrevious(t)
  \/ WriteRows(t)
  \/ FailWrite(t)
  \/ CloseTemporary(t)
  \/ RenameTemporary(t)
  \/ FileError(t)
  \/ RemoveTemporary(t)
  \/ Reinsert(t)

Next ==
  \/ SubmitProfile
  \/ Destroy
  \/ Crash
  \/ StartProcess
  \/ \E t \in Threads : Call(t) \/ WriterStep(t) \/ Return(t)

Spec == Init /\ [][Next]_vars

(* A thread inside write_profiles() goes on.                               *)
FairSpec == Spec /\ \A t \in Threads : WF_vars(WriterStep(t))

-----------------------------------------------------------------------------
(* Every variable has its type: a torn line stays in the temporary file.   *)
TypeOK ==
  /\ process \in Nat
  /\ alive \in BOOLEAN
  /\ submitted \in Seq(Profile)
  /\ pending_profiles \in Seq(Profile)
  /\ profile_output_started \in BOOLEAN
  /\ write_mutex \in Threads \cup {None}
  /\ pc \in [Threads -> {"idle", "lock", "take", "open", "copy", "rows", "close", "rename",
                         "catch", "reinsert", "returned", "threw"}]
  /\ profiles \in [Threads -> Seq(Profile)]
  /\ stream_ok \in [Threads -> BOOLEAN]
  /\ promised \in [Threads -> Nat]
  /\ destroying \in BOOLEAN
  /\ output_file \in Seq(Profile)
  /\ temporary_file \in Seq(Line)
  /\ found_file \in Seq(Profile)
  /\ failures \in Nat

(* The profiles of this process that are in the output file.               *)
Durable == IF profile_output_started THEN output_file ELSE <<>>

(* The output of one process implements the log.                           *)
Log == INSTANCE ProfileLog WITH durable <- Durable

(* The profiles the thread in write_profiles() has taken from the queue.   *)
InHand == IF write_mutex = None THEN <<>> ELSE profiles[write_mutex]

(* No profile is lost, written twice or out of order, whatever fails and   *)
(* whoever submits meanwhile: the file, the profiles in hand and the queue *)
(* are, in this order, what was submitted.                                 *)
Ledger == Durable \o InHand \o pending_profiles = submitted

(* The output file is always what the process found or some of the first   *)
(* profiles it submitted, whole: so whenever the process dies.             *)
FileIntact ==
  \/ output_file = found_file
  \/ Log!Prefix(output_file, submitted)

(* write_profiles() returns normally only when every profile submitted     *)
(* before the call is in the file, also those another thread had in hand.  *)
ReturnsWhenWritten ==
  \A t \in Threads : pc[t] = "returned" => promised[t] <= Len(Durable)

(* The destructor's write ends, with or without success, whatever happened *)
(* in the calls before it.                                                 *)
DestructorEnds == destroying ~> Destroyed \/ ~alive

(* The file grows by whole phases, in order, each once (ProfileLog).       *)
ImplementsLog == Log!Spec
=============================================================================
