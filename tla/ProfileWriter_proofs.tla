------------------------ MODULE ProfileWriter_proofs ------------------------
(***************************************************************************)
(* Proofs about ProfileWriter, for every set of threads and every bound.   *)
(*                                                                         *)
(* The argument: one thread at a time holds profile_write_mutex_           *)
(* (MutexInv), so that the file, what that thread has in hand and the      *)
(* queue, put together, are what was submitted (Ledger).  What a call was  *)
(* promised is then a number of entries from the left of that sequence:    *)
(* the thread that holds the mutex has them in the file or in hand.        *)
(***************************************************************************)
EXTENDS ProfileWriterInv, SequenceTheorems, TLAPS

-----------------------------------------------------------------------------
(* Sequences of profiles, put together.                                    *)

LEMMA EmptyConcat ==
  ASSUME NEW S, NEW s \in Seq(S)
  PROVE  s \o <<>> = s /\ <<>> \o s = s
BY ConcatEmptySeq

LEMMA ThreeParts ==
  ASSUME NEW s \in Seq(Profile), NEW t \in Seq(Profile), NEW u \in Seq(Profile)
  PROVE  (s \o t) \o u = s \o (t \o u)
BY ConcatAssociative, SMTT(30)

LEMMA AppendAtEnd ==
  ASSUME NEW s \in Seq(Profile), NEW t \in Seq(Profile), NEW e \in Profile
  PROVE  /\ Append(t, e) \in Seq(Profile)
         /\ Len(Append(t, e)) = Len(t) + 1
         /\ s \o Append(t, e) = Append(s \o t, e)
<1>1. Append(t, e) \in Seq(Profile) /\ Len(Append(t, e)) = Len(t) + 1
  OBVIOUS
<1>2. <<e>> \in Seq(Profile) /\ s \o t \in Seq(Profile)
  BY ConcatProperties
<1>3. Append(t, e) = t \o <<e>> /\ Append(s \o t, e) = (s \o t) \o <<e>>
  BY <1>2, AppendIsConcat
<1>4. (s \o t) \o <<e>> = s \o (t \o <<e>>)
  BY <1>2, ThreeParts, SMTT(30)
<1> QED
  BY <1>1, <1>3, <1>4

LEMMA ConcatPrefix ==
  ASSUME NEW S, NEW s \in Seq(S), NEW t \in Seq(S)
  PROVE  Log!Prefix(s, s \o t)
<1>1. Len(s) \in Nat /\ Len(t) \in Nat
  BY LenProperties
<1>2. Len(s \o t) = Len(s) + Len(t)
  BY ConcatProperties
<1>3. ASSUME NEW i \in 1 .. Len(s)
      PROVE  s[i] = (s \o t)[i]
  BY <1>1, ConcatProperties
<1> QED
  BY <1>1, <1>2, <1>3 DEF Log!Prefix

LEMMA EmptyPrefix ==
  ASSUME NEW S, NEW s \in Seq(S)
  PROVE  Log!Prefix(<<>>, s)
<1>1. <<>> \in Seq(S)
  BY EmptySeq
<1>2. Log!Prefix(<<>>, <<>> \o s)
  BY <1>1, ConcatPrefix
<1> QED
  BY <1>2, EmptyConcat

(* Profiles, and torn lines beside them in the temporary file.             *)
LEMMA ProfilesAreLines ==
  ASSUME NEW s \in Seq(Profile)
  PROVE  s \in Seq(Line)
BY SeqMonotonic DEF Line

-----------------------------------------------------------------------------
(* What the type invariant gives of the sequences a step reads.            *)
LEMMA Sequences ==
  ASSUME TypeOK
  PROVE  /\ Durable \in Seq(Profile)
         /\ InHand \in Seq(Profile)
         /\ pending_profiles \in Seq(Profile)
         /\ submitted \in Seq(Profile)
         /\ Len(Durable) \in Nat
         /\ Len(submitted) \in Nat
         /\ \A t \in Threads : profiles[t] \in Seq(Profile) /\ Len(profiles[t]) \in Nat
<1>1. Durable \in Seq(Profile)
  BY EmptySeq DEF TypeOK, Durable
<1>2. InHand \in Seq(Profile)
  BY EmptySeq DEF TypeOK, InHand
<1>3. \A t \in Threads : profiles[t] \in Seq(Profile)
  BY DEF TypeOK
<1> QED
  BY <1>1, <1>2, <1>3, LenProperties DEF TypeOK

(* The thread that holds the mutex, and it alone, is inside.               *)
LEMMA Holder ==
  ASSUME MutexInv, NEW t \in Threads, pc[t] \in Holding
  PROVE  /\ write_mutex = t
         /\ InHand = profiles[t]
         /\ \A u \in Threads : u # t => pc[u] \notin Holding /\ profiles[u] = <<>>
<1>1. write_mutex = t
  BY DEF MutexInv
<1>2. InHand = profiles[t]
  BY <1>1, ThreadAssumption DEF InHand
<1>3. \A u \in Threads : u # t => pc[u] \notin Holding
  BY <1>1 DEF MutexInv
<1>4. \A u \in Threads : u # t => profiles[u] = <<>>
  BY <1>3 DEF MutexInv
<1> QED
  BY <1>1, <1>2, <1>3, <1>4

(* Nobody is inside while the mutex is free.                               *)
LEMMA NoHolder ==
  ASSUME MutexInv, write_mutex = None
  PROVE  /\ \A u \in Threads : pc[u] \notin Holding /\ profiles[u] = <<>>
         /\ InHand = <<>>
<1>1. \A u \in Threads : pc[u] \notin Holding
  BY ThreadAssumption DEF MutexInv
<1> QED
  BY <1>1 DEF MutexInv, InHand

-----------------------------------------------------------------------------
LEMMA InitInv == Init => IInv
<1> SUFFICES ASSUME Init PROVE IInv
  OBVIOUS
<1>1. TypeOK
  BY ThreadAssumption, EmptySeq DEF Init, TypeOK
<1>2. MutexInv
  BY ThreadAssumption DEF Init, MutexInv, Holding
<1>3. TemporaryInv
  BY DEF Init, TemporaryInv
<1>4. PromiseInv
  <2>1. Len(submitted) = 0
    BY DEF Init
  <2>2. \A t \in Threads : pc[t] = "idle" /\ promised[t] = 0
    BY DEF Init
  <2>3. ASSUME NEW t \in Threads
        PROVE  promised[t] <= Len(submitted)
    <3>1. promised[t] = 0
      BY <2>2
    <3> QED
      BY <3>1, <2>1
  <2>4. \A t \in Threads : pc[t] \notin Holding /\ pc[t] # "returned"
    BY <2>2 DEF Holding
  <2> QED
    BY <2>3, <2>4 DEF PromiseInv
<1>5. Ledger
  BY EmptyConcat, EmptySeq DEF Init, Ledger, Durable, InHand
<1> QED
  BY <1>1, <1>2, <1>3, <1>4, <1>5 DEF Init, IInv, FileInv

LEMMA StartInv == IInv /\ StartProcess => IInv'
<1> SUFFICES ASSUME IInv, StartProcess PROVE IInv'
  OBVIOUS
<1> USE DEF StartProcess, StartMemory, files
<1>1. TypeOK'
  <2>1. TypeOK
    BY DEF IInv
  <2>2. /\ process' \in Nat /\ alive' \in BOOLEAN /\ found_file' \in Seq(Profile)
        /\ output_file' \in Seq(Profile) /\ temporary_file' \in Seq(Line)
        /\ failures' \in Nat
    BY <2>1 DEF TypeOK
  <2>3. submitted' \in Seq(Profile) /\ pending_profiles' \in Seq(Profile)
    BY EmptySeq
  <2>4. profiles' \in [Threads -> Seq(Profile)]
    BY EmptySeq
  <2> QED
    BY <2>2, <2>3, <2>4 DEF TypeOK
<1>2. MutexInv'
  BY ThreadAssumption DEF MutexInv, Holding
<1>3. TemporaryInv'
  BY DEF TemporaryInv
<1>4. PromiseInv'
  BY EmptySeq DEF PromiseInv, Holding
<1>5. Ledger'
  BY EmptyConcat, EmptySeq DEF Ledger, Durable, InHand
<1> QED
  BY <1>1, <1>2, <1>3, <1>4, <1>5 DEF IInv, FileInv

LEMMA CrashInv == IInv /\ Crash => IInv'
<1> SUFFICES ASSUME IInv, Crash PROVE IInv'
  OBVIOUS
<1> USE DEF Crash, memory, files
<1>d. Durable' = Durable /\ InHand' = InHand
  BY DEF Durable, InHand
<1>1. TypeOK'
  BY DEF IInv, TypeOK
<1>2. MutexInv'
  BY DEF IInv, MutexInv
<1>3. TemporaryInv'
  BY <1>d DEF IInv, TemporaryInv
<1>4. PromiseInv'
  BY <1>d DEF IInv, PromiseInv
<1>5. Ledger' /\ FileInv'
  BY <1>d DEF IInv, Ledger, FileInv
<1> QED
  BY <1>1, <1>2, <1>3, <1>4, <1>5 DEF IInv

LEMMA SubmitInv == IInv /\ SubmitProfile => IInv'
<1> SUFFICES ASSUME IInv, SubmitProfile PROVE IInv'
  OBVIOUS
<1> DEFINE p == <<process, Len(submitted) + 1>>
<1> USE DEF SubmitProfile, others, files
<1>t. TypeOK
  BY DEF IInv
<1>s. p \in Profile
  <2>1. Len(submitted) \in Nat
    BY <1>t, Sequences
  <2>2. process \in Nat
    BY <1>t DEF TypeOK
  <2> QED
    BY <2>1, <2>2 DEF Profile
<1>q. /\ submitted' = Append(submitted, p)
      /\ pending_profiles' = Append(pending_profiles, p)
      /\ Durable' = Durable
      /\ InHand' = InHand
  BY DEF Durable, InHand
<1> HIDE DEF p
<1>r. submitted \in Seq(Profile) /\ pending_profiles \in Seq(Profile)
  BY <1>t, Sequences
<1>l. submitted' \in Seq(Profile) /\ Len(submitted') = Len(submitted) + 1
  BY <1>q, <1>s, <1>r, AppendAtEnd, ZenonT(40)
<1>1. TypeOK'
  <2>1. pending_profiles' \in Seq(Profile)
    BY <1>q, <1>s, <1>r, AppendAtEnd, ZenonT(40)
  <2> QED
    BY <2>1, <1>l, <1>t DEF TypeOK
<1>2. MutexInv'
  BY DEF IInv, MutexInv
<1>3. TemporaryInv'
  BY <1>q DEF IInv, TemporaryInv
<1>4. PromiseInv'
  <2>1. \A t \in Threads : promised[t] \in Nat
    BY <1>t DEF TypeOK
  <2> QED
    BY <2>1, <1>l, <1>q, <1>t, Sequences DEF IInv, PromiseInv
<1>5. Ledger'
  <2>1. Durable \o InHand \in Seq(Profile)
    BY <1>t, Sequences, ConcatProperties
  <2>2. (Durable \o InHand) \o Append(pending_profiles, p)
          = Append((Durable \o InHand) \o pending_profiles, p)
    BY <2>1, <1>s, <1>t, Sequences, AppendAtEnd
  <2> QED
    BY <2>2, <1>q DEF IInv, Ledger
<1> QED
  BY <1>1, <1>2, <1>3, <1>4, <1>5 DEF IInv, FileInv

(* A call begins, by a thread or by the destructor.                        *)
LEMMA CallInv ==
  ASSUME IInv, NEW t \in Threads, Call(t) \/ (Destroy /\ t = Main)
  PROVE  IInv'
<1> USE DEF Call, Destroy, others, files
<1>t. TypeOK
  BY DEF IInv
<1>q. /\ pc[t] = "idle"
      /\ pc' = [pc EXCEPT ![t] = "lock"]
      /\ promised' = [promised EXCEPT ![t] = Len(submitted)]
      /\ UNCHANGED <<process, alive, found_file, submitted, pending_profiles, profile_output_started,
                     write_mutex, profiles, stream_ok, output_file, temporary_file, failures>>
      /\ destroying' \in BOOLEAN
  BY <1>t DEF TypeOK
<1> HIDE DEF Call, Destroy
<1>d. Durable' = Durable /\ InHand' = InHand
  BY <1>q DEF Durable, InHand
<1>1. TypeOK'
  <2>1. pc' \in [Threads -> {"idle", "lock", "take", "open", "copy", "rows", "close", "rename",
                             "catch", "reinsert", "returned", "threw"}]
    BY <1>q, <1>t DEF TypeOK
  <2>2. promised' \in [Threads -> Nat]
    BY <1>q, <1>t, Sequences DEF TypeOK
  <2> QED
    BY <2>1, <2>2, <1>q, <1>t DEF TypeOK
<1>p. \A u \in Threads : pc'[u] = IF u = t THEN "lock" ELSE pc[u]
  BY <1>q, <1>t DEF TypeOK
<1>2. MutexInv'
  BY <1>p, <1>q DEF IInv, MutexInv, Holding
<1>3. TemporaryInv'
  BY <1>p, <1>q, <1>d DEF IInv, TemporaryInv
<1>4. PromiseInv'
  <2>1. \A u \in Threads : promised'[u] = IF u = t THEN Len(submitted) ELSE promised[u]
    BY <1>q, <1>t DEF TypeOK
  <2> QED
    BY <2>1, <1>p, <1>q, <1>d, <1>t, Sequences DEF IInv, PromiseInv, Holding
<1>5. Ledger' /\ FileInv'
  BY <1>q, <1>d DEF IInv, Ledger, FileInv
<1> QED
  BY <1>1, <1>2, <1>3, <1>4, <1>5 DEF IInv

LEMMA LockInv ==
  ASSUME IInv, NEW t \in Threads, LockWriter(t)
  PROVE  IInv'
<1> USE DEF LockWriter, MutexFree, others, files
<1>t. TypeOK /\ MutexInv
  BY DEF IInv
<1>h. (\A u \in Threads : pc[u] \notin Holding /\ profiles[u] = <<>>) /\ InHand = <<>>
  BY <1>t, NoHolder
<1>p. \A u \in Threads : pc'[u] = IF u = t THEN "take" ELSE pc[u]
  BY <1>t DEF TypeOK
<1>d. Durable' = Durable /\ InHand' = <<>>
  BY <1>h, ThreadAssumption DEF Durable, InHand
<1>1. TypeOK'
  BY <1>t DEF TypeOK
<1>2. MutexInv'
  BY <1>p, <1>h, <1>t DEF MutexInv, Holding
<1>3. TemporaryInv'
  BY <1>p, <1>h DEF TemporaryInv, Holding
<1>4. PromiseInv'
  BY <1>p, <1>h, <1>d DEF IInv, PromiseInv, Holding
<1>5. Ledger' /\ FileInv'
  BY <1>h, <1>d DEF IInv, Ledger, FileInv
<1> QED
  BY <1>1, <1>2, <1>3, <1>4, <1>5 DEF IInv

LEMMA ReturnInv ==
  ASSUME IInv, NEW t \in Threads, Return(t)
  PROVE  IInv'
<1> USE DEF Return, others, files
<1>t. TypeOK /\ MutexInv
  BY DEF IInv
<1>p. \A u \in Threads : pc'[u] = IF u = t THEN "idle" ELSE pc[u]
  BY <1>t DEF TypeOK
<1>d. Durable' = Durable /\ InHand' = InHand
  BY DEF Durable, InHand
<1>1. TypeOK'
  BY <1>t DEF TypeOK
<1>2. MutexInv'
  BY <1>p, <1>t DEF MutexInv, Holding
<1>3. TemporaryInv'
  BY <1>p, <1>d DEF IInv, TemporaryInv
<1>4. PromiseInv'
  BY <1>p, <1>d DEF IInv, PromiseInv, Holding
<1>5. Ledger' /\ FileInv'
  BY <1>d DEF IInv, Ledger, FileInv
<1> QED
  BY <1>1, <1>2, <1>3, <1>4, <1>5 DEF IInv

-----------------------------------------------------------------------------
(* The steps of the thread that has profiles in hand, up to the two that   *)
(* end its call: they touch the temporary file and the stream only.        *)
Inside == Holding \ {"take"}

LEMMA InsideInv ==
  ASSUME IInv, NEW t \in Threads, NEW q \in Inside,
         pc[t] \in Inside,
         pc' = [pc EXCEPT ![t] = q],
         UNCHANGED <<others, submitted, pending_profiles, profile_output_started, write_mutex,
                     profiles, promised, destroying, output_file>>,
         temporary_file' \in Seq(Line),
         stream_ok' \in [Threads -> BOOLEAN],
         failures' \in Nat,
         q = "copy" => temporary_file' = <<>>,
         q = "rows" => temporary_file' = Durable,
         q \in {"copy", "rows", "rename"} => stream_ok'[t],
         q \in {"close", "rename"} /\ stream_ok'[t] => temporary_file' = Durable \o profiles[t]
  PROVE  IInv'
<1> USE DEF others
<1>t. TypeOK /\ MutexInv
  BY DEF IInv
<1>h. /\ write_mutex = t
      /\ InHand = profiles[t]
      /\ \A u \in Threads : u # t => pc[u] \notin Holding /\ profiles[u] = <<>>
  BY <1>t, Holder DEF Inside
<1>p. \A u \in Threads : pc'[u] = IF u = t THEN q ELSE pc[u]
  BY <1>t DEF TypeOK
<1>d. Durable' = Durable /\ InHand' = InHand
  BY DEF Durable, InHand
<1>1. TypeOK'
  <2>1. pc' \in [Threads -> {"idle", "lock", "take", "open", "copy", "rows", "close", "rename",
                             "catch", "reinsert", "returned", "threw"}]
    BY <1>t DEF TypeOK, Inside, Holding
  <2> QED
    BY <2>1, <1>t DEF TypeOK
<1>2. MutexInv'
  BY <1>p, <1>h, <1>t DEF MutexInv, Inside, Holding
<1>3. TemporaryInv'
  <2> SUFFICES ASSUME NEW u \in Threads
               PROVE  /\ pc'[u] = "copy" => temporary_file' = <<>>
                      /\ pc'[u] = "rows" => temporary_file' = Durable'
                      /\ pc'[u] \in {"copy", "rows", "rename"} => stream_ok'[u]
                      /\ pc'[u] \in {"close", "rename"} /\ stream_ok'[u]
                           => temporary_file' = Durable' \o profiles'[u]
    BY DEF TemporaryInv
  <2>1. CASE u = t
    BY <2>1, <1>p, <1>d
  <2>2. CASE u # t
    BY <2>2, <1>p, <1>h DEF Holding
  <2> QED
    BY <2>1, <2>2
<1>4. PromiseInv'
  <2>1. \A u \in Threads : pc'[u] \in Inside => pc[u] \in Inside
    BY <1>p
  <2>2. \A u \in Threads : pc'[u] = "returned" => pc[u] = "returned"
    BY <1>p DEF Inside, Holding
  <2> QED
    BY <2>1, <2>2, <1>d DEF IInv, PromiseInv, Inside
<1>5. Ledger' /\ FileInv'
  BY <1>d DEF IInv, Ledger, FileInv
<1> QED
  BY <1>1, <1>2, <1>3, <1>4, <1>5 DEF IInv

LEMMA OpenInv ==
  ASSUME IInv, NEW t \in Threads, OpenTemporary(t)
  PROVE  IInv'
<1>t. TypeOK
  BY DEF IInv
<1>1. temporary_file' = <<>> /\ temporary_file' \in Seq(Line)
  BY EmptySeq DEF OpenTemporary
<1>2. stream_ok' \in [Threads -> BOOLEAN] /\ stream_ok'[t]
  BY <1>t DEF OpenTemporary, TypeOK
<1>3. failures' \in Nat /\ pc[t] \in Inside /\ "copy" \in Inside
  BY <1>t DEF OpenTemporary, TypeOK, Inside, Holding
<1> QED
  BY <1>1, <1>2, <1>3, InsideInv DEF OpenTemporary

LEMMA CopyInv ==
  ASSUME IInv, NEW t \in Threads, CopyPrevious(t)
  PROVE  IInv'
<1>t. TypeOK /\ TemporaryInv
  BY DEF IInv
<1>1. temporary_file' = Durable /\ temporary_file' \in Seq(Line)
  <2>1. temporary_file' = <<>> \o Durable
    BY <1>t DEF CopyPrevious, TemporaryInv, CopiedLines, Durable
  <2> QED
    BY <2>1, <1>t, Sequences, EmptyConcat, ProfilesAreLines
<1>2. stream_ok' \in [Threads -> BOOLEAN] /\ stream_ok'[t]
  BY <1>t DEF CopyPrevious, TypeOK, TemporaryInv
<1>3. failures' \in Nat /\ pc[t] \in Inside /\ "rows" \in Inside
  BY <1>t DEF CopyPrevious, TypeOK, Inside, Holding
<1> QED
  BY <1>1, <1>2, <1>3, InsideInv DEF CopyPrevious

LEMMA RowsInv ==
  ASSUME IInv, NEW t \in Threads, WriteRows(t)
  PROVE  IInv'
<1>t. TypeOK /\ TemporaryInv
  BY DEF IInv
<1>1. temporary_file' = Durable \o profiles[t]
  BY <1>t DEF WriteRows, TemporaryInv
<1>2. temporary_file' \in Seq(Line)
  BY <1>1, <1>t, Sequences, ConcatProperties, ProfilesAreLines
<1>3. stream_ok' \in [Threads -> BOOLEAN]
  BY <1>t DEF WriteRows, TypeOK
<1>4. failures' \in Nat /\ pc[t] \in Inside /\ "close" \in Inside
  BY <1>t DEF WriteRows, TypeOK, Inside, Holding
<1> QED
  BY <1>1, <1>2, <1>3, <1>4, InsideInv DEF WriteRows

LEMMA FailWriteInv ==
  ASSUME IInv, NEW t \in Threads, FailWrite(t)
  PROVE  IInv'
<1>t. TypeOK
  BY DEF IInv
<1>1. temporary_file' \in Seq(Line)
  <2>1. Torn \in Line /\ temporary_file \in Seq(Line)
    BY <1>t DEF Line, TypeOK
  <2> QED
    BY <2>1 DEF FailWrite
<1>2. stream_ok' \in [Threads -> BOOLEAN] /\ stream_ok'[t] = FALSE
  BY <1>t DEF FailWrite, TypeOK
<1>3. failures' \in Nat /\ pc[t] \in Inside /\ "close" \in Inside
  BY <1>t DEF FailWrite, TypeOK, Inside, Holding
<1> QED
  BY <1>1, <1>2, <1>3, InsideInv DEF FailWrite

LEMMA CloseInv ==
  ASSUME IInv, NEW t \in Threads, CloseTemporary(t)
  PROVE  IInv'
<1>t. TypeOK /\ TemporaryInv
  BY DEF IInv
<1> DEFINE q == IF Complete(t) THEN "rename" ELSE "catch"
<1>1. temporary_file' \in Seq(Line) /\ stream_ok' \in [Threads -> BOOLEAN]
  BY <1>t DEF CloseTemporary, TypeOK, files
<1>2. failures' \in Nat /\ pc[t] \in Inside /\ q \in Inside
  BY <1>t DEF CloseTemporary, TypeOK, Inside, Holding
<1>3. pc' = [pc EXCEPT ![t] = q]
  BY DEF CloseTemporary
<1>4. q = "rename" => stream_ok'[t] /\ temporary_file' = Durable \o profiles[t]
  BY <1>t DEF CloseTemporary, Complete, TemporaryInv, files
<1>5. q \notin {"copy", "rows", "close"}
  OBVIOUS
<1> HIDE DEF q
<1> QED
  BY <1>1, <1>2, <1>3, <1>4, <1>5, InsideInv DEF CloseTemporary, files

LEMMA ErrorInv ==
  ASSUME IInv, NEW t \in Threads, FileError(t)
  PROVE  IInv'
<1>t. TypeOK
  BY DEF IInv
<1>1. temporary_file' \in Seq(Line) /\ stream_ok' \in [Threads -> BOOLEAN]
  BY <1>t DEF FileError, TypeOK, files
<1>2. failures' \in Nat /\ pc[t] \in Inside /\ "catch" \in Inside
  BY <1>t DEF FileError, TypeOK, Inside, Holding
<1> QED
  BY <1>1, <1>2, InsideInv DEF FileError, files

LEMMA RemoveInv ==
  ASSUME IInv, NEW t \in Threads, RemoveTemporary(t)
  PROVE  IInv'
<1>t. TypeOK
  BY DEF IInv
<1>1. temporary_file' \in Seq(Line) /\ stream_ok' \in [Threads -> BOOLEAN]
  BY <1>t, EmptySeq DEF RemoveTemporary, TypeOK
<1>2. failures' \in Nat /\ pc[t] \in Inside /\ "reinsert" \in Inside
  BY <1>t DEF RemoveTemporary, TypeOK, Inside, Holding
<1> QED
  BY <1>1, <1>2, InsideInv DEF RemoveTemporary

-----------------------------------------------------------------------------
(* The steps at the ends of a call.                                        *)

LEMMA TakeInv ==
  ASSUME IInv, NEW t \in Threads, TakeQueue(t)
  PROVE  IInv'
<1>t. TypeOK /\ MutexInv /\ Ledger
  BY DEF IInv
<1>c. pc[t] = "take" /\ pc[t] \in Holding
  BY DEF TakeQueue, Holding
<1>h. /\ write_mutex = t
      /\ InHand = profiles[t]
      /\ \A u \in Threads : u # t => pc[u] \notin Holding /\ profiles[u] = <<>>
  BY <1>t, <1>c, Holder
<1>e. profiles[t] = <<>> /\ InHand = <<>>
  BY <1>t, <1>c, <1>h DEF MutexInv
<1>s. Durable \in Seq(Profile) /\ pending_profiles \in Seq(Profile)
  BY <1>t, Sequences
<1>l. Durable \o pending_profiles = submitted
  BY <1>t, <1>e, <1>s, EmptyConcat DEF Ledger
<1>d. Durable' = Durable
  BY DEF TakeQueue, Durable, others, files
<1>u. UNCHANGED <<process, alive, found_file, submitted, profile_output_started, stream_ok,
                  promised, destroying, output_file, temporary_file, failures>>
  BY DEF TakeQueue, others, files
<1>1. CASE pending_profiles = <<>>
  <2>1. /\ pc' = [pc EXCEPT ![t] = "returned"]
        /\ write_mutex' = None
        /\ UNCHANGED <<profiles, pending_profiles>>
    BY <1>1 DEF TakeQueue
  <2>p. \A u \in Threads : pc'[u] = IF u = t THEN "returned" ELSE pc[u]
    BY <2>1, <1>t DEF TypeOK
  <2>h. InHand' = <<>>
    BY <2>1 DEF InHand
  <2>2. TypeOK'
    BY <2>1, <1>u, <1>t DEF TypeOK
  <2>3. MutexInv'
    BY <2>1, <2>p, <1>h, <1>e, ThreadAssumption DEF MutexInv, Holding
  <2>4. TemporaryInv'
    BY <2>p, <1>h DEF TemporaryInv, Holding
  <2>5. submitted = Durable
    BY <1>1, <1>l, <1>s, EmptyConcat
  <2>6. PromiseInv'
    <3>1. \A u \in Threads : promised[u] <= Len(submitted) /\ promised'[u] = promised[u]
      BY <1>u DEF IInv, PromiseInv
    <3>2. \A u \in Threads : pc'[u] \notin Holding
      BY <2>p, <1>h DEF Holding
    <3> QED
      BY <3>1, <3>2, <2>5, <1>u, <1>d DEF PromiseInv
  <2>7. Ledger' /\ FileInv'
    BY <2>1, <2>h, <1>t, <1>e, <1>d, <1>u DEF IInv, Ledger, FileInv
  <2> QED
    BY <2>2, <2>3, <2>4, <2>6, <2>7 DEF IInv
<1>2. CASE pending_profiles # <<>>
  <2>1. /\ pc' = [pc EXCEPT ![t] = "open"]
        /\ profiles' = [profiles EXCEPT ![t] = pending_profiles]
        /\ pending_profiles' = <<>>
        /\ UNCHANGED write_mutex
    BY <1>2 DEF TakeQueue
  <2>p. \A u \in Threads : pc'[u] = IF u = t THEN "open" ELSE pc[u]
    BY <2>1, <1>t DEF TypeOK
  <2>q. \A u \in Threads : profiles'[u] = IF u = t THEN pending_profiles ELSE profiles[u]
    BY <2>1, <1>t DEF TypeOK
  <2>h. InHand' = pending_profiles
    BY <2>1, <2>q, <1>h, ThreadAssumption DEF InHand
  <2>2. TypeOK'
    <3>1. pending_profiles' \in Seq(Profile)
      BY <2>1, EmptySeq
    <3> QED
      BY <3>1, <2>1, <1>u, <1>t DEF TypeOK
  <2>3. MutexInv'
    BY <2>1, <2>p, <2>q, <1>2, <1>h DEF MutexInv, Holding
  <2>4. TemporaryInv'
    BY <2>p, <1>h DEF TemporaryInv, Holding
  <2>5. Len(submitted) = Len(Durable) + Len(pending_profiles)
    BY <1>l, <1>s, ConcatProperties
  <2>6. PromiseInv'
    <3> SUFFICES ASSUME NEW u \in Threads
                 PROVE  /\ promised'[u] <= Len(submitted')
                        /\ pc'[u] \in Holding \ {"take"}
                             => promised'[u] <= Len(Durable') + Len(profiles'[u])
                        /\ pc'[u] = "returned" => promised'[u] <= Len(Durable')
      BY DEF PromiseInv
    <3>1. promised[u] <= Len(submitted) /\ promised'[u] = promised[u] /\ submitted' = submitted
      BY <1>u DEF IInv, PromiseInv
    <3>2. CASE u = t
      <4>1. profiles'[u] = pending_profiles /\ pc'[u] = "open"
        BY <3>2, <2>p, <2>q
      <4> QED
        BY <4>1, <3>1, <2>5, <1>d
    <3>3. CASE u # t
      <4>1. pc'[u] = pc[u] /\ pc[u] \notin Holding
        BY <3>3, <2>p, <1>h
      <4>2. pc[u] = "returned" => promised[u] <= Len(Durable)
        BY DEF IInv, PromiseInv
      <4> QED
        BY <4>1, <4>2, <3>1, <1>d
    <3> QED
      BY <3>2, <3>3
  <2>7. Ledger'
    <3>1. Durable \o pending_profiles \in Seq(Profile)
      BY <1>s, ConcatProperties
    <3>2. (Durable \o pending_profiles) \o <<>> = Durable \o pending_profiles
      BY <3>1, EmptyConcat
    <3> QED
      BY <3>2, <2>1, <2>h, <1>l, <1>d, <1>u DEF Ledger
  <2>8. FileInv'
    BY <1>u DEF IInv, FileInv
  <2> QED
    BY <2>2, <2>3, <2>4, <2>6, <2>7, <2>8 DEF IInv
<1> QED
  BY <1>1, <1>2

(* What the rename does to the file.                                       *)
LEMMA RenameFile ==
  ASSUME IInv, NEW t \in Threads, RenameTemporary(t)
  PROVE  /\ Durable' = Durable \o profiles[t]
         /\ Durable' \in Seq(Profile)
         /\ output_file' = Durable'
         /\ profiles[t] # <<>>
         /\ profiles[t] \in Seq(Profile)
         /\ Durable \in Seq(Profile)
<1>t. TypeOK /\ MutexInv /\ TemporaryInv
  BY DEF IInv
<1>s. Durable \in Seq(Profile) /\ profiles[t] \in Seq(Profile)
  BY <1>t, Sequences
<1>c. pc[t] = "rename"
  BY DEF RenameTemporary
<1>1. temporary_file = Durable \o profiles[t]
  BY <1>t, <1>c DEF TemporaryInv
<1>2. output_file' = temporary_file /\ Durable' = temporary_file
  BY DEF RenameTemporary, Durable
<1>3. profiles[t] # <<>>
  BY <1>t, <1>c DEF MutexInv, Holding
<1> QED
  BY <1>1, <1>2, <1>3, <1>s, ConcatProperties

LEMMA RenameInv ==
  ASSUME IInv, NEW t \in Threads, RenameTemporary(t)
  PROVE  IInv'
<1>t. TypeOK /\ MutexInv /\ TemporaryInv /\ Ledger
  BY DEF IInv
<1>c. pc[t] = "rename" /\ pc[t] \in Holding
  BY DEF RenameTemporary, Holding
<1>h. /\ write_mutex = t
      /\ InHand = profiles[t]
      /\ \A u \in Threads : u # t => pc[u] \notin Holding /\ profiles[u] = <<>>
  BY <1>t, <1>c, Holder
<1>f. /\ Durable' = Durable \o profiles[t]
      /\ Durable' \in Seq(Profile)
      /\ output_file' = Durable'
      /\ profiles[t] \in Seq(Profile)
      /\ Durable \in Seq(Profile)
  BY RenameFile
<1>s. pending_profiles \in Seq(Profile)
  BY <1>t, Sequences
<1>u. /\ UNCHANGED <<process, alive, found_file, submitted, pending_profiles, stream_ok,
                     promised, destroying, failures>>
      /\ temporary_file' = <<>>
      /\ profile_output_started' = TRUE
      /\ profiles' = [profiles EXCEPT ![t] = <<>>]
      /\ write_mutex' = None
      /\ pc' = [pc EXCEPT ![t] = "returned"]
  BY DEF RenameTemporary, others
<1>p. \A u \in Threads : pc'[u] = IF u = t THEN "returned" ELSE pc[u]
  BY <1>u, <1>t DEF TypeOK
<1>q. \A u \in Threads : profiles'[u] = <<>>
  BY <1>u, <1>h, <1>t DEF TypeOK
<1>i. InHand' = <<>>
  BY <1>u DEF InHand
<1>1. TypeOK'
  <2>1. temporary_file' \in Seq(Line) /\ profiles' \in [Threads -> Seq(Profile)]
    BY <1>u, <1>t, EmptySeq DEF TypeOK
  <2> QED
    BY <2>1, <1>f, <1>u, <1>t DEF TypeOK
<1>2. MutexInv'
  BY <1>p, <1>q, <1>h, <1>u, ThreadAssumption DEF MutexInv, Holding
<1>3. TemporaryInv'
  BY <1>p, <1>h DEF TemporaryInv, Holding
<1>l. /\ Len(Durable') = Len(Durable) + Len(profiles[t])
      /\ Len(Durable) \in Nat /\ Len(profiles[t]) \in Nat
  BY <1>f, ConcatProperties, LenProperties
<1>4. PromiseInv'
  <2> SUFFICES ASSUME NEW u \in Threads
               PROVE  /\ promised'[u] <= Len(submitted')
                      /\ pc'[u] \in Holding \ {"take"}
                           => promised'[u] <= Len(Durable') + Len(profiles'[u])
                      /\ pc'[u] = "returned" => promised'[u] <= Len(Durable')
    BY DEF PromiseInv
  <2>1. promised[u] <= Len(submitted) /\ promised'[u] = promised[u] /\ submitted' = submitted
    BY <1>u DEF IInv, PromiseInv
  <2>2. pc'[u] \notin Holding
    BY <1>p, <1>h DEF Holding
  <2>3. promised[u] \in Nat
    BY <1>t DEF TypeOK
  <2>4. CASE u = t
    <3>1. promised[t] <= Len(Durable) + Len(profiles[t])
      BY <1>c DEF IInv, PromiseInv
    <3> QED
      BY <3>1, <2>4, <2>1, <2>2, <1>l
  <2>5. CASE u # t
    <3> SUFFICES ASSUME pc'[u] = "returned"
                 PROVE  promised[u] <= Len(Durable')
      BY <2>1, <2>2
    <3>1. promised[u] <= Len(Durable)
      BY <2>5, <1>p DEF IInv, PromiseInv
    <3> QED
      BY <3>1, <2>3, <1>l
  <2> QED
    BY <2>4, <2>5
<1>5. Ledger'
  <2>1. Durable' \o <<>> = Durable'
    BY <1>f, EmptyConcat
  <2> QED
    BY <2>1, <1>f, <1>i, <1>h, <1>u, <1>t DEF Ledger
<1> QED
  BY <1>1, <1>2, <1>3, <1>4, <1>5, <1>u DEF IInv, FileInv

LEMMA ReinsertInv ==
  ASSUME IInv, NEW t \in Threads, Reinsert(t)
  PROVE  IInv'
<1>t. TypeOK /\ MutexInv /\ Ledger
  BY DEF IInv
<1>c. pc[t] = "reinsert" /\ pc[t] \in Holding
  BY DEF Reinsert, Holding
<1>h. /\ write_mutex = t
      /\ InHand = profiles[t]
      /\ \A u \in Threads : u # t => pc[u] \notin Holding /\ profiles[u] = <<>>
  BY <1>t, <1>c, Holder
<1>s. /\ Durable \in Seq(Profile)
      /\ profiles[t] \in Seq(Profile)
      /\ pending_profiles \in Seq(Profile)
  BY <1>t, Sequences
<1>u. /\ UNCHANGED <<process, alive, found_file, submitted, profile_output_started, stream_ok,
                     promised, destroying, output_file, temporary_file, failures>>
      /\ pending_profiles' = profiles[t] \o pending_profiles
      /\ profiles' = [profiles EXCEPT ![t] = <<>>]
      /\ write_mutex' = None
      /\ pc' = [pc EXCEPT ![t] = "threw"]
  BY DEF Reinsert, Requeued, ReleasedBy, others, files
<1>p. \A u \in Threads : pc'[u] = IF u = t THEN "threw" ELSE pc[u]
  BY <1>u, <1>t DEF TypeOK
<1>q. \A u \in Threads : profiles'[u] = <<>>
  BY <1>u, <1>h, <1>t DEF TypeOK
<1>i. InHand' = <<>> /\ Durable' = Durable
  BY <1>u DEF InHand, Durable
<1>1. TypeOK'
  <2>1. pending_profiles' \in Seq(Profile)
    BY <1>u, <1>s, ConcatProperties
  <2>2. profiles' \in [Threads -> Seq(Profile)]
    BY <1>u, <1>t, EmptySeq DEF TypeOK
  <2> QED
    BY <2>1, <2>2, <1>u, <1>t DEF TypeOK
<1>2. MutexInv'
  BY <1>p, <1>q, <1>h, <1>u, ThreadAssumption DEF MutexInv, Holding
<1>3. TemporaryInv'
  BY <1>p, <1>h DEF TemporaryInv, Holding
<1>4. PromiseInv'
  <2>1. \A u \in Threads : pc'[u] \notin Holding
    BY <1>p, <1>h DEF Holding
  <2>2. \A u \in Threads : pc'[u] = "returned" => pc[u] = "returned"
    BY <1>p
  <2> QED
    BY <2>1, <2>2, <1>u, <1>i DEF IInv, PromiseInv
<1>5. Ledger'
  <2>1. Durable \o <<>> = Durable
    BY <1>s, EmptyConcat
  <2>2. (Durable \o profiles[t]) \o pending_profiles
          = Durable \o (profiles[t] \o pending_profiles)
    BY <1>s, ThreeParts
  <2> QED
    BY <2>1, <2>2, <1>i, <1>h, <1>u, <1>t DEF Ledger
<1> QED
  BY <1>1, <1>2, <1>3, <1>4, <1>5, <1>u DEF IInv, FileInv

-----------------------------------------------------------------------------
(* The theorems.                                                           *)

LEMMA StutterInv == IInv /\ UNCHANGED vars => IInv'
<1> SUFFICES ASSUME IInv, UNCHANGED vars PROVE IInv'
  OBVIOUS
<1> USE DEF vars, others, memory, files
<1>d. Durable' = Durable /\ InHand' = InHand
  BY DEF Durable, InHand
<1>1. TypeOK'
  BY DEF IInv, TypeOK
<1>2. MutexInv'
  BY DEF IInv, MutexInv
<1>3. TemporaryInv'
  BY <1>d DEF IInv, TemporaryInv
<1>4. PromiseInv'
  BY <1>d DEF IInv, PromiseInv
<1>5. Ledger' /\ FileInv'
  BY <1>d DEF IInv, Ledger, FileInv
<1> QED
  BY <1>1, <1>2, <1>3, <1>4, <1>5 DEF IInv

LEMMA WriterInv ==
  ASSUME IInv, NEW t \in Threads, WriterStep(t)
  PROVE  IInv'
<1>1. CASE LockWriter(t)       BY <1>1, LockInv
<1>2. CASE TakeQueue(t)        BY <1>2, TakeInv
<1>3. CASE OpenTemporary(t)    BY <1>3, OpenInv
<1>4. CASE CopyPrevious(t)     BY <1>4, CopyInv
<1>5. CASE WriteRows(t)        BY <1>5, RowsInv
<1>6. CASE FailWrite(t)        BY <1>6, FailWriteInv
<1>7. CASE CloseTemporary(t)   BY <1>7, CloseInv
<1>8. CASE RenameTemporary(t)  BY <1>8, RenameInv
<1>9. CASE FileError(t)        BY <1>9, ErrorInv
<1>10. CASE RemoveTemporary(t) BY <1>10, RemoveInv
<1>11. CASE Reinsert(t)        BY <1>11, ReinsertInv
<1> QED
  BY <1>1, <1>2, <1>3, <1>4, <1>5, <1>6, <1>7, <1>8, <1>9, <1>10, <1>11 DEF WriterStep

(* The invariant of ProfileWriterInv holds in every reachable state.       *)
THEOREM Inductive == Spec => []IInv
<1>1. Init => IInv
  BY InitInv
<1>2. IInv /\ [Next]_vars => IInv'
  <2> SUFFICES ASSUME IInv, [Next]_vars PROVE IInv'
    OBVIOUS
  <2>1. CASE SubmitProfile  BY <2>1, SubmitInv
  <2>2. CASE Destroy        BY <2>2, CallInv, ThreadAssumption
  <2>3. CASE Crash          BY <2>3, CrashInv
  <2>4. CASE StartProcess   BY <2>4, StartInv
  <2>5. ASSUME NEW t \in Threads, Call(t) \/ WriterStep(t) \/ Return(t)
        PROVE  IInv'
    BY <2>5, CallInv, WriterInv, ReturnInv
  <2>6. CASE UNCHANGED vars BY <2>6, StutterInv
  <2> QED
    BY <2>1, <2>2, <2>3, <2>4, <2>5, <2>6 DEF Next
<1> QED
  BY <1>1, <1>2, PTL DEF Spec

(* The types of the variables, for every set of threads.                   *)
THEOREM TypeCorrect == Spec => []TypeOK
<1>1. IInv => TypeOK
  BY DEF IInv
<1> QED
  BY <1>1, Inductive, PTL

(* No profile is lost, written twice or put out of order.                  *)
THEOREM NothingLost == Spec => []Ledger
<1>1. IInv => Ledger
  BY DEF IInv
<1> QED
  BY <1>1, Inductive, PTL

(* The file of the process holds some of the first profiles submitted.     *)
LEMMA DurablePrefix == IInv => Log!Prefix(Durable, submitted)
<1> SUFFICES ASSUME IInv PROVE Log!Prefix(Durable, submitted)
  OBVIOUS
<1>1. /\ Durable \in Seq(Profile)
      /\ InHand \in Seq(Profile)
      /\ pending_profiles \in Seq(Profile)
  BY Sequences DEF IInv
<1>2. Durable \o (InHand \o pending_profiles) = submitted
  <2>1. (Durable \o InHand) \o pending_profiles = Durable \o (InHand \o pending_profiles)
    BY <1>1, ThreeParts
  <2> QED
    BY <2>1 DEF IInv, Ledger
<1>3. InHand \o pending_profiles \in Seq(Profile)
  BY <1>1, ConcatProperties
<1> QED
  BY <1>1, <1>2, <1>3, ConcatPrefix

(* Whenever the process dies, the file is whole.                           *)
THEOREM WholeFile == Spec => []FileIntact
<1>1. IInv => FileIntact
  <2> SUFFICES ASSUME IInv PROVE FileIntact
    OBVIOUS
  <2>1. CASE profile_output_started
    BY <2>1, DurablePrefix DEF FileIntact, Durable
  <2>2. CASE ~profile_output_started
    BY <2>2 DEF FileIntact, IInv, FileInv
  <2> QED
    BY <2>1, <2>2
<1> QED
  BY <1>1, Inductive, PTL

(* A call returns normally only when what it found submitted is written.   *)
THEOREM PromiseKept == Spec => []ReturnsWhenWritten
<1>1. IInv => ReturnsWhenWritten
  BY DEF IInv, PromiseInv, ReturnsWhenWritten
<1> QED
  BY <1>1, Inductive, PTL

-----------------------------------------------------------------------------
(* The output implements ProfileLog.                                       *)

LEMMA LogInit == Init => Log!Init
BY DEF Init, Log!Init, Durable

LEMMA LogSubmit == IInv /\ SubmitProfile => Log!EndPhase
<1> SUFFICES ASSUME IInv, SubmitProfile PROVE Log!EndPhase
  OBVIOUS
<1> DEFINE p == <<process, Len(submitted) + 1>>
<1>1. submitted \in Seq(Profile) /\ p \in Profile
  BY Sequences, SMTT(30) DEF IInv, TypeOK, Profile
<1>2. submitted' = Append(submitted, p)
  BY DEF SubmitProfile
<1>3. Durable' = Durable
  BY DEF SubmitProfile, Durable, files
<1> HIDE DEF p
<1>4. Len(submitted') = Len(submitted) + 1 /\ Len(submitted) \in Nat
  BY <1>1, <1>2, LenProperties
<1>5. \A i \in 1 .. Len(submitted) : submitted[i] = submitted'[i]
  BY <1>1, <1>2, <1>4
<1>6. Log!Prefix(submitted, submitted')
  BY <1>4, <1>5 DEF Log!Prefix
<1> QED
  BY <1>3, <1>4, <1>6 DEF Log!EndPhase

LEMMA LogRename ==
  ASSUME IInv, NEW t \in Threads, RenameTemporary(t)
  PROVE  Log!Output
<1>1. /\ Durable' = Durable \o profiles[t]
      /\ profiles[t] # <<>>
      /\ profiles[t] \in Seq(Profile)
      /\ Durable \in Seq(Profile)
  BY RenameFile
<1>2. Log!Prefix(Durable, Durable')
  BY <1>1, ConcatPrefix
<1>3. Len(Durable) < Len(Durable')
  <2>1. Len(profiles[t]) \in Nat \ {0} /\ Len(Durable) \in Nat
    BY <1>1, EmptySeq, LenProperties
  <2>2. Len(Durable') = Len(Durable) + Len(profiles[t])
    BY <1>1, ConcatProperties
  <2> QED
    BY <2>1, <2>2
<1>4. submitted' = submitted
  BY DEF RenameTemporary
<1>5. Log!Prefix(Durable', submitted)
  <2>1. IInv'
    BY RenameInv
  <2>2. Log!Prefix(Durable, submitted)'
    BY <2>1, DurablePrefix, PTL
  <2> QED
    BY <2>2, <1>4
<1> QED
  BY <1>2, <1>3, <1>4, <1>5 DEF Log!Output

(* No other step of a thread touches the log.                              *)
LEMMA LogStutter ==
  ASSUME UNCHANGED <<submitted, profile_output_started, output_file>>
  PROVE  UNCHANGED Log!logVars
BY DEF Log!logVars, Durable

LEMMA LogStep == IInv /\ [Next]_vars => [Log!Next]_(Log!logVars)
<1> SUFFICES ASSUME IInv, [Next]_vars PROVE Log!Next \/ UNCHANGED Log!logVars
  OBVIOUS
<1>1. CASE SubmitProfile
  BY <1>1, LogSubmit DEF Log!Next
<1>2. CASE StartProcess
  BY <1>2 DEF StartProcess, StartMemory, Log!Next, Log!Restart, Durable
<1>3. ASSUME NEW t \in Threads, RenameTemporary(t)
      PROVE  Log!Next
  BY <1>3, LogRename DEF Log!Next
<1>4. ASSUME NEW t \in Threads, WriterStep(t), ~RenameTemporary(t)
      PROVE  UNCHANGED Log!logVars
  <2>1. UNCHANGED <<submitted, profile_output_started, output_file>>
    BY <1>4 DEF WriterStep, LockWriter, TakeQueue, OpenTemporary, CopyPrevious, WriteRows,
                FailWrite, CloseTemporary, FileError, RemoveTemporary, Reinsert, files
  <2> QED
    BY <2>1, LogStutter
<1>5. ASSUME NEW t \in Threads, Call(t) \/ Return(t)
      PROVE  UNCHANGED Log!logVars
  BY <1>5, LogStutter DEF Call, Return, files
<1>6. CASE Destroy \/ Crash \/ UNCHANGED vars
  BY <1>6, LogStutter DEF Destroy, Crash, vars, memory, files
<1> QED
  BY <1>1, <1>2, <1>3, <1>4, <1>5, <1>6 DEF Next

(* Every behaviour, whatever fails and whenever the process dies, is one   *)
(* that ProfileLog allows.                                                 *)
THEOREM Refinement == Spec => Log!Spec
<1> QED
  BY Inductive, LogInit, LogStep, PTL DEF Spec, Log!Spec
=============================================================================
