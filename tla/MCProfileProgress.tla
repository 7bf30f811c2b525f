-------------------------- MODULE MCProfileProgress --------------------------
(***************************************************************************)
(* What becomes of the progress() calls of the application in the profile. *)
(* README.md of the repository has them in the list of the operations      *)
(* profiling records statistics for ("user-visible progress calls"), and   *)
(* each row of the output has a number of calls; progress_worker() sets    *)
(* the worker scope and progresses the device, and records nothing.        *)
(***************************************************************************)
EXTENDS ProfileRecorder, TLC

CONSTANTS a, b, self

MCRecordCount == (a :> 1 @@ b :> 2 @@ self :> 3)
MCSymmetry == Permutations(Threads)

VARIABLE progress_calls   \* number of calls of progress() in the phase

CountingInit == Init /\ progress_calls = 0

CallsProgress == \E t \in Threads, w \in Worker : Progress(t, w)

CountingNext ==
  /\ Next
  /\ progress_calls' = IF CallsProgress THEN progress_calls + 1 ELSE progress_calls

CountingSpec == CountingInit /\ [][CountingNext]_<<vars, progress_calls>>

(* The aggregate row for progress has as many calls as the application has *)
(* made in the phase.  (README.md:179-182; progress_worker(),              *)
(* write_worker_rows().)                                                   *)
ProgressRecorded ==
  \A i \in 1 .. Len(submitted) :
    \A k \in DOMAIN Rows(submitted[i]) :
      LET row == Rows(submitted[i])[k] IN
      row.scope = Aggregate /\ row.operation = "progress" =>
        row.values["calls"] = progress_calls
=============================================================================
