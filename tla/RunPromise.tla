----------------------------- MODULE RunPromise -----------------------------
(***************************************************************************)
(* What a discovery run promises its operator, whatever its handlers,      *)
(* agents, watchers and sweeps do to each other:                           *)
(*   - a cancelled run stays cancelled, a discarded one stays discarded    *)
(*     and never works again;                                              *)
(*   - a completed run is left only by a cancel, a paused one only by a    *)
(*     resume or a cancel;                                                 *)
(*   - attempts are numbered one by one, each started from a run that had  *)
(*     failed or paused;                                                   *)
(*   - the run points at no result, or at one of its current attempt, and  *)
(*     once it points at one that attempt writes to the run no more.       *)
(* A failed run may come back to work on the same attempt: the startup     *)
(* sweep guesses that runs died, and an agent may prove it wrong.          *)
(***************************************************************************)
EXTENDS Integers

VARIABLES status, attempt, discarded, discovery

promiseVars == <<status, attempt, discarded, discovery>>

NoResult == 0

PromiseInit == /\ status = "pending"
               /\ attempt = 1
               /\ discarded = FALSE
               /\ discovery = NoResult

\* The attempt may still write to the run.
Unsettled == /\ status \in {"pending", "running", "failed"}
             /\ ~discarded
             /\ discovery = NoResult

Works == /\ Unsettled
         /\ status' = "running"
         /\ UNCHANGED <<attempt, discarded, discovery>>

Completes == /\ Unsettled
             /\ status' = "completed"
             /\ discovery' = attempt
             /\ UNCHANGED <<attempt, discarded>>

Fails == /\ status \in {"pending", "running"}
         /\ discovery = NoResult
         /\ status' = "failed"
         /\ discovery' \in {NoResult, attempt}
         /\ UNCHANGED <<attempt, discarded>>

Pauses == /\ status = "running"
          /\ ~discarded
          /\ status' = "paused"
          /\ UNCHANGED <<attempt, discarded, discovery>>

Resumes == /\ status \in {"failed", "paused"}
           /\ ~discarded
           /\ status' = "running"
           /\ attempt' = attempt + 1
           /\ discovery' = NoResult
           /\ UNCHANGED discarded

Cancels == /\ status' = "cancelled"
           /\ UNCHANGED <<attempt, discarded, discovery>>

Discards == /\ status \in {"failed", "cancelled"}
            /\ discovery = NoResult
            /\ discarded' = TRUE
            /\ UNCHANGED <<status, attempt, discovery>>

PromiseNext == \/ Works \/ Completes \/ Fails \/ Pauses
               \/ Resumes \/ Cancels \/ Discards

PromiseSpec == PromiseInit /\ [][PromiseNext]_promiseVars

=============================================================================
