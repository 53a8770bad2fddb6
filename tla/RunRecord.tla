------------------------------ MODULE RunRecord ------------------------------
(***************************************************************************)
(* The discovery_runs document of one run, and every write the two         *)
(* services make to its lifecycle fields.  Each write is one MongoDB       *)
(* UpdateOne / FindOneAndUpdate: a filter (XMatches) and the document it   *)
(* leaves behind (X).  A document the filter misses is left as it is,      *)
(* which is what MongoDB does, so X(doc) = doc unless XMatches(doc).       *)
(*                                                                         *)
(* The API's writes are in services/api/database/run_repo.go, the agent's  *)
(* in services/agent/internal/database/run_repo.go.                        *)
(*                                                                         *)
(* An operator next to another one and named for how it differs from it    *)
(* (FailAttemptUnfenced, ...) is that operator with a bug: the properties  *)
(* are checked to notice it.  Nothing else uses those.                     *)
(***************************************************************************)
EXTENDS Integers

CONSTANT MaxAttempt   \* the highest attempt number a run is resumed to

ASSUME MaxAttemptAssumption == MaxAttempt \in Nat \ {0}

Attempts == 1..MaxAttempt

\* The attempt a document records; 0 is a document written before the counter
\* existed, in which the field is absent.
RecordedAttempts == 0..MaxAttempt

Status == {"pending", "running", "paused", "completed", "failed", "cancelled"}

NoRequest == -1       \* no pause is pending
NoDiscovery == 0      \* discovery_id is not set

\* pausable abstracts `phase` to RunPhaseAcceptsPause(phase); pauseReq is
\* pause_requested_attempt, or NoRequest when pause_requested_at is unset;
\* lapsed says that pause_deadline_at has passed; discovery names a result by
\* the attempt that saved it; marker is last_checkpoint_step > 0; hooks is
\* completion_hooks_fired_at being set.
RunDoc == [status    : Status,
           attempt   : RecordedAttempts,
           pausable  : BOOLEAN,
           discarded : BOOLEAN,
           pauseReq  : {NoRequest} \cup RecordedAttempts,
           lapsed    : BOOLEAN,
           discovery : {NoDiscovery} \cup Attempts,
           marker    : BOOLEAN,
           hooks     : BOOLEAN]

Created == [status |-> "pending", attempt |-> 1, pausable |-> TRUE,
            discarded |-> FALSE, pauseReq |-> NoRequest, lapsed |-> FALSE,
            discovery |-> NoDiscovery, marker |-> FALSE, hooks |-> FALSE]

-----------------------------------------------------------------------------
(* Reading a document.                                                     *)

Active(doc)    == doc.status \in {"pending", "running"}
Terminal(doc)  == doc.status \in {"completed", "failed", "cancelled"}
Resumable(doc) == doc.status \in {"failed", "paused"}

\* A document without the counter can only be on its first attempt.
CurrentAttempt(doc) == IF doc.attempt = 0 THEN 1 ELSE doc.attempt

\* attemptFence (API): 1, 0 and an absent field are the same run.
AttemptFence(doc, n) == IF n > 1 THEN doc.attempt = n
                                 ELSE doc.attempt \in {0, 1}

\* attemptFilter (agent): n <= 0 means "unknown" and matches any attempt.
AttemptFilterMissing(doc, n) == TRUE
AttemptFilter(doc, n) == CASE n = 1 -> doc.attempt \in {0, 1}
                           [] n > 1 -> doc.attempt = n
                           [] OTHER -> TRUE

PauseIsHonourable(doc) == /\ doc.pauseReq # NoRequest
                          /\ ~doc.lapsed
                          /\ doc.pauseReq \in {0, CurrentAttempt(doc)}

\* RunRepository.Ownership, in the order it asks its questions.
Ownership(doc, n) ==
  IF doc.status = "cancelled" THEN "cancelled"
  ELSE IF doc.discarded THEN "discarded"
  ELSE IF n > 0 /\ CurrentAttempt(doc) # n THEN "taken_over"
  ELSE IF PauseIsHonourable(doc) THEN "pause_requested"
  ELSE "owned"

-----------------------------------------------------------------------------
(* The API's writes.                                                       *)

WithoutPause(doc) == [doc EXCEPT !.pauseReq = NoRequest, !.lapsed = FALSE]

\* The $set and $unset Fail, FailAttempt and CleanupStaleRuns share.
MarkedFailed(doc) == [WithoutPause(doc) EXCEPT !.status = "failed"]

Fail(doc) == IF Active(doc) THEN MarkedFailed(doc) ELSE doc

FailAttemptUnfenced(doc, n) == Fail(doc)
FailAttempt(doc, n) ==
  IF Active(doc) /\ AttemptFence(doc, n) THEN MarkedFailed(doc) ELSE doc

CleanupStaleRuns(doc) == IF Active(doc) THEN MarkedFailed(doc) ELSE doc

Cancel(doc) == [WithoutPause(doc) EXCEPT !.status = "cancelled"]

\* The attempt BeginResume computes from the document it read.
NextAttempt(n) == IF n + 1 < 2 THEN 2 ELSE n + 1

BeginResumeMatchesUnfenced(doc, read) == Resumable(doc) /\ ~doc.discarded
BeginResumeMatches(doc, read) == /\ Resumable(doc)
                                 /\ ~doc.discarded
                                 /\ doc.attempt = read

BeginResume(doc, read) ==
  [WithoutPause(doc) EXCEPT !.status = "running", !.pausable = TRUE,
                            !.attempt = NextAttempt(read),
                            !.discovery = NoDiscovery, !.hooks = FALSE]

ClearExplorationCheckpointMarker(doc) ==
  IF Resumable(doc) THEN [doc EXCEPT !.marker = FALSE] ELSE doc

RequestPauseMatches(doc, read) == /\ Active(doc)
                                  /\ ~doc.discarded
                                  /\ doc.pauseReq = NoRequest \/ doc.lapsed
                                  /\ AttemptFence(doc, read)

RequestPause(doc, read) ==
  IF RequestPauseMatches(doc, read)
  THEN [doc EXCEPT !.pauseReq = read, !.lapsed = FALSE]
  ELSE doc

DiscardMatches(doc, read) == /\ doc.status \in {"failed", "cancelled"}
                             /\ doc.discovery = NoDiscovery
                             /\ ~doc.discarded
                             /\ AttemptFence(doc, read)

Discarded(doc) == [doc EXCEPT !.discarded = TRUE, !.marker = FALSE]

MarkCompletionHooksFiredUnfenced(doc, read) ==
  IF Terminal(doc) THEN [doc EXCEPT !.hooks = TRUE] ELSE doc
MarkCompletionHooksFired(doc, read) ==
  IF /\ Terminal(doc)
     /\ IF read <= 1 THEN doc.attempt \in {0, 1} ELSE doc.attempt = read
  THEN [doc EXCEPT !.hooks = TRUE]
  ELSE doc

-----------------------------------------------------------------------------
(* The agent's writes.  n is the attempt the agent process runs as.        *)

\* The filter UpdateStatus, Complete and MarkExplorationCheckpoint share:
\* `failed` stays matchable, because the startup sweep marks runs failed whose
\* agents are still working.
StillWritableIgnoresCancel(doc, n) == AttemptFilter(doc, n) /\ ~doc.discarded
StillWritable(doc, n) == /\ AttemptFilter(doc, n)
                         /\ doc.status # "cancelled"
                         /\ ~doc.discarded

UpdateStatusSwapped(doc, n, pausable) ==
  [doc EXCEPT !.status = "exploration", !.pausable = pausable]
UpdateStatus(doc, n, pausable) ==
  IF StillWritable(doc, n)
  THEN [doc EXCEPT !.status = "running", !.pausable = pausable]
  ELSE doc

\* The discovery_id is the result this attempt saved.
Complete(doc, n) ==
  IF StillWritable(doc, n)
  THEN [doc EXCEPT !.status = "completed", !.pausable = FALSE,
                   !.discovery = n, !.marker = FALSE]
  ELSE doc

AgentFailMatches(doc, n) == AttemptFilter(doc, n) /\ Active(doc)

AgentFail(doc, n) ==
  IF AgentFailMatches(doc, n)
  THEN [doc EXCEPT !.status = "failed", !.discovery = n]
  ELSE doc

MarkExplorationCheckpoint(doc, n) ==
  IF StillWritable(doc, n) THEN [doc EXCEPT !.marker = TRUE] ELSE doc

PauseMatches(doc, n) == /\ AttemptFilter(doc, n)
                        /\ doc.status = "running"
                        /\ ~doc.discarded

Pause(doc, n) ==
  IF PauseMatches(doc, n)
  THEN [WithoutPause(doc) EXCEPT !.status = "paused", !.marker = TRUE]
  ELSE doc

=============================================================================
