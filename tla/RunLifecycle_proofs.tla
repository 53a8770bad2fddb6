------------------------ MODULE RunLifecycle_proofs -------------------------
(***************************************************************************)
(* Theorems about RunLifecycle, for any number of attempts, requests,      *)
(* steps, restarts and faults: superseded attempts are mute, no attempt    *)
(* starts twice, a run's result is stored, the code deletes no prefix but  *)
(* of a run that ended or of a cancel that failed, a paused run has its    *)
(* prefix unless that or its retention took it, the hook stamp is the      *)
(* current attempt's, the results it is left with are its owner's, and the *)
(* run is a run as RunPromise describes it.  HandedOnce, RunInv, HooksInv  *)
(* and ResultsInv are the inductive invariants.                            *)
(***************************************************************************)
EXTENDS RunLifecycle, TLAPS

-----------------------------------------------------------------------------
(* What the writes of RunRecord do to a document, for every document: they *)
(* keep it a document, and a write fenced on an attempt leaves alone a     *)
(* document that is on another one.                                        *)

\* The API's writes return a document: Fail, FailAttempt, CleanupStaleRuns,
\* Cancel, ClearExplorationCheckpointMarker, Discard and the hook stamp.
LEMMA ApiWritesType ==
  ASSUME NEW doc \in RunDoc, NEW n \in RecordedAttempts
  PROVE  /\ Fail(doc) \in RunDoc
         /\ FailAttempt(doc, n) \in RunDoc
         /\ CleanupStaleRuns(doc) \in RunDoc
         /\ Cancel(doc) \in RunDoc
         /\ ClearExplorationCheckpointMarker(doc) \in RunDoc
         /\ Discarded(doc) \in RunDoc
         /\ MarkCompletionHooksFired(doc, n) \in RunDoc
<1> USE DEF RunDoc, Status, WithoutPause, MarkedFailed
<1>1. MarkedFailed(doc) \in RunDoc
  OBVIOUS
<1>2. Fail(doc) \in RunDoc /\ FailAttempt(doc, n) \in RunDoc
  BY <1>1 DEF Fail, FailAttempt
<1>3. CleanupStaleRuns(doc) \in RunDoc
  BY <1>1 DEF CleanupStaleRuns
<1>4. Cancel(doc) \in RunDoc
  BY DEF Cancel
<1>5. ClearExplorationCheckpointMarker(doc) \in RunDoc
  BY DEF ClearExplorationCheckpointMarker
<1>6. Discarded(doc) \in RunDoc
  BY DEF Discarded
<1>7. MarkCompletionHooksFired(doc, n) \in RunDoc
  BY DEF MarkCompletionHooksFired
<1>8. QED
  BY <1>2, <1>3, <1>4, <1>5, <1>6, <1>7

\* A pause request returns a document, and records the attempt it was read for.
LEMMA RequestPauseType ==
  ASSUME NEW doc \in RunDoc, NEW read \in RecordedAttempts
  PROVE  RequestPause(doc, read) \in RunDoc
BY DEF RunDoc, Status, RequestPause

\* A resume within the bound returns a document, on an attempt after the first.
LEMMA BeginResumeType ==
  ASSUME NEW doc \in RunDoc, NEW read \in RecordedAttempts,
         NextAttempt(read) <= MaxAttempt
  PROVE  /\ BeginResume(doc, read) \in RunDoc
         /\ NextAttempt(read) \in Attempts
         /\ NextAttempt(read) >= 2
         /\ NextAttempt(read) > read
<1>1. NextAttempt(read) \in Attempts /\ NextAttempt(read) >= 2
                                     /\ NextAttempt(read) > read
  BY MaxAttemptAssumption DEF NextAttempt, Attempts, RecordedAttempts
<1>2. NextAttempt(read) \in RecordedAttempts
  BY <1>1, MaxAttemptAssumption DEF Attempts, RecordedAttempts
<1>3. BeginResume(doc, read) \in RunDoc
  BY <1>2 DEF BeginResume, WithoutPause, RunDoc, Status
<1>4. QED
  BY <1>1, <1>3

\* The agent's writes return a document.
LEMMA UpdateStatusType ==
  ASSUME NEW doc \in RunDoc, NEW n \in Attempts, NEW pausable \in BOOLEAN
  PROVE  UpdateStatus(doc, n, pausable) \in RunDoc
BY DEF UpdateStatus, RunDoc, Status

\* The agent's writes keep the document's type.
LEMMA AgentWritesType ==
  ASSUME NEW doc \in RunDoc, NEW n \in Attempts
  PROVE  /\ Complete(doc, n) \in RunDoc
         /\ AgentFail(doc, n) \in RunDoc
         /\ MarkExplorationCheckpoint(doc, n) \in RunDoc
         /\ Pause(doc, n) \in RunDoc
<1> USE DEF RunDoc, Status
<1>1. Complete(doc, n) \in RunDoc
  BY DEF Complete
<1>2. AgentFail(doc, n) \in RunDoc
  BY DEF AgentFail
<1>3. MarkExplorationCheckpoint(doc, n) \in RunDoc
  BY DEF MarkExplorationCheckpoint
<1>4. Pause(doc, n) \in RunDoc
  BY DEF Pause, WithoutPause
<1>5. QED
  BY <1>1, <1>2, <1>3, <1>4

\* The two fences are one: both match exactly the documents whose current
\* attempt, counting a document without the counter as on its first, is n.
LEMMA FencesAgree ==
  ASSUME NEW doc \in RunDoc, NEW n \in Attempts
  PROVE  /\ AttemptFence(doc, n) <=> CurrentAttempt(doc) = n
         /\ AttemptFilter(doc, n) <=> CurrentAttempt(doc) = n
BY MaxAttemptAssumption
   DEF RunDoc, RecordedAttempts, Attempts, AttemptFence, AttemptFilter,
       CurrentAttempt

\* A write fenced on attempt n leaves alone a document on another attempt.
LEMMA FencedWritesMissOthers ==
  ASSUME NEW doc \in RunDoc, NEW n \in Attempts, NEW pausable \in BOOLEAN,
         CurrentAttempt(doc) # n
  PROVE  /\ FailAttempt(doc, n) = doc
         /\ UpdateStatus(doc, n, pausable) = doc
         /\ Complete(doc, n) = doc
         /\ AgentFail(doc, n) = doc
         /\ MarkExplorationCheckpoint(doc, n) = doc
         /\ Pause(doc, n) = doc
<1>1. ~AttemptFence(doc, n) /\ ~AttemptFilter(doc, n)
  BY FencesAgree
<1>2. QED
  BY <1>1 DEF FailAttempt, UpdateStatus, Complete, AgentFail, AgentFailMatches,
              MarkExplorationCheckpoint, Pause, PauseMatches, StillWritable

\* Only a resume moves a run to another attempt.
LEMMA WritesKeepAttempt ==
  ASSUME NEW doc \in RunDoc, NEW n \in RecordedAttempts, NEW pausable \in BOOLEAN
  PROVE  /\ Fail(doc).attempt = doc.attempt
         /\ FailAttempt(doc, n).attempt = doc.attempt
         /\ CleanupStaleRuns(doc).attempt = doc.attempt
         /\ Cancel(doc).attempt = doc.attempt
         /\ ClearExplorationCheckpointMarker(doc).attempt = doc.attempt
         /\ RequestPause(doc, n).attempt = doc.attempt
         /\ Discarded(doc).attempt = doc.attempt
         /\ MarkCompletionHooksFired(doc, n).attempt = doc.attempt
         /\ UpdateStatus(doc, n, pausable).attempt = doc.attempt
         /\ Complete(doc, n).attempt = doc.attempt
         /\ AgentFail(doc, n).attempt = doc.attempt
         /\ MarkExplorationCheckpoint(doc, n).attempt = doc.attempt
         /\ Pause(doc, n).attempt = doc.attempt
<1> USE DEF RunDoc, WithoutPause, MarkedFailed
<1>1. /\ Fail(doc).attempt = doc.attempt
      /\ FailAttempt(doc, n).attempt = doc.attempt
      /\ CleanupStaleRuns(doc).attempt = doc.attempt
      /\ Cancel(doc).attempt = doc.attempt
  BY DEF Fail, FailAttempt, CleanupStaleRuns, Cancel
<1>2. /\ ClearExplorationCheckpointMarker(doc).attempt = doc.attempt
      /\ RequestPause(doc, n).attempt = doc.attempt
      /\ Discarded(doc).attempt = doc.attempt
      /\ MarkCompletionHooksFired(doc, n).attempt = doc.attempt
  BY DEF ClearExplorationCheckpointMarker, RequestPause, Discarded,
         MarkCompletionHooksFired
<1>3. /\ UpdateStatus(doc, n, pausable).attempt = doc.attempt
      /\ Complete(doc, n).attempt = doc.attempt
      /\ AgentFail(doc, n).attempt = doc.attempt
  BY DEF UpdateStatus, Complete, AgentFail
<1>4. /\ MarkExplorationCheckpoint(doc, n).attempt = doc.attempt
      /\ Pause(doc, n).attempt = doc.attempt
  BY DEF MarkExplorationCheckpoint, Pause
<1>5. QED
  BY <1>1, <1>2, <1>3, <1>4

\* No write but the dispatcher's touches the completion-hook stamp, a resume apart,
\* which clears it.
LEMMA WritesKeepHooks ==
  ASSUME NEW doc \in RunDoc, NEW n \in RecordedAttempts, NEW pausable \in BOOLEAN
  PROVE  /\ Fail(doc).hooks = doc.hooks
         /\ FailAttempt(doc, n).hooks = doc.hooks
         /\ CleanupStaleRuns(doc).hooks = doc.hooks
         /\ Cancel(doc).hooks = doc.hooks
         /\ ClearExplorationCheckpointMarker(doc).hooks = doc.hooks
         /\ RequestPause(doc, n).hooks = doc.hooks
         /\ Discarded(doc).hooks = doc.hooks
         /\ UpdateStatus(doc, n, pausable).hooks = doc.hooks
         /\ Complete(doc, n).hooks = doc.hooks
         /\ AgentFail(doc, n).hooks = doc.hooks
         /\ MarkExplorationCheckpoint(doc, n).hooks = doc.hooks
         /\ Pause(doc, n).hooks = doc.hooks
         /\ BeginResume(doc, n).hooks = FALSE
<1> USE DEF RunDoc, WithoutPause, MarkedFailed
<1>1. /\ Fail(doc).hooks = doc.hooks
      /\ FailAttempt(doc, n).hooks = doc.hooks
      /\ CleanupStaleRuns(doc).hooks = doc.hooks
      /\ Cancel(doc).hooks = doc.hooks
  BY DEF Fail, FailAttempt, CleanupStaleRuns, Cancel
<1>2. /\ ClearExplorationCheckpointMarker(doc).hooks = doc.hooks
      /\ RequestPause(doc, n).hooks = doc.hooks
      /\ Discarded(doc).hooks = doc.hooks
      /\ BeginResume(doc, n).hooks = FALSE
  BY DEF ClearExplorationCheckpointMarker, RequestPause, Discarded, BeginResume
<1>3. /\ UpdateStatus(doc, n, pausable).hooks = doc.hooks
      /\ Complete(doc, n).hooks = doc.hooks
      /\ AgentFail(doc, n).hooks = doc.hooks
  BY DEF UpdateStatus, Complete, AgentFail
<1>4. /\ MarkExplorationCheckpoint(doc, n).hooks = doc.hooks
      /\ Pause(doc, n).hooks = doc.hooks
  BY DEF MarkExplorationCheckpoint, Pause
<1> QED  BY <1>1, <1>2, <1>3, <1>4

\* A resume that matches moves the run to an attempt after its current one.
LEMMA BeginResumeAdvances ==
  ASSUME NEW doc \in RunDoc, NEW read \in RecordedAttempts,
         BeginResumeMatches(doc, read)
  PROVE  /\ BeginResume(doc, read).attempt = NextAttempt(read)
         /\ NextAttempt(read) > CurrentAttempt(doc)
<1>1. doc.attempt = read /\ read \in Int
  BY MaxAttemptAssumption DEF BeginResumeMatches, RecordedAttempts
<1>2. NextAttempt(read) > CurrentAttempt(doc)
  BY <1>1 DEF NextAttempt, CurrentAttempt
<1>3. BeginResume(doc, read).attempt = NextAttempt(read)
  BY DEF BeginResume, WithoutPause, RunDoc
<1>4. QED
  BY <1>2, <1>3

-----------------------------------------------------------------------------
(* The kinds of writes: what a write does to the fields the properties of a *)
(* run are about, and from which documents it does it.                     *)

Keeps(d, e) == e.attempt = d.attempt /\ e.discarded = d.discarded

\* Nothing of it; a pause is asked of active runs only.
Quiet(d, e) == /\ Keeps(d, e) /\ e.status = d.status /\ e.discovery = d.discovery
               /\ e.pauseReq = d.pauseReq \/ Active(d)

FailsActive(d, e) == /\ Active(d)
                     /\ Keeps(d, e) /\ e.status = "failed" /\ e.discovery = d.discovery

Cancels(d, e) == Keeps(d, e) /\ e.status = "cancelled" /\ e.discovery = d.discovery

Discards(d, e) == /\ d.status \in {"failed", "cancelled"} /\ d.discovery = NoDiscovery
                  /\ e.attempt = d.attempt /\ e.discarded = TRUE
                  /\ e.status = d.status /\ e.discovery = d.discovery

Resumes(d, e) == /\ Resumable(d) /\ ~d.discarded
                 /\ e.attempt = CurrentAttempt(d) + 1 /\ e.discarded = d.discarded
                 /\ e.status = "running" /\ e.discovery = NoDiscovery

\* What an agent of attempt n does to a run that is still its own.
Works(d, e, n) == /\ CurrentAttempt(d) = n /\ d.status # "cancelled" /\ ~d.discarded
                  /\ Keeps(d, e) /\ e.status = "running" /\ e.discovery = d.discovery

Completes(d, e, n) == /\ CurrentAttempt(d) = n /\ d.status # "cancelled" /\ ~d.discarded
                      /\ Keeps(d, e) /\ e.status = "completed" /\ e.discovery = n

FailsOwn(d, e, n) == /\ CurrentAttempt(d) = n /\ Active(d)
                     /\ Keeps(d, e) /\ e.status = "failed" /\ e.discovery = n

Pauses(d, e, n) == /\ CurrentAttempt(d) = n /\ d.status = "running" /\ ~d.discarded
                   /\ Keeps(d, e) /\ e.status = "paused" /\ e.discovery = d.discovery
                   /\ e.pauseReq = NoRequest

\* The API's writes, by kind.
LEMMA ApiWriteKinds ==
  ASSUME NEW doc \in RunDoc, NEW n \in RecordedAttempts
  PROVE  /\ Quiet(doc, doc)
         /\ Quiet(doc, Fail(doc)) \/ FailsActive(doc, Fail(doc))
         /\ Quiet(doc, FailAttempt(doc, n)) \/ FailsActive(doc, FailAttempt(doc, n))
         /\ Quiet(doc, CleanupStaleRuns(doc)) \/ FailsActive(doc, CleanupStaleRuns(doc))
         /\ Cancels(doc, Cancel(doc))
         /\ Quiet(doc, ClearExplorationCheckpointMarker(doc))
         /\ Quiet(doc, RequestPause(doc, n))
         /\ Quiet(doc, MarkCompletionHooksFired(doc, n))
         /\ Quiet(doc, [doc EXCEPT !.lapsed = TRUE])
         /\ DiscardMatches(doc, n) => Discards(doc, Discarded(doc))
         /\ BeginResumeMatches(doc, n) => Resumes(doc, BeginResume(doc, n))
<1> USE DEF RunDoc, Keeps, Quiet, WithoutPause, MarkedFailed
<1>1. /\ Quiet(doc, doc)
      /\ Quiet(doc, ClearExplorationCheckpointMarker(doc))
      /\ Quiet(doc, MarkCompletionHooksFired(doc, n))
      /\ Quiet(doc, [doc EXCEPT !.lapsed = TRUE])
  BY DEF ClearExplorationCheckpointMarker, MarkCompletionHooksFired
<1>2. Quiet(doc, RequestPause(doc, n))
  BY DEF RequestPause, RequestPauseMatches
<1>3. /\ Quiet(doc, Fail(doc)) \/ FailsActive(doc, Fail(doc))
      /\ Quiet(doc, FailAttempt(doc, n)) \/ FailsActive(doc, FailAttempt(doc, n))
      /\ Quiet(doc, CleanupStaleRuns(doc)) \/ FailsActive(doc, CleanupStaleRuns(doc))
  BY DEF Fail, FailAttempt, CleanupStaleRuns, FailsActive
<1>4. Cancels(doc, Cancel(doc))
  BY DEF Cancel, Cancels
<1>5. DiscardMatches(doc, n) => Discards(doc, Discarded(doc))
  BY DEF DiscardMatches, Discarded, Discards
<1>6. BeginResumeMatches(doc, n) => Resumes(doc, BeginResume(doc, n))
  <2> SUFFICES ASSUME BeginResumeMatches(doc, n) PROVE Resumes(doc, BeginResume(doc, n))
    OBVIOUS
  <2>1. doc.attempt = n /\ n \in Nat
    BY MaxAttemptAssumption DEF BeginResumeMatches, RecordedAttempts
  <2>2. NextAttempt(n) = CurrentAttempt(doc) + 1
    BY <2>1 DEF NextAttempt, CurrentAttempt
  <2> QED  BY <2>2 DEF BeginResumeMatches, BeginResume, Resumes
<1> QED  BY <1>1, <1>2, <1>3, <1>4, <1>5, <1>6

\* The agent's writes, by kind: what its fences let through is its own.
LEMMA AgentWriteKinds ==
  ASSUME NEW doc \in RunDoc, NEW n \in Attempts, NEW pausable \in BOOLEAN
  PROVE  /\ Quiet(doc, MarkExplorationCheckpoint(doc, n))
         /\ \/ Quiet(doc, UpdateStatus(doc, n, pausable))
            \/ Works(doc, UpdateStatus(doc, n, pausable), n)
         /\ IF StillWritable(doc, n) THEN Completes(doc, Complete(doc, n), n)
                                     ELSE Complete(doc, n) = doc
         /\ IF AgentFailMatches(doc, n) THEN FailsOwn(doc, AgentFail(doc, n), n)
                                        ELSE AgentFail(doc, n) = doc
         /\ Pause(doc, n) = doc \/ Pauses(doc, Pause(doc, n), n)
<1> USE FencesAgree DEF RunDoc, Keeps, StillWritable
<1>1. Quiet(doc, MarkExplorationCheckpoint(doc, n))
  BY DEF MarkExplorationCheckpoint, Quiet
<1>2. \/ Quiet(doc, UpdateStatus(doc, n, pausable))
      \/ Works(doc, UpdateStatus(doc, n, pausable), n)
  BY DEF UpdateStatus, Quiet, Works
<1>3. IF StillWritable(doc, n) THEN Completes(doc, Complete(doc, n), n)
                               ELSE Complete(doc, n) = doc
  BY DEF Complete, Completes
<1>4. IF AgentFailMatches(doc, n) THEN FailsOwn(doc, AgentFail(doc, n), n)
                                  ELSE AgentFail(doc, n) = doc
  BY DEF AgentFail, AgentFailMatches, FailsOwn
<1>5. Pause(doc, n) = doc \/ Pauses(doc, Pause(doc, n), n)
  BY DEF Pause, PauseMatches, Pauses, WithoutPause
<1> QED  BY <1>1, <1>2, <1>3, <1>4, <1>5

-----------------------------------------------------------------------------
(* Type correctness.                                                       *)

\* The initial states are of the right types.
LEMMA InitType == Init => TypeOK
<1> SUFFICES ASSUME Init PROVE TypeOK
  OBVIOUS
<1>1. run \in RunDoc
  <2>1. Created \in RunDoc
    BY MaxAttemptAssumption
       DEF Created, RunDoc, Status, RecordedAttempts, NoRequest, NoDiscovery
  <2>2. [Created EXCEPT !.attempt = 0] \in RunDoc
    BY <2>1, MaxAttemptAssumption DEF RunDoc, RecordedAttempts
  <2>3. QED
    BY <2>1, <2>2 DEF Init
<1>2. agent \in [Attempts -> AgentPc] /\ starter \in StarterPc
  BY DEF Init, AgentPc, Gone, StarterPc
<1>3. req \in [Requests -> ReqPc]
  BY DEF Init, ReqPc
<1>4. seen \in [Requests -> [attempt : RecordedAttempts, status : Status]]
  BY MaxAttemptAssumption DEF Init, Idle, RecordedAttempts, Status
<1>5. /\ results \subseteq Attempts /\ gap \subseteq Attempts
       /\ pauseSeen \subseteq Attempts /\ watched \subseteq Attempts
       /\ dispatched \subseteq RecordedAttempts \X Status
       /\ checkpoints \in BOOLEAN /\ mishaps \subseteq Mishap
  BY DEF Init
<1>6. /\ step \in [Attempts -> 0..MaxSteps]
       /\ restarts \in 0..MaxRestarts /\ faults \in 0..MaxFaults
  BY BoundsAssumption DEF Init
<1>7. \A a \in Attempts : agent[a] \in {"none", "loaded"}
  BY DEF Init
<1>8. \A q \in Resumers : ~At(q, "flipped")
  BY DEF Init, At, Requests
<1>9. QED
  BY <1>1, <1>2, <1>3, <1>4, <1>5, <1>6, <1>7, <1>8 DEF TypeOK

\* Every step of an agent.
LEMMA AgentStepType ==
  ASSUME TypeOK, NEW a \in Attempts, AgentStep(a) \/ AgentDies(a)
  PROVE  TypeOK'
<1> USE DEF TypeOK, apiVars, AgentPc, Gone, Goto, At
<1>1. CASE LoadResumeState(a)
  BY <1>1 DEF LoadResumeState, agentOnly
<1>2. CASE BeginExploration(a)
  BY <1>2, UpdateStatusType DEF BeginExploration
<1>3. CASE StopBeforeIndex(a)
  BY <1>3 DEF StopBeforeIndex, agentOnly
<1>4. CASE StepGate(a)
  BY <1>4, BoundsAssumption DEF StepGate, agentOnly, GateReads, Fault, NoFault
<1>5. CASE SaveStep(a)
  <2>1. faults' \in 0..MaxFaults
    BY <1>5, BoundsAssumption DEF SaveStep, Fault, NoFault
  <2>2. step' \in [Attempts -> 0..MaxSteps]
    BY <1>5, BoundsAssumption DEF SaveStep
  <2>3. checkpoints' \in BOOLEAN
    BY <1>5 DEF SaveStep
  <2>4. QED
    BY <1>5, <2>1, <2>2, <2>3 DEF SaveStep
<1>6. CASE MarkStep(a)
  <2>1. run' \in RunDoc
    BY <1>6, AgentWritesType DEF MarkStep
  <2>2. faults' \in 0..MaxFaults
    BY <1>6, BoundsAssumption DEF MarkStep, Fault, NoFault
  <2>3. QED
    BY <1>6, <2>1, <2>2 DEF MarkStep
<1>7. CASE FinishStep(a)
  <2>1. run' \in RunDoc
    BY <1>7, UpdateStatusType DEF FinishStep
  <2>2. step' \in [Attempts -> 0..MaxSteps]
    BY <1>7, BoundsAssumption DEF FinishStep
  <2>3. QED
    BY <1>7, <2>1, <2>2 DEF FinishStep
<1>8. CASE RecordPause(a)
  <2>1. run' \in RunDoc
    BY <1>8, AgentWritesType DEF RecordPause
  <2>2. faults' \in 0..MaxFaults
    BY <1>8, BoundsAssumption DEF RecordPause, Fault, NoFault
  <2>3. QED
    BY <1>8, <2>1, <2>2 DEF RecordPause
<1>9. CASE FinishExploration(a)
  BY <1>9, BoundsAssumption
     DEF FinishExploration, agentOnly, GateReads, Fault, NoFault
<1>10. CASE BeginAnalysis(a)
  BY <1>10, UpdateStatusType DEF BeginAnalysis
<1>11. CASE AreaGate(a)
  BY <1>11 DEF AreaGate, agentOnly
<1>12. CASE OwnershipGate(a)
  BY <1>12, BoundsAssumption
     DEF OwnershipGate, agentOnly, GateReads, Fault, NoFault
<1>13. CASE BeginRecommendations(a)
  BY <1>13, UpdateStatusType DEF BeginRecommendations
<1>14. CASE SaveResult(a)
  BY <1>14, UpdateStatusType DEF SaveResult
<1>15. CASE IndexResult(a)
  BY <1>15, UpdateStatusType DEF IndexResult
<1>16. CASE TerminalComplete(a)
  <2>1. run' \in RunDoc
    BY <1>16, AgentWritesType DEF TerminalComplete
  <2>2. faults' \in 0..MaxFaults
    BY <1>16, BoundsAssumption DEF TerminalComplete, Fault, NoFault
  <2>3. QED
    BY <1>16, <2>1, <2>2 DEF TerminalComplete
<1>17. CASE TerminalFail(a)
  <2>1. run' \in RunDoc
    BY <1>17, AgentWritesType DEF TerminalFail
  <2>2. faults' \in 0..MaxFaults
    BY <1>17, BoundsAssumption DEF TerminalFail, Fault, NoFault
  <2>3. QED
    BY <1>17, <2>1, <2>2 DEF TerminalFail
<1>18. CASE ClassifyUnapplied(a)
  BY <1>18, BoundsAssumption DEF ClassifyUnapplied, agentOnly, Fault, NoFault
<1>19. CASE RetireOwnResult(a)
  BY <1>19, BoundsAssumption DEF RetireOwnResult, Fault, NoFault
<1>20. CASE RetireSuperseded(a)
  BY <1>20, BoundsAssumption DEF RetireSuperseded, Fault, NoFault
<1>21. CASE DiscardCheckpoints(a)
  BY <1>21 DEF DiscardCheckpoints
<1>22. CASE AgentDies(a)
  BY <1>22 DEF AgentDies, agentOnly
<1>23. QED
  BY <1>1, <1>2, <1>3, <1>4, <1>5, <1>6, <1>7, <1>8, <1>9, <1>10, <1>11,
     <1>12, <1>13, <1>14, <1>15, <1>16, <1>17, <1>18, <1>19, <1>20, <1>21,
     <1>22 DEF AgentStep

\* A write that is recorded or lost, and a fault that befalls the run.
LEMMA RecordsType ==
  ASSUME TypeOK
  PROVE  /\ \A doc \in RunDoc : Records(doc) => /\ run' \in RunDoc
                                              /\ mishaps' \subseteq Mishap
                                              /\ faults' \in 0..MaxFaults
         /\ Fault => faults' \in 0..MaxFaults
         /\ \A what \in Mishap : Befalls(what) => mishaps' \subseteq Mishap
<1>1. Fault => faults' \in 0..MaxFaults
  BY BoundsAssumption DEF TypeOK, Fault
<1>2. \A what \in Mishap : Befalls(what) => mishaps' \subseteq Mishap
  BY DEF TypeOK, Befalls
<1>3. "unrecorded" \in Mishap
  BY DEF Mishap
<1> QED  BY <1>1, <1>2, <1>3 DEF TypeOK, Records, NoFault

\* The watcher of an agent, and the request that started the run.
LEMMA StarterType ==
  ASSUME TypeOK,
         \/ StarterStep
         \/ \E a \in Attempts : WatcherFires(a) \/ WatcherGivesUp(a)
  PROVE  TypeOK'
<1> USE DEF TypeOK, agentVars, starterOnly, watcherOnly, Goto, At
<1>0. RecordedAttempts = Attempts \cup {0}
  BY MaxAttemptAssumption DEF RecordedAttempts, Attempts
<1>1. ASSUME NEW a \in Attempts, WatcherFires(a) PROVE TypeOK'
  <2>1. FailAttempt(run, a) \in RunDoc
    BY <1>0, ApiWritesType
  <2>2. QED
    BY <1>1, <2>1, RecordsType DEF WatcherFires
<1>2. ASSUME NEW a \in Attempts, WatcherGivesUp(a) PROVE TypeOK'
  <2>1. run' \in RunDoc
    BY <1>0, <1>2, ApiWritesType DEF WatcherGivesUp
  <2>2. QED
    BY <1>2, <2>1, RecordsType DEF WatcherGivesUp, Mishap
<1>3. CASE StartLosesRace \/ StartDenied \/ StartSpawnFails
  <2>1. Cancel(run) \in RunDoc /\ Fail(run) \in RunDoc
    BY <1>0, ApiWritesType
  <2>2. QED
    BY <1>3, <2>1, RecordsType
       DEF StartLosesRace, StartDenied, StartSpawnFails, StarterPc
<1>4. CASE StartAdmitted
  BY <1>4 DEF StartAdmitted, StarterPc
<1>5. CASE StartSpawns
  BY <1>5, MaxAttemptAssumption
     DEF StartSpawns, StarterPc, Attempts, AgentPc, Gone
<1>6. QED
  BY <1>1, <1>2, <1>3, <1>4, <1>5 DEF StarterStep

\* The resume request.
LEMMA ResumeType ==
  ASSUME TypeOK, NEW q \in Requests,
         \/ ResumeReads(q) \/ ResumeChecks(q) \/ ResumeRefuses(q)
         \/ BeginResumeReads(q) \/ BeginResumeFlips(q) \/ FlipGoesUnanswered(q)
         \/ ResumeStandsDown(q) \/ ResumeSpawns(q)
  PROVE  TypeOK'
<1> USE DEF TypeOK, docVars, agentVars, reqOnly, reqFaulty, ReqPc, Advance, At,
            Requests
<1>0. RecordedAttempts = Attempts \cup {0}
  BY MaxAttemptAssumption DEF RecordedAttempts, Attempts
<1>1. CASE ResumeReads(q)
  BY <1>1 DEF ResumeReads
<1>2. CASE ResumeChecks(q)
  BY <1>2 DEF ResumeChecks
<1>3. CASE ResumeRefuses(q)
  <2>1. run' \in RunDoc
    BY <1>0, <1>3, ApiWritesType DEF ResumeRefuses
  <2>2. QED
    BY <1>3, <2>1 DEF ResumeRefuses
<1>4. CASE BeginResumeReads(q)
  <2>1. seen' \in [Requests -> [attempt : RecordedAttempts, status : Status]]
    BY <1>4 DEF BeginResumeReads, Reads, RunDoc
  <2>2. QED
    BY <1>4, <2>1 DEF BeginResumeReads, Reads
<1>5. CASE BeginResumeFlips(q)
  <2>1. seen[q].attempt \in RecordedAttempts
    OBVIOUS
  <2>2. CASE BeginResumeMatches(run, seen[q].attempt)
    <3>1. NextAttempt(seen[q].attempt) <= MaxAttempt
      BY <1>5, <2>2 DEF BeginResumeFlips
    <3>2. /\ BeginResume(run, seen[q].attempt) \in RunDoc
          /\ NextAttempt(seen[q].attempt) \in Attempts
      BY <2>1, <3>1, BeginResumeType
    <3>3. run' \in RunDoc
      BY <1>5, <2>2, <3>2 DEF BeginResumeFlips
    <3>4. /\ seen' \in [Requests -> [attempt : RecordedAttempts, status : Status]]
          /\ seen'[q].attempt \in Attempts
          /\ \A p \in Requests \ {q} : seen'[p] = seen[p]
      BY <1>0, <1>5, <2>2, <3>2 DEF BeginResumeFlips
    <3>5. QED
      BY <1>5, <2>2, <3>3, <3>4 DEF BeginResumeFlips
  <2>3. CASE ~BeginResumeMatches(run, seen[q].attempt)
    BY <1>5, <2>3 DEF BeginResumeFlips
  <2>4. QED
    BY <2>2, <2>3
<1>6. CASE FlipGoesUnanswered(q)
  <2>1. run' \in RunDoc
    BY <1>6, BeginResumeType DEF FlipGoesUnanswered
  <2>2. QED
    BY <1>6, <2>1, RecordsType DEF FlipGoesUnanswered, Mishap
<1>7. CASE ResumeStandsDown(q)
  <2>1. FailAttempt(run, seen[q].attempt) \in RunDoc
    BY <1>0, ApiWritesType
  <2>2. QED
    BY <1>7, <2>1, RecordsType DEF ResumeStandsDown
<1>8. CASE ResumeSpawns(q)
  BY <1>8 DEF ResumeSpawns, Goto, AgentPc, Gone
<1>9. QED
  BY <1>1, <1>2, <1>3, <1>4, <1>5, <1>6, <1>7, <1>8

\* The other requests of an operator.
LEMMA OperatorType ==
  ASSUME TypeOK, NEW q \in Requests,
         \/ CancelReads(q) \/ CancelKills(q) \/ CancelWrites(q)
         \/ PurgeCheckpoints(q) \/ PauseReads(q) \/ PauseAsks(q)
         \/ DiscardReads(q) \/ DiscardChecks(q) \/ DiscardWrites(q)
         \/ PurgesAnyway(q) \/ DiscardGoesUnanswered(q) \/ AnswersError(q)
  PROVE  TypeOK'
<1> USE DEF TypeOK, docVars, agentVars, reqOnly, reqFaulty, ReqPc, Advance, At,
            Requests
<1>0. RecordedAttempts = Attempts \cup {0}
  BY MaxAttemptAssumption DEF RecordedAttempts, Attempts
<1>1. ASSUME Reads(q), req' = [req EXCEPT ![q] = "asking"] \/
                       req' = [req EXCEPT ![q] = "checking"]
      PROVE  /\ seen' \in [Requests -> [attempt : RecordedAttempts,
                                        status  : Status]]
             /\ \A p \in Resumers :
                  At(p, "flipped")' => seen'[p].attempt \in Attempts
  BY <1>1 DEF Reads, RunDoc
<1>2. CASE CancelReads(q)
  BY <1>2 DEF CancelReads
<1>3. CASE CancelKills(q)
  BY <1>3 DEF CancelKills
<1>4. CASE CancelWrites(q)
  <2>1. Cancel(run) \in RunDoc
    BY <1>0, ApiWritesType
  <2>2. /\ run' \in RunDoc /\ mishaps' \subseteq Mishap
        /\ faults' \in 0..MaxFaults
    BY <1>4, <2>1, RecordsType DEF CancelWrites
  <2>3. QED
    BY <1>4, <2>2 DEF CancelWrites
<1>5. CASE PurgeCheckpoints(q)
  BY <1>5 DEF PurgeCheckpoints
<1>6. CASE PauseReads(q)
  BY <1>1, <1>6 DEF PauseReads
<1>7. CASE PauseAsks(q)
  <2>1. run' \in RunDoc
    BY <1>7, RequestPauseType DEF PauseAsks
  <2>2. QED
    BY <1>7, <2>1 DEF PauseAsks
<1>8. CASE DiscardReads(q)
  BY <1>1, <1>8 DEF DiscardReads
<1>9. CASE DiscardChecks(q)
  BY <1>9 DEF DiscardChecks
<1>10. CASE DiscardWrites(q)
  <2>1. run' \in RunDoc
    BY <1>0, <1>10, ApiWritesType DEF DiscardWrites
  <2>2. QED
    BY <1>10, <2>1 DEF DiscardWrites
<1>11. CASE PurgesAnyway(q)
  BY <1>11, RecordsType DEF PurgesAnyway, Mishap
<1>12. CASE DiscardGoesUnanswered(q)
  <2>1. run' \in RunDoc
    BY <1>0, <1>12, ApiWritesType DEF DiscardGoesUnanswered
  <2>2. QED
    BY <1>12, <2>1, RecordsType DEF DiscardGoesUnanswered
<1>13. CASE AnswersError(q)
  BY <1>13, RecordsType DEF AnswersError
<1>14. QED
  BY <1>2, <1>3, <1>4, <1>5, <1>6, <1>7, <1>8, <1>9, <1>10, <1>11, <1>12, <1>13

\* The dispatcher, the clock and the API's starts.
LEMMA BackgroundType ==
  ASSUME TypeOK,
         \/ \E q \in Requests : PollLists(q) \/ PollFires(q) \/ PollMarks(q)
         \/ PauseLapses \/ Expires
         \/ \E down \in BOOLEAN : ApiStarts(down)
  PROVE  TypeOK'
<1> USE DEF TypeOK, docVars, agentVars, reqOnly, reqFaulty, ReqPc, Advance, At,
            Requests
<1>0. RecordedAttempts = Attempts \cup {0}
  BY MaxAttemptAssumption DEF RecordedAttempts, Attempts
<1>1. ASSUME NEW q \in Requests, PollLists(q) PROVE TypeOK'
  <2>1. seen' \in [Requests -> [attempt : RecordedAttempts, status : Status]]
    BY <1>1 DEF PollLists, Reads, RunDoc
  <2>2. \A p \in Resumers : At(p, "flipped")' => seen'[p].attempt \in Attempts
    BY <1>1 DEF PollLists, Reads
  <2>3. QED
    BY <1>1, <2>1, <2>2 DEF PollLists
<1>2. ASSUME NEW q \in Requests, PollFires(q) PROVE TypeOK'
  <2>1. dispatched' \subseteq RecordedAttempts \X Status
    BY <1>2 DEF PollFires
  <2>2. QED
    BY <1>2, <2>1 DEF PollFires
<1>3. ASSUME NEW q \in Requests, PollMarks(q) PROVE TypeOK'
  <2>1. run' \in RunDoc
    BY <1>3, ApiWritesType DEF PollMarks
  <2>2. QED
    BY <1>3, <2>1 DEF PollMarks
<1>4. CASE PauseLapses
  <2>1. run' \in RunDoc
    BY <1>4 DEF PauseLapses, RunDoc
  <2>2. QED
    BY <1>4, <2>1 DEF PauseLapses
<1>5. ASSUME NEW down \in BOOLEAN, ApiStarts(down) PROVE TypeOK'
  <2>1. /\ run' \in RunDoc /\ mishaps' \subseteq Mishap
        /\ faults' \in 0..MaxFaults
    <3>1. CleanupStaleRuns(run) \in RunDoc
      BY <1>0, ApiWritesType
    <3> QED  BY <1>5, <3>1, RecordsType DEF ApiStarts
  <2>2. restarts' \in 0..MaxRestarts
    BY <1>5, BoundsAssumption DEF ApiStarts
  <2>3. /\ watched' \subseteq Attempts
        /\ starter' \in StarterPc
        /\ req' \in [Requests -> ReqPc]
        /\ \A p \in Resumers : At(p, "flipped")' => At(p, "flipped")
    BY <1>5 DEF ApiStarts, StarterPc
  <2>4. QED
    BY <1>5, <2>1, <2>2, <2>3 DEF ApiStarts
<1>6. CASE Expires
  BY <1>6, RecordsType DEF Expires, Mishap
<1>7. QED
  BY <1>1, <1>2, <1>3, <1>4, <1>5, <1>6

\* The run document and every actor's record keep their types, for any bounds.
THEOREM TypeCorrect == Spec => []TypeOK
<1>1. Init => TypeOK
  BY InitType
<1>2. TypeOK /\ [Next]_vars => TypeOK'
  <2> SUFFICES ASSUME TypeOK, [Next]_vars PROVE TypeOK'
    OBVIOUS
  <2>1. ASSUME NEW a \in Attempts, AgentStep(a) \/ AgentDies(a) PROVE TypeOK'
    BY <2>1, AgentStepType
  <2>2. CASE \/ StarterStep
             \/ \E a \in Attempts : WatcherFires(a) \/ WatcherGivesUp(a)
    BY <2>2, StarterType
  <2>3. ASSUME NEW q \in Requests, Arrives(q) \/ HandlerStep(q) \/ HandlerFails(q)
        PROVE  TypeOK'
    BY <2>3, ResumeType, OperatorType, BackgroundType
       DEF Arrives, HandlerStep, HandlerFails
  <2>4. CASE PauseLapses \/ Expires \/ \E down \in BOOLEAN : ApiStarts(down)
    BY <2>4, BackgroundType
  <2>5. CASE UNCHANGED vars
    BY <2>5 DEF TypeOK, vars, docVars, agentVars, apiVars, At
  <2>6. QED
    BY <2>1, <2>2, <2>3, <2>4, <2>5 DEF Next
<1>3. QED
  BY <1>1, <1>2, PTL DEF Spec

-----------------------------------------------------------------------------
(* Superseded attempts.                                                    *)

\* A step of an agent or a watcher whose attempt is not the run's current one.
LEMMA SupersededStep ==
  ASSUME TypeOK, NEW a \in Attempts,
         AgentStep(a) \/ WatcherFires(a) \/ WatcherGivesUp(a),
         CurrentAttempt(run) # a
  PROVE  /\ run' = run
         /\ \A r \in results : r > a => r \in results'
<1>1. /\ FailAttempt(run, a) = run
      /\ Complete(run, a) = run
      /\ AgentFail(run, a) = run
      /\ MarkExplorationCheckpoint(run, a) = run
      /\ Pause(run, a) = run
      /\ UpdateStatus(run, a, TRUE) = run
      /\ UpdateStatus(run, a, FALSE) = run
  BY FencedWritesMissOthers DEF TypeOK
<1>2. run' = run
  <2>1. CASE \/ LoadResumeState(a) \/ StopBeforeIndex(a) \/ StepGate(a)
             \/ FinishExploration(a) \/ AreaGate(a) \/ OwnershipGate(a)
             \/ ClassifyUnapplied(a)
    BY <2>1 DEF LoadResumeState, StopBeforeIndex, StepGate, FinishExploration,
                AreaGate, OwnershipGate, ClassifyUnapplied, agentOnly
  <2>2. CASE \/ SaveStep(a) \/ RetireOwnResult(a) \/ RetireSuperseded(a)
             \/ DiscardCheckpoints(a)
    BY <2>2 DEF SaveStep, RetireOwnResult, RetireSuperseded, DiscardCheckpoints
  <2>3. CASE \/ BeginExploration(a) \/ BeginAnalysis(a)
             \/ BeginRecommendations(a) \/ SaveResult(a) \/ IndexResult(a)
             \/ FinishStep(a)
    BY <1>1, <2>3 DEF BeginExploration, BeginAnalysis, BeginRecommendations,
                      SaveResult, IndexResult, FinishStep
  <2>4. CASE \/ MarkStep(a) \/ RecordPause(a) \/ TerminalComplete(a)
             \/ TerminalFail(a) \/ WatcherFires(a) \/ WatcherGivesUp(a)
    BY <1>1, <2>4 DEF MarkStep, RecordPause, TerminalComplete, TerminalFail,
                      WatcherFires, WatcherGivesUp, Records
  <2>5. QED
    BY <2>1, <2>2, <2>3, <2>4 DEF AgentStep
<1>3. \A r \in results : r > a => r \in results'
  <2>1. CASE SaveResult(a)
    BY <2>1 DEF SaveResult
  <2>2. CASE RetireOwnResult(a)
    BY <2>2 DEF RetireOwnResult, TypeOK, Attempts
  <2>3. CASE RetireSuperseded(a)
    BY <2>3 DEF RetireSuperseded, TypeOK, Attempts
  <2>4. CASE \/ LoadResumeState(a) \/ StopBeforeIndex(a) \/ StepGate(a)
             \/ FinishExploration(a) \/ AreaGate(a) \/ OwnershipGate(a)
             \/ ClassifyUnapplied(a)
    BY <2>4 DEF LoadResumeState, StopBeforeIndex, StepGate, FinishExploration,
                AreaGate, OwnershipGate, ClassifyUnapplied, agentOnly
  <2>5. CASE \/ BeginExploration(a) \/ BeginAnalysis(a)
             \/ BeginRecommendations(a) \/ IndexResult(a) \/ FinishStep(a)
             \/ SaveStep(a) \/ MarkStep(a) \/ RecordPause(a)
             \/ TerminalComplete(a) \/ TerminalFail(a) \/ DiscardCheckpoints(a)
             \/ WatcherFires(a) \/ WatcherGivesUp(a)
    BY <2>5 DEF BeginExploration, BeginAnalysis, BeginRecommendations,
                IndexResult, FinishStep, SaveStep, MarkStep, RecordPause,
                TerminalComplete, TerminalFail, DiscardCheckpoints, WatcherFires,
                WatcherGivesUp, watcherOnly
  <2>6. QED
    BY <2>1, <2>2, <2>3, <2>4, <2>5 DEF AgentStep
<1>4. QED
  BY <1>2, <1>3

\* However many attempts a run goes through and however their agents, watchers
\* and sweeps interleave, an attempt the run has moved on from changes neither
\* the document nor a newer attempt's result.
THEOREM SupersededMute == Spec => SupersededAttemptIsMute
<1>1. TypeOK /\ [Next]_vars
        => [\A a \in Attempts :
              /\ CurrentAttempt(run) # a
              /\ \/ run' # run
                 \/ \E r \in results : r > a /\ r \notin results'
              => ~(AgentStep(a) \/ WatcherFires(a) \/ WatcherGivesUp(a))]_vars
  BY SupersededStep
<1>2. QED
  BY <1>1, TypeCorrect, PTL DEF Spec, SupersededAttemptIsMute

-----------------------------------------------------------------------------
(* One agent for each attempt.                                             *)

\* Attempt numbers are handed out upwards, each to one request, which spawns
\* at most one agent with it.
AttemptsAreHandedOnce ==
  /\ \A a \in Attempts : agent[a] # "none" => a <= CurrentAttempt(run)
  /\ starter # "done" => agent[1] = "none"
  /\ \A q \in Resumers : At(q, "flipped") =>
       /\ 1 < seen[q].attempt
       /\ seen[q].attempt <= CurrentAttempt(run)
       /\ agent[seen[q].attempt] = "none"
  /\ \A p, q \in Resumers :
       At(p, "flipped") /\ At(q, "flipped") /\ seen[p].attempt = seen[q].attempt
         => p = q

\* An agent step moves one agent that has been spawned, and neither back to
\* its start nor the run to another attempt.
LEMMA AgentStepShape ==
  ASSUME TypeOK, NEW a \in Attempts, AgentStep(a) \/ AgentDies(a)
  PROVE  /\ run'.attempt = run.attempt
         /\ UNCHANGED <<starter, req, seen, mishaps>>
         /\ agent[a] # "none"
         /\ \E pc \in AgentPc \ {"none", "starting"} :
              agent' = [agent EXCEPT ![a] = pc]
<1> USE DEF apiVars, Goto, AgentPc, Gone
<1>0. a \in RecordedAttempts
  BY MaxAttemptAssumption DEF Attempts, RecordedAttempts
<1>1. /\ UpdateStatus(run, a, TRUE).attempt = run.attempt
      /\ UpdateStatus(run, a, FALSE).attempt = run.attempt
      /\ Complete(run, a).attempt = run.attempt
      /\ AgentFail(run, a).attempt = run.attempt
      /\ MarkExplorationCheckpoint(run, a).attempt = run.attempt
      /\ Pause(run, a).attempt = run.attempt
  BY <1>0, WritesKeepAttempt DEF TypeOK
<1>2. CASE \/ LoadResumeState(a) \/ StopBeforeIndex(a) \/ StepGate(a)
           \/ FinishExploration(a) \/ AreaGate(a) \/ OwnershipGate(a)
           \/ ClassifyUnapplied(a)
  BY <1>2 DEF LoadResumeState, StopBeforeIndex, StepGate, FinishExploration,
              AreaGate, OwnershipGate, ClassifyUnapplied, agentOnly
<1>3. CASE SaveStep(a)
  BY <1>3 DEF SaveStep
<1>4. CASE RetireOwnResult(a) \/ RetireSuperseded(a) \/ DiscardCheckpoints(a)
  BY <1>4 DEF RetireOwnResult, RetireSuperseded, DiscardCheckpoints
<1>5. CASE \/ BeginExploration(a) \/ BeginAnalysis(a) \/ BeginRecommendations(a)
           \/ SaveResult(a) \/ IndexResult(a) \/ FinishStep(a)
  BY <1>1, <1>5 DEF BeginExploration, BeginAnalysis, BeginRecommendations,
                    SaveResult, IndexResult, FinishStep
<1>6. CASE \/ MarkStep(a) \/ RecordPause(a) \/ TerminalComplete(a)
           \/ TerminalFail(a)
  BY <1>1, <1>6 DEF MarkStep, RecordPause, TerminalComplete, TerminalFail
<1>7. CASE AgentDies(a)
  BY <1>7 DEF AgentDies, agentOnly, Live
<1>8. QED
  BY <1>2, <1>3, <1>4, <1>5, <1>6, <1>7 DEF AgentStep

\* A step that spawns nothing, resumes nothing and moves no request to
\* "flipped" keeps AttemptsAreHandedOnce.
LEMMA HandedOnceKept ==
  ASSUME TypeOK, AttemptsAreHandedOnce,
         run'.attempt = run.attempt,
         \A a \in Attempts : agent[a] = "none" <=> agent'[a] = "none",
         starter' = starter \/ starter' = "done",
         \A q \in Resumers : At(q, "flipped")' => /\ At(q, "flipped")
                                                  /\ seen'[q] = seen[q]
  PROVE  AttemptsAreHandedOnce'
<1>1. CurrentAttempt(run)' = CurrentAttempt(run)
  BY DEF CurrentAttempt
<1>2. 1 \in Attempts
  BY MaxAttemptAssumption DEF Attempts
<1>3. QED
  BY <1>1, <1>2 DEF AttemptsAreHandedOnce, TypeOK, At

\* Every step keeps AttemptsAreHandedOnce.
LEMMA HandedOnceStep ==
  ASSUME TypeOK, AttemptsAreHandedOnce, [Next]_vars
  PROVE  AttemptsAreHandedOnce'
<1>0. /\ RecordedAttempts = Attempts \cup {0}
      /\ 1 \in Attempts /\ 0 \in RecordedAttempts
      /\ Attempts \subseteq Int
      /\ run \in RunDoc
      /\ \A q \in Requests : seen[q].attempt \in RecordedAttempts
  BY MaxAttemptAssumption DEF RecordedAttempts, Attempts, TypeOK
<1>a. \A n \in RecordedAttempts :
        /\ Cancel(run).attempt = run.attempt
        /\ ClearExplorationCheckpointMarker(run).attempt = run.attempt
        /\ Discarded(run).attempt = run.attempt
        /\ FailAttempt(run, n).attempt = run.attempt
        /\ RequestPause(run, n).attempt = run.attempt
        /\ MarkCompletionHooksFired(run, n).attempt = run.attempt
  BY <1>0, WritesKeepAttempt
<1>1. ASSUME NEW a \in Attempts, AgentStep(a) \/ AgentDies(a)
      PROVE  AttemptsAreHandedOnce'
  <2>1. /\ run'.attempt = run.attempt
        /\ UNCHANGED <<starter, req, seen>>
        /\ agent[a] # "none"
    BY <1>1, AgentStepShape
  <2>2. PICK pc \in AgentPc \ {"none", "starting"} :
          agent' = [agent EXCEPT ![a] = pc]
    BY <1>1, AgentStepShape
  <2>3. \A b \in Attempts : agent[b] = "none" <=> agent'[b] = "none"
    BY <2>1, <2>2 DEF TypeOK
  <2>4. QED
    BY <2>1, <2>3, HandedOnceKept DEF At
<1>2. ASSUME NEW a \in Attempts, WatcherFires(a) \/ WatcherGivesUp(a)
      PROVE  AttemptsAreHandedOnce'
  <2>1. run'.attempt = run.attempt
    <3>1. FailAttempt(run, a).attempt = run.attempt
      BY <1>0, <1>a
    <3> QED  BY <1>2, <3>1 DEF WatcherFires, WatcherGivesUp, Records
  <2>2. QED
    BY <1>2, <2>1, HandedOnceKept
       DEF WatcherFires, WatcherGivesUp, watcherOnly, agentVars, At
<1>3. CASE StartLosesRace \/ StartDenied \/ StartAdmitted \/ StartSpawnFails
  <2>1. run'.attempt = run.attempt
    BY <1>0, <1>3, WritesKeepAttempt
       DEF StartLosesRace, StartDenied, StartAdmitted, StartSpawnFails, Records
  <2>2. /\ UNCHANGED <<agent, req, seen>>
        /\ starter # "done"
    BY <1>3 DEF StartLosesRace, StartDenied, StartAdmitted, StartSpawnFails,
                starterOnly
  <2>3. CurrentAttempt(run)' = CurrentAttempt(run)
    BY <2>1 DEF CurrentAttempt
  <2>4. QED
    BY <2>2, <2>3 DEF AttemptsAreHandedOnce, At
<1>4. CASE StartSpawns
  <2>1. /\ UNCHANGED <<run, req, seen>>
        /\ agent' = [agent EXCEPT ![1] = "loaded"]
        /\ starter' = "done"
    BY <1>4 DEF StartSpawns, starterOnly, Goto
  <2>2. CurrentAttempt(run) \in Int /\ CurrentAttempt(run) >= 1
    BY MaxAttemptAssumption DEF TypeOK, RunDoc, RecordedAttempts, CurrentAttempt
  <2>3. QED
    BY <1>0, <2>1, <2>2 DEF AttemptsAreHandedOnce, TypeOK, At
<1>5. ASSUME NEW q \in Requests, ResumeSpawns(q) PROVE AttemptsAreHandedOnce'
  <2> DEFINE n == seen[q].attempt
  <2>1. /\ UNCHANGED <<run, starter, seen>>
        /\ agent' = [agent EXCEPT ![n] = "starting"]
        /\ req' = [req EXCEPT ![q] = "done"]
        /\ q \in Resumers /\ req[q] = "flipped"
    BY <1>5 DEF ResumeSpawns, docVars, Goto, Advance, At
  <2>2. n \in Attempts /\ n > 1 /\ n <= CurrentAttempt(run)
    BY <2>1 DEF AttemptsAreHandedOnce, TypeOK, At
  <2>3. \A p \in Resumers : req'[p] = "flipped"
                              => req[p] = "flipped" /\ seen[p].attempt # n
    BY <2>1 DEF AttemptsAreHandedOnce, TypeOK, At, Requests
  <2>4. \A p \in Resumers : req[p] = "flipped" => seen[p].attempt \in Attempts
    BY DEF TypeOK, At
  <2>5. QED
    BY <1>0, <2>1, <2>2, <2>3, <2>4 DEF AttemptsAreHandedOnce, TypeOK, At
<1>6. ASSUME NEW q \in Requests, BeginResumeFlips(q)
      PROVE  AttemptsAreHandedOnce'
  <2>1. CASE ~BeginResumeMatches(run, seen[q].attempt)
    <3>1. /\ UNCHANGED <<run, agent, starter, seen>>
          /\ req' = [req EXCEPT ![q] = "done"]
      BY <1>6, <2>1 DEF BeginResumeFlips, reqOnly, reqFaulty, agentVars,
                            Advance
    <3>2. QED
      BY <3>1, HandedOnceKept DEF At, TypeOK
  <2>2. CASE BeginResumeMatches(run, seen[q].attempt)
    <3> DEFINE n == NextAttempt(seen[q].attempt)
    <3>1. /\ n <= MaxAttempt
          /\ run' = BeginResume(run, seen[q].attempt)
          /\ seen' = [seen EXCEPT ![q].attempt = n]
          /\ req' = [req EXCEPT ![q] = "flipped"]
          /\ UNCHANGED <<agent, starter>>
          /\ q \in Resumers
      BY <1>6, <2>2 DEF BeginResumeFlips, reqOnly, reqFaulty, agentVars,
                            Advance
    <3>2. n \in Attempts /\ n >= 2 /\ run'.attempt = n
                         /\ n > CurrentAttempt(run)
      BY <1>0, <2>2, <3>1, BeginResumeType, BeginResumeAdvances
    <3>3. CurrentAttempt(run)' = n
      BY <3>2 DEF CurrentAttempt
    <3>4. CurrentAttempt(run) \in Int
      BY <1>0, MaxAttemptAssumption
         DEF RunDoc, RecordedAttempts, CurrentAttempt
    <3>5. /\ agent[n] = "none"
          /\ \A p \in Resumers : req[p] = "flipped" => seen[p].attempt < n
      <4>0. n \in Int
        BY <1>0, <3>2
      <4>1. agent[n] = "none"
        <5>1. ~(n <= CurrentAttempt(run))
          BY <3>2, <3>4, <4>0
        <5>2. QED
          BY <3>2, <5>1 DEF AttemptsAreHandedOnce
      <4>2. ASSUME NEW p \in Resumers, req[p] = "flipped"
            PROVE  seen[p].attempt < n
        <5>1. seen[p].attempt <= CurrentAttempt(run)
          BY <4>2 DEF AttemptsAreHandedOnce, At
        <5>2. seen[p].attempt \in Int
          BY <1>0, <4>2 DEF TypeOK, At
        <5>3. QED
          BY <3>2, <3>4, <4>0, <5>1, <5>2
      <4>3. QED
        BY <4>1, <4>2
    <3>6. seen'[q].attempt = n
      BY <3>1 DEF TypeOK
    <3>7. \A p \in Resumers \ {q} : seen'[p] = seen[p] /\ req'[p] = req[p]
      BY <3>1 DEF TypeOK, Requests
    <3>8. \A p \in Resumers : req[p] = "flipped" => seen[p].attempt \in Attempts
      BY DEF TypeOK, At
    <3>9. \A a \in Attempts : agent'[a] # "none" => a <= CurrentAttempt(run)'
      BY <1>0, <3>1, <3>2, <3>3, <3>4 DEF AttemptsAreHandedOnce
    <3>10. \A p \in Resumers : At(p, "flipped")' =>
             /\ 1 < seen'[p].attempt
             /\ seen'[p].attempt <= CurrentAttempt(run)'
             /\ agent'[seen'[p].attempt] = "none"
      BY <1>0, <3>1, <3>2, <3>3, <3>5, <3>6, <3>7, <3>8
         DEF AttemptsAreHandedOnce, At
    <3>11. \A p, r \in Resumers :
             /\ At(p, "flipped")' /\ At(r, "flipped")'
             /\ seen'[p].attempt = seen'[r].attempt
             => p = r
      <4> SUFFICES ASSUME NEW p \in Resumers, NEW r \in Resumers,
                          req'[p] = "flipped", req'[r] = "flipped",
                          seen'[p].attempt = seen'[r].attempt
                   PROVE  p = r
        BY DEF At
      <4>1. n \in Int
        BY <1>0, <3>2
      <4>2. CASE p # q /\ r # q
        <5>1. /\ req[p] = "flipped" /\ req[r] = "flipped"
              /\ seen[p].attempt = seen[r].attempt
          BY <3>7, <4>2
        <5>2. QED
          BY <5>1 DEF AttemptsAreHandedOnce, At
      <4>3. CASE p = q /\ r # q
        <5>1. seen[r].attempt < n /\ seen[r].attempt = n
          BY <3>5, <3>6, <3>7, <4>3
        <5>2. QED
          BY <4>1, <5>1
      <4>4. CASE p # q /\ r = q
        <5>1. seen[p].attempt < n /\ seen[p].attempt = n
          BY <3>5, <3>6, <3>7, <4>4
        <5>2. QED
          BY <4>1, <5>1
      <4>5. QED
        BY <4>2, <4>3, <4>4
    <3>12. starter' # "done" => agent'[1] = "none"
      BY <3>1 DEF AttemptsAreHandedOnce
    <3>13. QED
      BY <3>9, <3>10, <3>11, <3>12 DEF AttemptsAreHandedOnce
  <2>3. QED
    BY <2>1, <2>2
<1>7. ASSUME NEW q \in Requests,
             \/ ResumeReads(q) \/ ResumeChecks(q) \/ ResumeRefuses(q)
             \/ BeginResumeReads(q) \/ ResumeStandsDown(q)
      PROVE  AttemptsAreHandedOnce'
  <2>0. /\ ClearExplorationCheckpointMarker(run).attempt = run.attempt
        /\ FailAttempt(run, seen[q].attempt).attempt = run.attempt
    BY <1>0, <1>a
  <2>1. run'.attempt = run.attempt
    BY <1>7, <2>0
       DEF ResumeReads, ResumeChecks, ResumeRefuses, BeginResumeReads,
           ResumeStandsDown, Records, docVars
  <2>2. UNCHANGED <<agent, starter>>
    BY <1>7 DEF ResumeReads, ResumeChecks, ResumeRefuses, BeginResumeReads,
                ResumeStandsDown, reqOnly, reqFaulty, agentVars
  <2>3. \A p \in Resumers : At(p, "flipped")' => At(p, "flipped")
                                                 /\ seen'[p] = seen[p]
    BY <1>7 DEF ResumeReads, ResumeChecks, ResumeRefuses, BeginResumeReads,
                ResumeStandsDown, Advance, At, Reads, TypeOK, Requests
  <2>4. QED
    BY <2>1, <2>2, <2>3, HandedOnceKept
<1>8. ASSUME NEW q \in Requests,
             \/ CancelReads(q) \/ CancelKills(q) \/ CancelWrites(q)
             \/ PurgeCheckpoints(q) \/ PauseReads(q) \/ PauseAsks(q)
             \/ DiscardReads(q) \/ DiscardChecks(q) \/ DiscardWrites(q)
             \/ PurgesAnyway(q) \/ DiscardGoesUnanswered(q) \/ AnswersError(q)
      PROVE  AttemptsAreHandedOnce'
  <2>0. /\ Cancel(run).attempt = run.attempt
        /\ Discarded(run).attempt = run.attempt
        /\ RequestPause(run, seen[q].attempt).attempt = run.attempt
    BY <1>0, <1>a
  <2>1. run'.attempt = run.attempt
    <3>1. CASE CancelReads(q) \/ CancelKills(q) \/ PurgeCheckpoints(q)
               \/ PauseReads(q) \/ DiscardReads(q) \/ DiscardChecks(q)
               \/ PurgesAnyway(q) \/ AnswersError(q)
      BY <3>1 DEF CancelReads, CancelKills, PurgeCheckpoints, PauseReads,
                  DiscardReads, DiscardChecks, PurgesAnyway, AnswersError, docVars
    <3>2. CASE CancelWrites(q) \/ PauseAsks(q) \/ DiscardWrites(q)
               \/ DiscardGoesUnanswered(q)
      BY <2>0, <3>2 DEF CancelWrites, PauseAsks, DiscardWrites,
                        DiscardGoesUnanswered, Records
    <3>3. QED
      BY <1>8, <3>1, <3>2
  <2>2. UNCHANGED <<agent, starter>>
    BY <1>8 DEF CancelReads, CancelKills, CancelWrites, PurgeCheckpoints,
                PauseReads, PauseAsks, DiscardReads, DiscardChecks,
                DiscardWrites, PurgesAnyway, DiscardGoesUnanswered,
                AnswersError, reqOnly, reqFaulty, agentVars
  <2>3. \A p \in Resumers : At(p, "flipped")' => At(p, "flipped")
                                                 /\ seen'[p] = seen[p]
    BY <1>8 DEF CancelReads, CancelKills, CancelWrites, PurgeCheckpoints,
                PauseReads, PauseAsks, DiscardReads, DiscardChecks,
                DiscardWrites, PurgesAnyway, DiscardGoesUnanswered,
                AnswersError, Advance, At, Reads, TypeOK, Requests
  <2>4. QED
    BY <2>1, <2>2, <2>3, HandedOnceKept
<1>9. ASSUME NEW q \in Requests, PollLists(q) \/ PollFires(q) \/ PollMarks(q)
      PROVE  AttemptsAreHandedOnce'
  <2>0. MarkCompletionHooksFired(run, seen[q].attempt).attempt = run.attempt
    BY <1>0, <1>a
  <2>1. run'.attempt = run.attempt
    BY <1>9, <2>0 DEF PollLists, PollFires, PollMarks, docVars
  <2>2. UNCHANGED <<agent, starter>>
    BY <1>9 DEF PollLists, PollFires, PollMarks, reqOnly, reqFaulty, agentVars
  <2>3. \A p \in Resumers : At(p, "flipped")' => At(p, "flipped")
                                                 /\ seen'[p] = seen[p]
    BY <1>9 DEF PollLists, PollFires, PollMarks, Advance, At, Reads, TypeOK,
                Requests
  <2>4. QED
    BY <2>1, <2>2, <2>3, HandedOnceKept
<1>10. CASE PauseLapses \/ Expires
  BY <1>10, HandedOnceKept
     DEF PauseLapses, Expires, reqOnly, reqFaulty, agentVars, At, TypeOK, RunDoc
<1>11. ASSUME NEW down \in BOOLEAN, ApiStarts(down)
       PROVE  AttemptsAreHandedOnce'
  <2>1. run'.attempt = run.attempt
    BY <1>0, <1>11, WritesKeepAttempt DEF ApiStarts, Records
  <2>2. /\ UNCHANGED <<agent, seen>>
        /\ starter' = starter \/ starter' = "done"
        /\ \A p \in Resumers : At(p, "flipped")' => At(p, "flipped")
    BY <1>11 DEF ApiStarts, agentVars, At, Requests
  <2>3. QED
    BY <2>1, <2>2, HandedOnceKept
<1>12. CASE UNCHANGED vars
  BY <1>12, HandedOnceKept DEF vars, docVars, agentVars, apiVars, At
<1>13. ASSUME NEW q \in Requests, FlipGoesUnanswered(q)
       PROVE  AttemptsAreHandedOnce'
  <2> DEFINE n == NextAttempt(seen[q].attempt)
  <2>1. /\ run' = BeginResume(run, seen[q].attempt)
        /\ UNCHANGED <<agent, starter, seen>>
        /\ req' = [req EXCEPT ![q] = "done"]
    BY <1>13 DEF FlipGoesUnanswered, reqFaulty, agentVars, Advance
  <2>2. run'.attempt = n /\ n \in Attempts /\ n > CurrentAttempt(run)
    BY <1>0, <1>13, <2>1, BeginResumeType, BeginResumeAdvances
       DEF FlipGoesUnanswered
  <2>3. /\ CurrentAttempt(run)' = n /\ n \in Int
        /\ CurrentAttempt(run) \in Int
    BY <1>0, <2>2, MaxAttemptAssumption
       DEF RunDoc, RecordedAttempts, Attempts, CurrentAttempt
  <2>4. \A p \in Resumers : At(p, "flipped")' => /\ At(p, "flipped")
                                                /\ seen[p].attempt \in Int
    BY <1>0, <2>1 DEF TypeOK, At, Requests
  <2>5. \A a \in Attempts : agent'[a] # "none" => a <= CurrentAttempt(run)'
    BY <1>0, <2>1, <2>2, <2>3 DEF AttemptsAreHandedOnce
  <2>6. \A p \in Resumers : At(p, "flipped")' =>
          /\ 1 < seen'[p].attempt
          /\ seen'[p].attempt <= CurrentAttempt(run)'
          /\ agent'[seen'[p].attempt] = "none"
    BY <2>1, <2>2, <2>3, <2>4 DEF AttemptsAreHandedOnce
  <2>7. QED
    BY <2>1, <2>4, <2>5, <2>6 DEF AttemptsAreHandedOnce
<1>14. QED
  BY <1>1, <1>2, <1>3, <1>4, <1>5, <1>6, <1>7, <1>8, <1>9, <1>10, <1>11, <1>12,
     <1>13 DEF Next, StarterStep, Arrives, HandlerStep, HandlerFails

\* An attempt number belongs to one request until an agent has it: whatever
\* resumes race, the agent of an attempt was started by the request that
\* moved the document to it.
THEOREM HandedOnce == Spec => []AttemptsAreHandedOnce
<1>1. Init => AttemptsAreHandedOnce
  BY MaxAttemptAssumption
     DEF Init, AttemptsAreHandedOnce, CurrentAttempt, Created, At, Requests,
         Attempts
<1>2. TypeOK /\ AttemptsAreHandedOnce /\ [Next]_vars => AttemptsAreHandedOnce'
  BY HandedOnceStep
<1>3. QED
  BY <1>1, <1>2, TypeCorrect, PTL DEF Spec

\* A step that sets an agent to "starting" sets one that had none.
LEMMA StartsOnceStep ==
  ASSUME TypeOK, AttemptsAreHandedOnce, Next, NEW a \in Attempts,
         agent[a] # "none"
  PROVE  agent'[a] \in {agent[a]} \cup (AgentPc \ {"none", "starting"})
<1>1. ASSUME NEW b \in Attempts, AgentStep(b) \/ AgentDies(b)
      PROVE  agent'[a] \in {agent[a]} \cup (AgentPc \ {"none", "starting"})
  <2>1. PICK pc \in AgentPc \ {"none", "starting"} :
          agent' = [agent EXCEPT ![b] = pc]
    BY <1>1, AgentStepShape
  <2>2. QED
    BY <2>1 DEF TypeOK
<1>2. CASE StartSpawns
  BY <1>2 DEF StartSpawns, Goto, TypeOK, AgentPc, Gone
<1>3. ASSUME NEW q \in Requests, ResumeSpawns(q)
      PROVE  agent'[a] = agent[a]
  <2>1. /\ q \in Resumers /\ At(q, "flipped")
        /\ agent' = [agent EXCEPT ![seen[q].attempt] = "starting"]
    BY <1>3 DEF ResumeSpawns, Goto
  <2>2. seen[q].attempt # a
    BY <2>1 DEF AttemptsAreHandedOnce
  <2>3. QED
    BY <2>1, <2>2 DEF TypeOK
<1>4. ASSUME NEW q \in Requests,
             Arrives(q) \/ HandlerStep(q) \/ HandlerFails(q), ~ResumeSpawns(q)
      PROVE  UNCHANGED agent
  BY <1>4 DEF Arrives, HandlerStep, HandlerFails, FlipGoesUnanswered,
              PurgesAnyway, DiscardGoesUnanswered, AnswersError, reqFaulty,
              ResumeReads, ResumeChecks, ResumeRefuses,
              BeginResumeReads, BeginResumeFlips, ResumeStandsDown, CancelReads,
              CancelKills, CancelWrites, PurgeCheckpoints, PauseReads,
              PauseAsks, DiscardReads, DiscardChecks, DiscardWrites, PollLists,
              PollFires, PollMarks, reqOnly, agentVars
<1>5. CASE \/ StarterStep /\ ~StartSpawns
           \/ PauseLapses \/ Expires
           \/ \E b \in Attempts : WatcherFires(b) \/ WatcherGivesUp(b)
           \/ \E down \in BOOLEAN : ApiStarts(down)
  BY <1>5 DEF StarterStep, StartLosesRace, StartDenied, StartAdmitted,
              StartSpawnFails, PauseLapses, Expires, WatcherFires,
              WatcherGivesUp, watcherOnly, ApiStarts, reqOnly, reqFaulty,
              agentVars
<1>6. QED
  BY <1>1, <1>2, <1>3, <1>4, <1>5 DEF Next

\* Whatever resumes race, no attempt number is handed to two agents.
THEOREM StartsOnce == Spec => NoAttemptStartsTwice
<1>1. /\ TypeOK /\ AttemptsAreHandedOnce /\ [Next]_vars
      => [\A a \in Attempts :
            agent[a] # "none" => agent'[a] \in {agent[a]} \cup
                                               (AgentPc \ {"none", "starting"})]_vars
  BY StartsOnceStep
<1>2. QED
  BY <1>1, TypeCorrect, HandedOnce, PTL DEF Spec, NoAttemptStartsTwice

-----------------------------------------------------------------------------
(* What a run promises, what it stores, and what a paused run keeps.       *)

\* Where an agent is that may still write to a run of its attempt, and where
\* one is that has made its last write to it.
BeforeTheEnd == {"loaded", "exploring", "gated", "step_saved", "step_marked", "pausing",
                 "explored", "analyzing", "recommending", "composing", "saving", "saved",
                 "indexed"}
PastTheEnd   == {"claimed", "fail_claimed", "retired", "exited", "failed", "died"}

\* Where an agent is that may come to pause, and has something to resume from.
Explores == {"loaded", "exploring", "gated", "step_saved", "step_marked", "pausing",
             "explored", "analyzing"}

HasStep(a) == \/ a > 1 \/ step[a] > 0
              \/ agent[a] \in {"step_saved", "step_marked"}

\* A run that is paused, completed or points at a result is one whose attempt
\* has made its last write.
EndedOnce ==
  /\ run.status \in {"paused", "completed"} => agent[CurrentAttempt(run)] \in PastTheEnd
  /\ run.discovery # NoDiscovery => /\ run.discovery = CurrentAttempt(run)
                                    /\ agent[run.discovery] \in PastTheEnd
                                    /\ ~Active(run)
  /\ run.discarded => run.status \in {"failed", "cancelled"}

\* The result of an agent that may still claim the run is stored, and an agent that
\* retires older results points at none of them.
ResultsKept ==
  /\ StampedResultIsStored
  /\ \A a \in Attempts : agent[a] \in {"saved", "indexed"} /\ a = CurrentAttempt(run)
                           => a \in results
  /\ \A a \in Attempts : agent[a] \in {"claimed", "fail_claimed"} /\ run.discovery # NoDiscovery
                           => run.discovery >= a

\* Whoever is about to delete the checkpoints, and knows that its own write landed,
\* has seen a run that will not be resumed.
Purgers ==
  /\ \A a \in Attempts : agent[a] \in {"claimed", "retired"}
                           => run.status \in {"completed", "cancelled"}
  /\ \A q \in Requests : At(q, "purging") => run.status = "cancelled" \/ run.discarded

\* An attempt without a gap that has been through a step has checkpoints, unless they
\* expired or were deleted by a cancel that went on after its write had failed.
PrefixKept ==
  /\ \A a \in Attempts : agent[a] = "none" => step[a] = 0
  /\ \A a \in Attempts : agent[a] = "pausing" => a \notin gap /\ HasStep(a)
  /\ \A a \in Attempts : agent[a] \in Explores /\ a = CurrentAttempt(run)
                         /\ a \notin gap /\ HasStep(a)
                           => \/ checkpoints \/ PrefixTaken
                              \/ run.status = "cancelled" \/ run.discarded

RunInv == EndedOnce /\ ResultsKept /\ Purgers /\ PrefixKept /\ PausedIsResumable

\* What a step of the agent of attempt a does to the run.
AgentWrites(a) ==
  \/ Quiet(run, run')
  \/ Works(run, run', a) /\ agent[a] \in BeforeTheEnd
  \/ /\ Completes(run, run', a) /\ agent[a] \in {"saved", "indexed"}
     /\ agent'[a] \in {"claimed", "died"}
  \/ /\ FailsOwn(run, run', a) /\ agent[a] = "saved"
     /\ agent'[a] \in {"fail_claimed", "died"}
  \/ /\ Pauses(run, run', a) /\ agent[a] = "pausing" /\ agent'[a] \in {"exited", "died"}

\* Where it takes the agent.
AgentGoes(a) ==
  /\ agent[a] # "none"
  /\ \E pc \in AgentPc \ {"none", "starting"} : agent' = [agent EXCEPT ![a] = pc]
  /\ agent[a] \in PastTheEnd => agent'[a] \in PastTheEnd
  /\ agent'[a] = "claimed" => Completes(run, run', a)
  /\ agent'[a] = "fail_claimed" => FailsOwn(run, run', a)
  /\ agent'[a] = "retired" => agent[a] = "claimed"

\* What it does to the results.
AgentStores(a) ==
  /\ \/ results' = results \/ results' = results \cup {a}
     \/ agent[a] = "superseded" /\ results' = results \ {a}
     \/ agent[a] \in {"claimed", "fail_claimed"} /\ results' = {r \in results : r >= a}
  /\ agent'[a] = "saved" => a \in results'
  /\ agent'[a] = "indexed" => agent[a] = "saved" /\ results' = results

\* And to the checkpoints.
AgentCheckpoints(a) ==
  /\ \A b \in Attempts \ {a} : step'[b] = step[b] /\ (b \in gap' <=> b \in gap)
  /\ checkpoints' = checkpoints \/ checkpoints' \/ agent[a] = "retired"
  /\ agent'[a] = "pausing" => a \notin gap' /\ HasStep(a)'
  /\ agent'[a] \in Explores /\ a \notin gap' /\ HasStep(a)'
       => \/ checkpoints'
          \/ agent[a] \in Explores /\ a \notin gap /\ HasStep(a) /\ checkpoints' = checkpoints

\* Every step of an agent is one of those.
LEMMA AgentMoves ==
  ASSUME TypeOK, NEW a \in Attempts, AgentStep(a) \/ AgentDies(a),
         agent[a] = "pausing" => a \notin gap /\ HasStep(a)
  PROVE  AgentWrites(a) /\ AgentGoes(a) /\ AgentStores(a) /\ AgentCheckpoints(a)
<1> DEFINE Goal == AgentWrites(a) /\ AgentGoes(a) /\ AgentStores(a) /\ AgentCheckpoints(a)
<1>0. /\ run \in RunDoc /\ a \in Attempts /\ Attempts \subseteq Nat
      /\ agent \in [Attempts -> AgentPc] /\ step \in [Attempts -> Nat]
  BY BoundsAssumption DEF TypeOK, Attempts
<1>k. /\ Quiet(run, run)
      /\ Quiet(run, MarkExplorationCheckpoint(run, a))
      /\ \A p \in BOOLEAN : \/ Quiet(run, UpdateStatus(run, a, p))
                            \/ Works(run, UpdateStatus(run, a, p), a)
      /\ IF StillWritable(run, a) THEN Completes(run, Complete(run, a), a)
                                  ELSE Complete(run, a) = run
      /\ IF AgentFailMatches(run, a) THEN FailsOwn(run, AgentFail(run, a), a)
                                     ELSE AgentFail(run, a) = run
      /\ Pause(run, a) = run \/ Pauses(run, Pause(run, a), a)
  <2>1. a \in RecordedAttempts
    BY DEF Attempts, RecordedAttempts
  <2> QED  BY <1>0, <2>1, ApiWriteKinds, AgentWriteKinds
<1>s. agent[a] # "none" /\ \E pc \in AgentPc \ {"none", "starting"} : agent' = [agent EXCEPT ![a] = pc]
  BY AgentStepShape
<1> USE DEF AgentWrites, AgentGoes, AgentStores, AgentCheckpoints, Goto, BeforeTheEnd,
            PastTheEnd, Explores, HasStep, agentOnly
<1>1. CASE LoadResumeState(a)
  <2>1. AgentWrites(a)
    BY <1>0, <1>k, <1>s, <1>1 DEF LoadResumeState
  <2>2. AgentGoes(a)
    BY <1>0, <1>k, <1>s, <1>1 DEF LoadResumeState
  <2>3. AgentStores(a)
    BY <1>0, <1>s, <1>1 DEF LoadResumeState
  <2>4. AgentCheckpoints(a)
    BY <1>0, <1>s, <1>1 DEF LoadResumeState
  <2> QED  BY <2>1, <2>2, <2>3, <2>4
<1>2. CASE BeginExploration(a)
  <2>1. AgentWrites(a)
    BY <1>0, <1>k, <1>s, <1>2 DEF BeginExploration
  <2>2. AgentGoes(a)
    BY <1>0, <1>k, <1>s, <1>2 DEF BeginExploration
  <2>3. AgentStores(a)
    BY <1>0, <1>s, <1>2 DEF BeginExploration
  <2>4. AgentCheckpoints(a)
    BY <1>0, <1>s, <1>2 DEF BeginExploration
  <2> QED  BY <2>1, <2>2, <2>3, <2>4
<1>3. CASE StopBeforeIndex(a)
  <2>1. AgentWrites(a)
    BY <1>0, <1>k, <1>s, <1>3 DEF StopBeforeIndex, HasResumePoint
  <2>2. AgentGoes(a)
    BY <1>0, <1>k, <1>s, <1>3 DEF StopBeforeIndex, HasResumePoint
  <2>3. AgentStores(a)
    BY <1>0, <1>s, <1>3 DEF StopBeforeIndex, HasResumePoint
  <2>4. AgentCheckpoints(a)
    BY <1>0, <1>s, <1>3 DEF StopBeforeIndex, HasResumePoint
  <2> QED  BY <2>1, <2>2, <2>3, <2>4
<1>4. CASE StepGate(a)
  <2>1. AgentWrites(a)
    BY <1>0, <1>k, <1>s, <1>4 DEF StepGate, GateReads, Replays, HasResumePoint
  <2>2. AgentGoes(a)
    BY <1>0, <1>k, <1>s, <1>4 DEF StepGate, GateReads, Replays, HasResumePoint
  <2>3. AgentStores(a)
    BY <1>0, <1>s, <1>4 DEF StepGate, GateReads, Replays, HasResumePoint
  <2>4. AgentCheckpoints(a)
    BY <1>0, <1>s, <1>4 DEF StepGate, GateReads, Replays, HasResumePoint
  <2> QED  BY <2>1, <2>2, <2>3, <2>4
<1>5. CASE SaveStep(a)
  <2>1. AgentWrites(a)
    BY <1>0, <1>k, <1>s, <1>5 DEF SaveStep, ExtendsPrefix
  <2>2. AgentGoes(a)
    BY <1>0, <1>k, <1>s, <1>5 DEF SaveStep, ExtendsPrefix
  <2>3. AgentStores(a)
    BY <1>0, <1>s, <1>5 DEF SaveStep, ExtendsPrefix
  <2>4. AgentCheckpoints(a)
    <3>1. /\ agent[a] = "gated" /\ checkpoints \in BOOLEAN
          /\ \A b \in Attempts \ {a} : step'[b] = step[b] /\ (b \in gap' <=> b \in gap)
      BY <1>0, <1>5 DEF SaveStep, TypeOK
    <3>2. CASE agent'[a] = "step_saved"
      <4>1. /\ step' = step /\ gap' = gap
            /\ checkpoints' = (checkpoints \/ ExtendsPrefix(a))
        BY <1>0, <1>5, <3>2 DEF SaveStep
      <4>2. CASE checkpoints \/ ExtendsPrefix(a)
        <5>1. checkpoints' = TRUE
          BY <4>1, <4>2
        <5> QED  BY <3>2, <4>1, <5>1
      <4>3. CASE ~checkpoints /\ ~ExtendsPrefix(a)
        <5>1. checkpoints' = checkpoints
          BY <3>1, <4>1, <4>3
        <5>2. a \notin gap => step[a] # 0
          BY <4>3 DEF ExtendsPrefix
        <5> QED  BY <1>0, <3>1, <3>2, <4>1, <5>1, <5>2
      <4> QED  BY <4>2, <4>3
    <3>3. CASE agent'[a] = "exited"
      BY <1>0, <1>5, <3>1, <3>3 DEF SaveStep
    <3>4. CASE agent'[a] = "exploring"
      <4>1. a \in gap' /\ (checkpoints => checkpoints') /\ checkpoints' \in BOOLEAN
        BY <1>0, <1>5, <3>1, <3>4 DEF SaveStep
      <4> QED  BY <3>1, <3>4, <4>1
    <3> QED  BY <1>0, <1>5, <3>2, <3>3, <3>4 DEF SaveStep
  <2> QED  BY <2>1, <2>2, <2>3, <2>4
<1>6. CASE MarkStep(a)
  <2>1. AgentWrites(a)
    BY <1>0, <1>k, <1>s, <1>6 DEF MarkStep
  <2>2. AgentGoes(a)
    BY <1>0, <1>k, <1>s, <1>6 DEF MarkStep
  <2>3. AgentStores(a)
    BY <1>0, <1>s, <1>6 DEF MarkStep
  <2>4. AgentCheckpoints(a)
    BY <1>0, <1>s, <1>6 DEF MarkStep
  <2> QED  BY <2>1, <2>2, <2>3, <2>4
<1>7. CASE FinishStep(a)
  <2>1. AgentWrites(a)
    BY <1>0, <1>k, <1>s, <1>7 DEF FinishStep, Replays
  <2>2. AgentGoes(a)
    BY <1>0, <1>k, <1>s, <1>7 DEF FinishStep, Replays
  <2>3. AgentStores(a)
    BY <1>0, <1>s, <1>7 DEF FinishStep, Replays
  <2>4. AgentCheckpoints(a)
    BY <1>0, <1>s, <1>7 DEF FinishStep, Replays
  <2> QED  BY <2>1, <2>2, <2>3, <2>4
<1>8. CASE RecordPause(a)
  <2>1. AgentWrites(a)
    BY <1>0, <1>k, <1>s, <1>8 DEF RecordPause
  <2>2. AgentGoes(a)
    BY <1>0, <1>k, <1>s, <1>8 DEF RecordPause
  <2>3. AgentStores(a)
    BY <1>0, <1>s, <1>8 DEF RecordPause
  <2>4. AgentCheckpoints(a)
    BY <1>0, <1>s, <1>8 DEF RecordPause
  <2> QED  BY <2>1, <2>2, <2>3, <2>4
<1>9. CASE FinishExploration(a)
  <2>1. AgentWrites(a)
    BY <1>0, <1>k, <1>s, <1>9 DEF FinishExploration, HasResumePoint
  <2>2. AgentGoes(a)
    BY <1>0, <1>k, <1>s, <1>9 DEF FinishExploration, HasResumePoint
  <2>3. AgentStores(a)
    BY <1>0, <1>s, <1>9 DEF FinishExploration, HasResumePoint
  <2>4. AgentCheckpoints(a)
    BY <1>0, <1>s, <1>9 DEF FinishExploration, HasResumePoint
  <2> QED  BY <2>1, <2>2, <2>3, <2>4
<1>10. CASE BeginAnalysis(a)
  <2>1. AgentWrites(a)
    BY <1>0, <1>k, <1>s, <1>10 DEF BeginAnalysis
  <2>2. AgentGoes(a)
    BY <1>0, <1>k, <1>s, <1>10 DEF BeginAnalysis
  <2>3. AgentStores(a)
    BY <1>0, <1>s, <1>10 DEF BeginAnalysis
  <2>4. AgentCheckpoints(a)
    BY <1>0, <1>s, <1>10 DEF BeginAnalysis
  <2> QED  BY <2>1, <2>2, <2>3, <2>4
<1>11. CASE AreaGate(a)
  <2>1. AgentWrites(a)
    BY <1>0, <1>k, <1>s, <1>11 DEF AreaGate, HasResumePoint
  <2>2. AgentGoes(a)
    BY <1>0, <1>k, <1>s, <1>11 DEF AreaGate, HasResumePoint
  <2>3. AgentStores(a)
    BY <1>0, <1>s, <1>11 DEF AreaGate, HasResumePoint
  <2>4. AgentCheckpoints(a)
    BY <1>0, <1>s, <1>11 DEF AreaGate, HasResumePoint
  <2> QED  BY <2>1, <2>2, <2>3, <2>4
<1>12. CASE OwnershipGate(a)
  <2>1. AgentWrites(a)
    BY <1>0, <1>k, <1>s, <1>12 DEF OwnershipGate
  <2>2. AgentGoes(a)
    BY <1>0, <1>k, <1>s, <1>12 DEF OwnershipGate
  <2>3. AgentStores(a)
    BY <1>0, <1>s, <1>12 DEF OwnershipGate
  <2>4. AgentCheckpoints(a)
    BY <1>0, <1>s, <1>12 DEF OwnershipGate
  <2> QED  BY <2>1, <2>2, <2>3, <2>4
<1>13. CASE BeginRecommendations(a)
  <2>1. AgentWrites(a)
    BY <1>0, <1>k, <1>s, <1>13 DEF BeginRecommendations
  <2>2. AgentGoes(a)
    BY <1>0, <1>k, <1>s, <1>13 DEF BeginRecommendations
  <2>3. AgentStores(a)
    BY <1>0, <1>s, <1>13 DEF BeginRecommendations
  <2>4. AgentCheckpoints(a)
    BY <1>0, <1>s, <1>13 DEF BeginRecommendations
  <2> QED  BY <2>1, <2>2, <2>3, <2>4
<1>14. CASE SaveResult(a)
  <2>1. AgentWrites(a)
    BY <1>0, <1>k, <1>s, <1>14 DEF SaveResult
  <2>2. AgentGoes(a)
    BY <1>0, <1>k, <1>s, <1>14 DEF SaveResult
  <2>3. AgentStores(a)
    BY <1>0, <1>s, <1>14 DEF SaveResult
  <2>4. AgentCheckpoints(a)
    BY <1>0, <1>s, <1>14 DEF SaveResult
  <2> QED  BY <2>1, <2>2, <2>3, <2>4
<1>15. CASE IndexResult(a)
  <2>1. AgentWrites(a)
    BY <1>0, <1>k, <1>s, <1>15 DEF IndexResult
  <2>2. AgentGoes(a)
    BY <1>0, <1>k, <1>s, <1>15 DEF IndexResult
  <2>3. AgentStores(a)
    BY <1>0, <1>s, <1>15 DEF IndexResult
  <2>4. AgentCheckpoints(a)
    BY <1>0, <1>s, <1>15 DEF IndexResult
  <2> QED  BY <2>1, <2>2, <2>3, <2>4
<1>16. CASE TerminalComplete(a)
  <2>1. AgentWrites(a)
    BY <1>0, <1>k, <1>s, <1>16 DEF TerminalComplete
  <2>2. AgentGoes(a)
    BY <1>0, <1>k, <1>s, <1>16 DEF TerminalComplete
  <2>3. AgentStores(a)
    BY <1>0, <1>s, <1>16 DEF TerminalComplete
  <2>4. AgentCheckpoints(a)
    BY <1>0, <1>s, <1>16 DEF TerminalComplete
  <2> QED  BY <2>1, <2>2, <2>3, <2>4
<1>17. CASE TerminalFail(a)
  <2>1. AgentWrites(a)
    BY <1>0, <1>k, <1>s, <1>17 DEF TerminalFail
  <2>2. AgentGoes(a)
    BY <1>0, <1>k, <1>s, <1>17 DEF TerminalFail
  <2>3. AgentStores(a)
    BY <1>0, <1>s, <1>17 DEF TerminalFail
  <2>4. AgentCheckpoints(a)
    BY <1>0, <1>s, <1>17 DEF TerminalFail
  <2> QED  BY <2>1, <2>2, <2>3, <2>4
<1>18. CASE ClassifyUnapplied(a)
  <2>1. AgentWrites(a)
    BY <1>0, <1>k, <1>s, <1>18 DEF ClassifyUnapplied
  <2>2. AgentGoes(a)
    BY <1>0, <1>k, <1>s, <1>18 DEF ClassifyUnapplied
  <2>3. AgentStores(a)
    BY <1>0, <1>s, <1>18 DEF ClassifyUnapplied
  <2>4. AgentCheckpoints(a)
    BY <1>0, <1>s, <1>18 DEF ClassifyUnapplied
  <2> QED  BY <2>1, <2>2, <2>3, <2>4
<1>19. CASE RetireOwnResult(a)
  <2>1. AgentWrites(a)
    BY <1>0, <1>k, <1>s, <1>19 DEF RetireOwnResult
  <2>2. AgentGoes(a)
    BY <1>0, <1>k, <1>s, <1>19 DEF RetireOwnResult
  <2>3. AgentStores(a)
    BY <1>0, <1>s, <1>19 DEF RetireOwnResult
  <2>4. AgentCheckpoints(a)
    BY <1>0, <1>s, <1>19 DEF RetireOwnResult
  <2> QED  BY <2>1, <2>2, <2>3, <2>4
<1>20. CASE RetireSuperseded(a)
  <2>1. AgentWrites(a)
    BY <1>0, <1>k, <1>s, <1>20 DEF RetireSuperseded
  <2>2. AgentGoes(a)
    BY <1>0, <1>k, <1>s, <1>20 DEF RetireSuperseded
  <2>3. AgentStores(a)
    BY <1>0, <1>s, <1>20 DEF RetireSuperseded
  <2>4. AgentCheckpoints(a)
    BY <1>0, <1>s, <1>20 DEF RetireSuperseded
  <2> QED  BY <2>1, <2>2, <2>3, <2>4
<1>21. CASE DiscardCheckpoints(a)
  <2>1. AgentWrites(a)
    BY <1>0, <1>k, <1>s, <1>21 DEF DiscardCheckpoints
  <2>2. AgentGoes(a)
    BY <1>0, <1>k, <1>s, <1>21 DEF DiscardCheckpoints
  <2>3. AgentStores(a)
    BY <1>0, <1>s, <1>21 DEF DiscardCheckpoints
  <2>4. AgentCheckpoints(a)
    BY <1>0, <1>s, <1>21 DEF DiscardCheckpoints
  <2> QED  BY <2>1, <2>2, <2>3, <2>4
<1>22. CASE AgentDies(a)
  <2>1. AgentWrites(a)
    BY <1>0, <1>k, <1>s, <1>22 DEF AgentDies, Live, Gone
  <2>2. AgentGoes(a)
    BY <1>0, <1>k, <1>s, <1>22 DEF AgentDies, Live, Gone
  <2>3. AgentStores(a)
    BY <1>0, <1>s, <1>22 DEF AgentDies, Live, Gone
  <2>4. AgentCheckpoints(a)
    BY <1>0, <1>s, <1>22 DEF AgentDies, Live, Gone
  <2> QED  BY <2>1, <2>2, <2>3, <2>4
<1> QED
  BY <1>1, <1>2, <1>3, <1>4, <1>5, <1>6, <1>7, <1>8, <1>9, <1>10, <1>11,
     <1>12, <1>13, <1>14, <1>15, <1>16, <1>17, <1>18, <1>19, <1>20, <1>21,
     <1>22 DEF AgentStep

\* What a step of any other actor does to the run.
ApiWrites ==
  \/ Quiet(run, run') \/ FailsActive(run, run') \/ Cancels(run, run') \/ Discards(run, run')
  \/ Resumes(run, run') /\ agent' = agent

\* To the agents: it may start one.
ApiGoes ==
  \/ agent' = agent
  \/ /\ Quiet(run, run')
     /\ \E n \in Attempts :
          /\ agent[n] = "none"
          /\ \/ agent' = [agent EXCEPT ![n] = "starting"]
             \/ n = 1 /\ agent' = [agent EXCEPT ![n] = "loaded"]

\* And to the rest.
ApiKeeps ==
  /\ results' = results /\ step' = step /\ gap' = gap
  /\ \/ checkpoints' = checkpoints
     \/ checkpoints' = FALSE /\ \E q \in Requests : At(q, "purging")
     \/ Expires \/ \E q \in Cancellers : PurgesAnyway(q)
  /\ mishaps \subseteq mishaps'
  /\ \A q \in Requests : At(q, "purging")'
                           => At(q, "purging") \/ Cancels(run, run') \/ Discards(run, run')

ApiMove == ApiWrites /\ ApiGoes /\ ApiKeeps

\* The API's writes, by kind, of the run of a state.
LEMMA RunWriteKinds ==
  ASSUME TypeOK
  PROVE  /\ Quiet(run, run)
         /\ Quiet(run, Fail(run)) \/ FailsActive(run, Fail(run))
         /\ \A n \in RecordedAttempts :
              /\ Quiet(run, FailAttempt(run, n)) \/ FailsActive(run, FailAttempt(run, n))
              /\ Quiet(run, RequestPause(run, n))
              /\ Quiet(run, MarkCompletionHooksFired(run, n))
              /\ DiscardMatches(run, n) => Discards(run, Discarded(run))
              /\ BeginResumeMatches(run, n) => Resumes(run, BeginResume(run, n))
         /\ Quiet(run, CleanupStaleRuns(run)) \/ FailsActive(run, CleanupStaleRuns(run))
         /\ Cancels(run, Cancel(run))
         /\ Quiet(run, ClearExplorationCheckpointMarker(run))
         /\ Quiet(run, [run EXCEPT !.lapsed = TRUE])
<1>1. run \in RunDoc /\ 0 \in RecordedAttempts
  BY MaxAttemptAssumption DEF TypeOK, RecordedAttempts
<1> QED  BY <1>1, ApiWriteKinds

\* The watcher, the start request, and the passing of time.
LEMMA BackgroundMoves ==
  ASSUME TypeOK, AttemptsAreHandedOnce,
         \/ StarterStep \/ PauseLapses \/ Expires \/ UNCHANGED vars
         \/ \E a \in Attempts : WatcherFires(a) \/ WatcherGivesUp(a)
         \/ \E down \in BOOLEAN : ApiStarts(down)
  PROVE  ApiMove
<1>0. Attempts \subseteq RecordedAttempts /\ 1 \in Attempts /\ req \in [Requests -> ReqPc]
  BY MaxAttemptAssumption DEF RecordedAttempts, Attempts, TypeOK
<1> USE DEF ApiMove, ApiWrites, ApiGoes, ApiKeeps, Records, Befalls
<1>1. ASSUME NEW a \in Attempts, WatcherFires(a) \/ WatcherGivesUp(a) PROVE ApiMove
  BY <1>0, <1>1, RunWriteKinds DEF WatcherFires, WatcherGivesUp, watcherOnly, agentVars, At
<1>2. CASE StartSpawns
  BY <1>0, <1>2, RunWriteKinds DEF StartSpawns, starterOnly, AttemptsAreHandedOnce, Goto, At
<1>3. CASE StartLosesRace \/ StartDenied \/ StartAdmitted \/ StartSpawnFails
  BY <1>0, <1>3, RunWriteKinds DEF StartLosesRace, StartDenied, StartAdmitted, StartSpawnFails,
     starterOnly, At
<1>4. CASE PauseLapses
  BY <1>0, <1>4, RunWriteKinds DEF PauseLapses, reqOnly, reqFaulty, agentVars, At
<1>5. ASSUME NEW down \in BOOLEAN, ApiStarts(down) PROVE ApiMove
  <2>1. \A q \in Requests : At(q, "purging")' => At(q, "purging")
    BY <1>0, <1>5 DEF ApiStarts, At
  <2> QED  BY <1>5, <2>1, RunWriteKinds DEF ApiStarts, agentVars
<1>6. CASE UNCHANGED vars
  BY <1>0, <1>6, RunWriteKinds DEF vars, docVars, agentVars, apiVars, At
<1>7. CASE Expires
  BY <1>0, <1>7, RunWriteKinds DEF Expires, reqFaulty, agentVars, At
<1> QED  BY <1>1, <1>2, <1>3, <1>4, <1>5, <1>6, <1>7 DEF StarterStep

\* The requests and the dispatcher's ticks.
LEMMA RequestMoves ==
  ASSUME TypeOK, AttemptsAreHandedOnce, NEW q \in Requests,
         Arrives(q) \/ HandlerStep(q) \/ HandlerFails(q)
  PROVE  ApiMove
<1>0. /\ req \in [Requests -> ReqPc] /\ faults \in Int
      /\ \A p \in Requests : seen[p].attempt \in RecordedAttempts
  BY BoundsAssumption DEF TypeOK
<1> USE DEF ApiMove, ApiWrites, ApiGoes, ApiKeeps, docVars, agentVars, reqOnly, reqFaulty,
            Advance, At, Records, Befalls
<1>1. CASE ResumeReads(q) \/ CancelReads(q) \/ PauseReads(q) \/ DiscardReads(q) \/ PollLists(q)
  BY <1>0, <1>1, RunWriteKinds DEF ResumeReads, CancelReads, PauseReads, DiscardReads, PollLists
<1>2. CASE ResumeChecks(q) \/ BeginResumeReads(q) \/ CancelKills(q) \/ DiscardChecks(q)
  BY <1>0, <1>2, RunWriteKinds DEF ResumeChecks, BeginResumeReads, CancelKills, DiscardChecks
<1>3. CASE ResumeRefuses(q) \/ ResumeStandsDown(q) \/ PauseAsks(q) \/ PollMarks(q)
  BY <1>0, <1>3, RunWriteKinds DEF ResumeRefuses, ResumeStandsDown, PauseAsks, PollMarks
<1>4. CASE BeginResumeFlips(q) \/ FlipGoesUnanswered(q)
  BY <1>0, <1>4, RunWriteKinds DEF BeginResumeFlips, FlipGoesUnanswered
<1>5. CASE ResumeSpawns(q)
  <2>1. seen[q].attempt \in Attempts /\ agent[seen[q].attempt] = "none"
    BY <1>5 DEF ResumeSpawns, AttemptsAreHandedOnce, TypeOK
  <2> QED  BY <1>0, <1>5, <2>1, RunWriteKinds DEF ResumeSpawns, Goto
<1>6. CASE CancelWrites(q)
  <2>1. Quiet(run, run') \/ Cancels(run, run')
    BY <1>6, RunWriteKinds DEF CancelWrites
  <2>2. req' = [req EXCEPT ![q] = "purging"] => Cancels(run, run')
    <3>1. req' = [req EXCEPT ![q] = "purging"] => faults' = faults
      BY <1>0, <1>6 DEF CancelWrites, NoFault
    <3>2. faults' = faults => run' = Cancel(run)
      BY <1>0, <1>6 DEF CancelWrites, Fault
    <3> QED  BY <3>1, <3>2, RunWriteKinds
  <2>3. \/ req' = [req EXCEPT ![q] = "purging"]
        \/ req' = [req EXCEPT ![q] = "unsure"]
    BY <1>6 DEF CancelWrites
  <2>4. \A p \in Requests : req'[p] = "purging" => req[p] = "purging" \/ Cancels(run, run')
    BY <1>0, <2>2, <2>3
  <2>5. /\ agent' = agent /\ results' = results /\ step' = step /\ gap' = gap
        /\ checkpoints' = checkpoints /\ mishaps \subseteq mishaps'
    BY <1>6 DEF CancelWrites
  <2> QED  BY <2>1, <2>4, <2>5
<1>7. CASE DiscardWrites(q) \/ DiscardGoesUnanswered(q)
  BY <1>0, <1>7, RunWriteKinds DEF DiscardWrites, DiscardGoesUnanswered
<1>8. CASE PurgeCheckpoints(q)
  BY <1>0, <1>8, RunWriteKinds DEF PurgeCheckpoints
<1>9. CASE PollFires(q)
  BY <1>0, <1>9, RunWriteKinds DEF PollFires
<1>10. CASE PurgesAnyway(q)
  BY <1>0, <1>10, RunWriteKinds DEF PurgesAnyway
<1>11. CASE AnswersError(q)
  BY <1>0, <1>11, RunWriteKinds DEF AnswersError
<1> QED  BY <1>1, <1>2, <1>3, <1>4, <1>5, <1>6, <1>7, <1>8, <1>9, <1>10, <1>11
         DEF Arrives, HandlerStep, HandlerFails

\* The current attempt of a run is an attempt, and changes with its number only.
LEMMA Current ==
  ASSUME TypeOK
  PROVE  /\ CurrentAttempt(run) \in Attempts /\ Attempts \subseteq Nat
         /\ \A e \in RunDoc : e.attempt = run.attempt => CurrentAttempt(e) = CurrentAttempt(run)
BY MaxAttemptAssumption DEF TypeOK, RunDoc, RecordedAttempts, Attempts, CurrentAttempt

\* An attempt a run is resumed to has no agent yet.
LEMMA ResumedIsNew ==
  ASSUME TypeOK, TypeOK', AttemptsAreHandedOnce, Resumes(run, run')
  PROVE  /\ CurrentAttempt(run') = CurrentAttempt(run) + 1
         /\ CurrentAttempt(run') \in Attempts
         /\ agent[CurrentAttempt(run')] = "none"
<1>1. /\ CurrentAttempt(run) \in Attempts /\ Attempts \subseteq Nat
      /\ run'.attempt = CurrentAttempt(run) + 1 /\ run'.attempt \in RecordedAttempts
  BY Current DEF Resumes, TypeOK, RunDoc
<1>2. run'.attempt \in Attempts /\ CurrentAttempt(run') = run'.attempt
  BY <1>1, MaxAttemptAssumption DEF RecordedAttempts, Attempts, CurrentAttempt
<1>3. ~(run'.attempt <= CurrentAttempt(run))
  <2>1. CurrentAttempt(run) \in Int
    BY MaxAttemptAssumption DEF TypeOK, RunDoc, RecordedAttempts, CurrentAttempt
  <2> DEFINE cur == CurrentAttempt(run)
  <2>2. ASSUME NEW n \in Int PROVE ~(n + 1 <= n)
    OBVIOUS
  <2>3. ~(cur + 1 <= cur)
    BY <2>1, <2>2
  <2> QED  BY <1>1, <2>3
<1> QED  BY <1>1, <1>2, <1>3 DEF AttemptsAreHandedOnce

\* A run that is left alone, or failed, cancelled, discarded or resumed, keeps
\* what RunInv says of it.
LEMMA ApiKeepsInv ==
  ASSUME TypeOK, TypeOK', AttemptsAreHandedOnce, RunInv, ApiMove
  PROVE  RunInv'
<1>0. /\ run \in RunDoc /\ run' \in RunDoc /\ agent \in [Attempts -> AgentPc]
      /\ CurrentAttempt(run) \in Attempts /\ Attempts \subseteq Nat
      /\ step \in [Attempts -> Nat]
      /\ NoDiscovery \notin Attempts /\ run.discovery \in {NoDiscovery} \cup Attempts
  BY Current, BoundsAssumption DEF TypeOK, RunDoc, NoDiscovery, Attempts
<1>r. Resumes(run, run') => /\ CurrentAttempt(run') \in Attempts
                            /\ agent[CurrentAttempt(run')] = "none" /\ agent' = agent
                            /\ run'.status = "running" /\ run'.discovery = NoDiscovery
                            /\ ~run'.discarded /\ ~run.discarded
                            /\ run.status \in {"failed", "paused"}
  <2>1. Resumes(run, run') => agent' = agent
    BY DEF ApiMove, ApiWrites, Quiet, FailsActive, Cancels, Discards, Resumes, Active, Resumable,
           Keeps
  <2> QED  BY <2>1, ResumedIsNew DEF Resumes, Resumable
<1>s. Resumes(run, run') \/ CurrentAttempt(run') = CurrentAttempt(run)
  BY <1>0, Current DEF ApiMove, ApiWrites, Quiet, FailsActive, Cancels, Discards, Keeps
<1>g. /\ \A a \in Attempts : agent[a] # "none" => agent'[a] = agent[a]
      /\ \A a \in Attempts : \/ agent'[a] = agent[a]
                             \/ agent[a] = "none" /\ (agent'[a] = "starting" \/ (a = 1 /\ agent'[a] = "loaded"))
  BY <1>0 DEF ApiMove, ApiGoes
<1>t. /\ PrefixTaken => PrefixTaken'
      /\ \/ checkpoints' = checkpoints \/ PrefixTaken'
         \/ checkpoints' = FALSE /\ \E q \in Requests : At(q, "purging")
  BY DEF ApiMove, ApiKeeps, PrefixTaken, Expires, PurgesAnyway, Befalls
<1> USE DEF ApiMove, ApiWrites, ApiKeeps, Quiet, FailsActive, Cancels, Discards, Keeps, Active
<1>1. EndedOnce'
  <2>1. CASE Resumes(run, run')
    BY <1>r, <2>1 DEF EndedOnce
  <2>2. CASE ~Resumes(run, run')
    <3>1. CurrentAttempt(run)' = CurrentAttempt(run)
      BY <1>s, <2>2
    <3>2. agent[CurrentAttempt(run)] \in PastTheEnd => agent'[CurrentAttempt(run)] \in PastTheEnd
      BY <1>0, <1>g DEF PastTheEnd
    <3>3. run.discovery # NoDiscovery /\ agent[run.discovery] \in PastTheEnd
            => agent'[run.discovery] \in PastTheEnd
      BY <1>0, <1>g DEF PastTheEnd
    <3> QED  BY <2>2, <3>1, <3>2, <3>3 DEF RunInv, EndedOnce
  <2> QED  BY <2>1, <2>2
<1>2. ResultsKept'
  <2>1. CASE Resumes(run, run')
    BY <1>0, <1>r, <2>1 DEF ResultsKept, StampedResultIsStored
  <2>2. CASE ~Resumes(run, run')
    <3>1. CurrentAttempt(run)' = CurrentAttempt(run) /\ run'.discovery = run.discovery
      BY <1>s, <2>2
    <3>2. \A a \in Attempts : agent'[a] \in {"saved", "indexed", "claimed", "fail_claimed"}
                                => agent[a] = agent'[a]
      BY <1>g
    <3> QED  BY <3>1, <3>2 DEF RunInv, ResultsKept, StampedResultIsStored
  <2> QED  BY <2>1, <2>2
<1>3. Purgers'
  <2>1. \A a \in Attempts : agent'[a] \in {"claimed", "retired"} => agent[a] = agent'[a]
    BY <1>g
  <2>2. run.status \in {"completed", "cancelled"} => run'.status \in {"completed", "cancelled"}
    BY <1>r
  <2>3. run.status = "cancelled" \/ run.discarded => run'.status = "cancelled" \/ run'.discarded
    BY <1>r
  <2>4. Cancels(run, run') \/ Discards(run, run') => run'.status = "cancelled" \/ run'.discarded
    OBVIOUS
  <2>5. \A a \in Attempts : agent'[a] \in {"claimed", "retired"}
                              => run'.status \in {"completed", "cancelled"}
    BY <2>1, <2>2 DEF RunInv, Purgers
  <2>6. \A q \in Requests : At(q, "purging")' => run'.status = "cancelled" \/ run'.discarded
    BY <2>3, <2>4 DEF RunInv, Purgers
  <2> QED  BY <2>5, <2>6 DEF Purgers
<1>4. PrefixKept'
  <2>1. \A a \in Attempts : agent'[a] = "none" => step'[a] = 0
    BY <1>g DEF RunInv, PrefixKept
  <2>2. \A a \in Attempts : agent'[a] = "pausing" => a \notin gap' /\ HasStep(a)'
    BY <1>g DEF RunInv, PrefixKept, HasStep
  <2>3. ASSUME NEW a \in Attempts, agent'[a] \in Explores, a = CurrentAttempt(run'),
               a \notin gap', HasStep(a)'
        PROVE  checkpoints' \/ PrefixTaken' \/ run'.status = "cancelled" \/ run'.discarded
    <3>1. agent'[a] = agent[a]
      <4>1. CASE agent[a] = "none"
        BY <1>0, <1>g, <2>3, <4>1 DEF RunInv, PrefixKept, HasStep, Explores
      <4> QED  BY <1>g, <4>1
    <3>2. ~Resumes(run, run')
      BY <1>r, <2>3, <3>1 DEF Explores
    <3>3. checkpoints \/ PrefixTaken \/ run.status = "cancelled" \/ run.discarded
      BY <1>s, <2>3, <3>1, <3>2 DEF RunInv, PrefixKept, HasStep
    <3>4. run.status = "cancelled" \/ run.discarded => run'.status = "cancelled" \/ run'.discarded
      BY <1>r
    <3> QED  BY <1>t, <3>3, <3>4 DEF RunInv, Purgers
  <2> QED  BY <2>1, <2>2, <2>3 DEF PrefixKept
<1>5. PausedIsResumable'
  <2> SUFFICES ASSUME run'.status = "paused"
               PROVE  (checkpoints' \/ PrefixTaken') /\ run'.pauseReq = NoRequest
    BY DEF PausedIsResumable
  <2>1. Quiet(run, run') /\ run.status = "paused"
    BY <1>r DEF RunInv, EndedOnce
  <2>2. (checkpoints \/ PrefixTaken) /\ run.pauseReq = NoRequest
    BY <2>1 DEF RunInv, PausedIsResumable
  <2>3. ~run.discarded
    BY <2>1 DEF RunInv, EndedOnce
  <2> QED  BY <1>t, <2>1, <2>2, <2>3 DEF RunInv, Purgers
<1> QED  BY <1>1, <1>2, <1>3, <1>4, <1>5 DEF RunInv

\* A step of an agent keeps what RunInv says of the run: it writes to a run that
\* is its own, and only before its end.
LEMMA AgentKeepsInv ==
  ASSUME TypeOK, TypeOK', AttemptsAreHandedOnce, RunInv, NEW a \in Attempts,
         AgentWrites(a), AgentGoes(a), AgentStores(a), AgentCheckpoints(a),
         req' = req, mishaps' = mishaps
  PROVE  RunInv'
<1> DEFINE cur == CurrentAttempt(run)
<1>0. /\ run \in RunDoc /\ run' \in RunDoc /\ agent \in [Attempts -> AgentPc]
      /\ cur \in Attempts /\ Attempts \subseteq Nat
      /\ step \in [Attempts -> Nat] /\ step' \in [Attempts -> Nat]
      /\ NoDiscovery \notin Attempts /\ run.discovery \in {NoDiscovery} \cup Attempts
  BY Current, BoundsAssumption DEF TypeOK, RunDoc, NoDiscovery, Attempts
<1>1. CurrentAttempt(run') = cur
  BY <1>0, Current DEF AgentWrites, Quiet, Works, Completes, FailsOwn, Pauses, Keeps
<1>2. \A b \in Attempts \ {a} : agent'[b] = agent[b]
  BY <1>0 DEF AgentGoes
\* The agent of a run that has ended writes to it no more.
<1>3. agent[a] \in BeforeTheEnd /\ a = cur
        => run.status \notin {"paused", "completed"} /\ run.discovery = NoDiscovery
  BY DEF RunInv, EndedOnce, BeforeTheEnd, PastTheEnd
<1>t. PrefixTaken' <=> PrefixTaken
  BY DEF PrefixTaken
<1> HIDE DEF cur
<1> USE DEF AgentWrites, Quiet, Works, Completes, FailsOwn, Pauses, Keeps, Active
<1>4. EndedOnce'
  <2>1. \A b \in Attempts : agent[b] \in PastTheEnd => agent'[b] \in PastTheEnd
    BY <1>2 DEF AgentGoes
  <2>2. CASE Quiet(run, run')
    BY <1>0, <1>1, <2>1, <2>2 DEF RunInv, EndedOnce, cur
  <2>3. CASE Works(run, run', a) /\ agent[a] \in BeforeTheEnd
    BY <1>0, <1>1, <1>3, <2>3 DEF EndedOnce, cur
  <2>4. CASE \/ Completes(run, run', a) /\ agent'[a] \in {"claimed", "died"}
             \/ FailsOwn(run, run', a) /\ agent'[a] \in {"fail_claimed", "died"}
    <3>1. /\ run'.discovery = a /\ a = cur /\ agent'[a] \in PastTheEnd
          /\ run'.status \in {"completed", "failed"} /\ run'.discarded = run.discarded
      BY <2>4 DEF cur, PastTheEnd
    <3>2. run.discarded => run'.status \in {"failed", "cancelled"}
      BY <2>4 DEF RunInv, EndedOnce
    <3> QED  BY <1>1, <3>1, <3>2 DEF EndedOnce, cur
  <2>5. CASE Pauses(run, run', a) /\ agent[a] = "pausing" /\ agent'[a] \in {"exited", "died"}
    <3>1. run.discovery = NoDiscovery /\ a = cur /\ agent'[a] \in PastTheEnd
      BY <1>3, <2>5 DEF BeforeTheEnd, PastTheEnd, cur
    <3> QED  BY <1>1, <2>5, <3>1 DEF EndedOnce, cur
  <2> QED  BY <2>2, <2>3, <2>4, <2>5
<1>5. ResultsKept'
  <2>1. a <= cur
    BY DEF AgentGoes, AttemptsAreHandedOnce, cur
  \* An agent that deletes results deletes none of the current attempt, unless it is
  \* its own and the run does not point at it.
  <2>2. \A r \in results : r \in results' \/ r < a \/ (r = a /\ agent[a] = "superseded")
    BY <1>0 DEF AgentStores, TypeOK
  <2>3. \A b \in Attempts : agent'[b] \in {"saved", "indexed"} /\ b = cur => b \in results'
    <3>1. ASSUME NEW b \in Attempts, b # a, agent'[b] \in {"saved", "indexed"}, b = cur
          PROVE  b \in results'
      BY <1>0, <1>2, <2>1, <2>2, <3>1 DEF RunInv, ResultsKept, cur
    <3>2. CASE agent'[a] \in {"saved", "indexed"} /\ a = cur
      BY <3>2 DEF AgentStores, RunInv, ResultsKept, cur
    <3> QED  BY <3>1, <3>2
  <2>4. StampedResultIsStored'
    <3> SUFFICES ASSUME run'.discovery # NoDiscovery PROVE run'.discovery \in results'
      BY DEF StampedResultIsStored
    <3>1. CASE run'.discovery = run.discovery
      <4>1. run.discovery \in results /\ run.discovery = cur /\ agent[run.discovery] \in PastTheEnd
        BY <3>1 DEF RunInv, ResultsKept, StampedResultIsStored, EndedOnce, cur
      <4>2. ~(run.discovery < a)
        BY <1>0, <2>1, <4>1
      <4>3. ~(run.discovery = a /\ agent[a] = "superseded")
        BY <4>1 DEF PastTheEnd
      <4> QED  BY <2>2, <3>1, <4>1, <4>2, <4>3
    <3>2. CASE run'.discovery # run.discovery
      <4>1. run'.discovery = a /\ a = cur /\ agent[a] \in {"saved", "indexed"}
        BY <3>2 DEF cur
      <4>2. a \in results /\ agent[a] # "superseded"
        BY <4>1 DEF RunInv, ResultsKept, cur
      <4> QED  BY <1>0, <2>2, <4>1, <4>2
    <3> QED  BY <3>1, <3>2
  <2>5. ASSUME NEW b \in Attempts, agent'[b] \in {"claimed", "fail_claimed"},
               run'.discovery # NoDiscovery
        PROVE  run'.discovery >= b
    <3>1. CASE run'.discovery # run.discovery
      <4>1. run'.discovery = cur
        BY <3>1 DEF cur
      <4>2. b <= cur
        BY <1>2, <2>1, <2>5 DEF AttemptsAreHandedOnce, cur
      <4> QED  BY <1>0, <4>1, <4>2
    <3>2. CASE run'.discovery = run.discovery /\ b # a
      BY <1>2, <2>5, <3>2 DEF RunInv, ResultsKept
    <3>3. CASE run'.discovery = run.discovery /\ b = a
      <4>1. Completes(run, run', a) \/ FailsOwn(run, run', a)
        BY <2>5, <3>3 DEF AgentGoes
      <4> QED  BY <1>0, <3>3, <4>1
    <3> QED  BY <3>1, <3>2, <3>3
  <2> QED  BY <1>1, <2>3, <2>4, <2>5 DEF ResultsKept
<1>6. Purgers'
  <2>1. run.status = "cancelled" \/ run.discarded => run'.status = "cancelled" \/ run'.discarded
    OBVIOUS
  <2>2. ASSUME NEW b \in Attempts, agent'[b] \in {"claimed", "retired"}
        PROVE  run'.status \in {"completed", "cancelled"}
    <3>1. CASE b = a /\ agent'[a] = "claimed"
      BY <3>1 DEF AgentGoes
    <3>2. CASE agent[b] \in {"claimed", "retired"}
      <4>1. run.status \in {"completed", "cancelled"}
        BY <3>2 DEF RunInv, Purgers
      <4>2. agent[a] \in BeforeTheEnd /\ a = cur => run.status = "cancelled"
        BY <1>3, <4>1
      <4> QED  BY <4>1, <4>2 DEF cur, BeforeTheEnd
    <3> QED  BY <1>2, <2>2, <3>1, <3>2 DEF AgentGoes
  <2> QED  BY <2>1, <2>2 DEF RunInv, Purgers, At
<1>7. PrefixKept'
  <2>1. \A b \in Attempts : agent'[b] = "none" => step'[b] = 0
    BY <1>0, <1>2 DEF AgentGoes, AgentCheckpoints, RunInv, PrefixKept
  <2>2. \A b \in Attempts : agent'[b] = "pausing" => b \notin gap' /\ HasStep(b)'
    BY <1>2 DEF AgentCheckpoints, RunInv, PrefixKept, HasStep
  <2>3. ASSUME NEW b \in Attempts, agent'[b] \in Explores, b = CurrentAttempt(run'),
               b \notin gap', HasStep(b)'
        PROVE  checkpoints' \/ PrefixTaken' \/ run'.status = "cancelled" \/ run'.discarded
    <3>1. \/ checkpoints'
          \/ agent[b] \in Explores /\ b \notin gap /\ HasStep(b)
      BY <1>2, <2>3 DEF AgentCheckpoints, HasStep
    <3>2. agent[b] \in Explores /\ b \notin gap /\ HasStep(b)
            => checkpoints \/ PrefixTaken \/ run.status = "cancelled" \/ run.discarded
      BY <1>1, <2>3 DEF RunInv, PrefixKept, cur
    <3>3. run.status = "cancelled" \/ run.discarded => run'.status = "cancelled" \/ run'.discarded
      OBVIOUS
    <3>4. agent[b] \in Explores /\ agent[a] = "retired" => run.status = "cancelled"
      BY <1>1, <2>3 DEF RunInv, Purgers, EndedOnce, Explores, PastTheEnd, cur
    <3> QED  BY <1>t, <3>1, <3>2, <3>3, <3>4 DEF AgentCheckpoints
  <2> QED  BY <2>1, <2>2, <2>3 DEF PrefixKept
<1>8. PausedIsResumable'
  <2> SUFFICES ASSUME run'.status = "paused"
               PROVE  (checkpoints' \/ PrefixTaken') /\ run'.pauseReq = NoRequest
    BY DEF PausedIsResumable
  <2>1. CASE Quiet(run, run')
    <3>1. /\ checkpoints \/ PrefixTaken
          /\ run'.pauseReq = NoRequest /\ run.status = "paused"
      BY <2>1 DEF RunInv, PausedIsResumable
    <3>2. agent[a] # "retired"
      BY <3>1 DEF RunInv, Purgers
    <3> QED  BY <1>t, <3>1, <3>2 DEF AgentCheckpoints
  <2>2. CASE Pauses(run, run', a) /\ agent[a] = "pausing"
    <3>1. checkpoints \/ PrefixTaken
      BY <2>2 DEF RunInv, PrefixKept, Explores
    <3> QED  BY <1>t, <2>2, <3>1 DEF AgentCheckpoints
  <2> QED  BY <2>1, <2>2
<1> QED  BY <1>4, <1>5, <1>6, <1>7, <1>8 DEF RunInv

\* RunInv is kept by every step.
LEMMA RunInvStep ==
  ASSUME TypeOK, TypeOK', AttemptsAreHandedOnce, RunInv, [Next]_vars
  PROVE  RunInv'
<1>1. ASSUME NEW a \in Attempts, AgentStep(a) \/ AgentDies(a) PROVE RunInv'
  <2>1. AgentWrites(a) /\ AgentGoes(a) /\ AgentStores(a) /\ AgentCheckpoints(a)
    BY <1>1, AgentMoves DEF RunInv, PrefixKept
  <2> QED  BY <1>1, <2>1, AgentStepShape, AgentKeepsInv
<1>2. CASE ~\E a \in Attempts : AgentStep(a) \/ AgentDies(a)
  <2>1. ApiMove
    BY <1>2, BackgroundMoves, RequestMoves DEF Next
  <2> QED  BY <2>1, ApiKeepsInv
<1> QED  BY <1>1, <1>2

\* A run nobody has worked on is not paused, completed, cancelled or discarded, and
\* its agent, if it has one, has been through no step.
LEMMA RunInvInit == ASSUME Init PROVE RunInv
<1>1. /\ run.status = "pending" /\ run.discovery = NoDiscovery /\ ~run.discarded
      /\ results = {}
  BY DEF Init, Created
<1>2. \A a \in Attempts : /\ agent[a] \in {"none", "loaded"} /\ step[a] = 0
                          /\ agent[a] = "loaded" => a = 1
  BY DEF Init
<1>3. \A q \in Requests : ~At(q, "purging")
  BY DEF Init, At
<1>4. EndedOnce /\ ResultsKept /\ Purgers /\ PausedIsResumable
  BY <1>1, <1>2, <1>3
     DEF EndedOnce, ResultsKept, StampedResultIsStored, Purgers, PausedIsResumable
<1>5. PrefixKept
  <2>1. \A a \in Attempts : agent[a] = "loaded" => ~HasStep(a)
    BY <1>2 DEF HasStep
  <2> QED  BY <1>2, <2>1 DEF PrefixKept, Explores
<1> QED  BY <1>4, <1>5 DEF RunInv

\* RunInv holds in every behaviour.
THEOREM RunInvariant == Spec => []RunInv
<1>1. Init => RunInv
  BY RunInvInit
<1>2. /\ TypeOK /\ TypeOK' /\ AttemptsAreHandedOnce /\ RunInv /\ [Next]_vars => RunInv'
  BY RunInvStep
<1> QED  BY <1>1, <1>2, TypeCorrect, HandedOnce, PTL DEF Spec

\* StampedResultIsStored: the discovery_id of a run names a stored result, whichever
\* attempts retire whichever results in whichever order (retireSuperseded,
\* retireOwnResult, classifyUnappliedTerminal).
THEOREM StampedStored == Spec => []StampedResultIsStored
<1>1. RunInv => StampedResultIsStored
  BY DEF RunInv, ResultsKept
<1> QED  BY <1>1, RunInvariant, PTL

\* PausedIsResumable: a paused run has no pause request left, and a prefix to resume
\* from unless its retention took it or a cancel whose write failed, whichever
\* checkpoint writes failed and whoever else purges (pauseAttempt, hasResumePoint,
\* discardCheckpoints).
THEOREM PausedResumable == Spec => []PausedIsResumable
<1>1. RunInv => PausedIsResumable
  BY DEF RunInv
<1> QED  BY <1>1, RunInvariant, PTL

\* A step that deletes the checkpoints finds a run nobody will resume, or is one of
\* the two that do not look.
LEMMA OutliveStep ==
  ASSUME TypeOK, AttemptsAreHandedOnce, RunInv, [Next]_vars, checkpoints, ~checkpoints'
  PROVE  \/ run.status \in {"completed", "cancelled"} \/ run.discarded
         \/ Expires \/ \E q \in Cancellers : PurgesAnyway(q)
<1>1. ASSUME NEW a \in Attempts, AgentStep(a) \/ AgentDies(a)
      PROVE  run.status \in {"completed", "cancelled"}
  <2>1. AgentCheckpoints(a)
    BY <1>1, AgentMoves DEF RunInv, PrefixKept
  <2>2. agent[a] = "retired"
    BY <2>1 DEF AgentCheckpoints
  <2> QED  BY <2>2 DEF RunInv, Purgers
<1>2. CASE ~\E a \in Attempts : AgentStep(a) \/ AgentDies(a)
  <2>1. ApiMove
    BY <1>2, BackgroundMoves, RequestMoves DEF Next
  <2> QED  BY <2>1 DEF ApiMove, ApiKeeps, RunInv, Purgers
<1> QED  BY <1>1, <1>2

\* CheckpointsOutliveFailure: nothing deletes the checkpoints of a run that may
\* still be resumed (discardCheckpoints, CancelRun, DiscardRun), their retention and
\* a cancel whose write failed apart.
THEOREM OutliveFailure == Spec => CheckpointsOutliveFailure
<1>1. TypeOK /\ AttemptsAreHandedOnce /\ RunInv /\ [Next]_vars
        => [checkpoints /\ ~checkpoints' => \/ run.status \in {"completed", "cancelled"}
                                           \/ run.discarded
                                           \/ Expires
                                           \/ \E q \in Cancellers : PurgesAnyway(q)]_vars
  BY OutliveStep
<1> QED  BY <1>1, TypeCorrect, HandedOnce, RunInvariant, PTL DEF Spec, CheckpointsOutliveFailure

-----------------------------------------------------------------------------
(* The run is a run as RunPromise describes it.                             *)

\* What an agent writes to a run that is its own is a step of the promise: the run
\* is not settled before its attempt's last write.
LEMMA PromiseOfAgent ==
  ASSUME TypeOK, TypeOK', RunInv, NEW a \in Attempts, AgentWrites(a)
  PROVE  [Promise!PromiseNext]_(Promise!promiseVars)
<1>0. /\ run \in RunDoc /\ run' \in RunDoc
      /\ run'.attempt = run.attempt /\ CurrentAttempt(run)' = CurrentAttempt(run)
  BY Current DEF TypeOK, AgentWrites, Quiet, Works, Completes, FailsOwn, Pauses, Keeps
<1>1. agent[a] \in BeforeTheEnd /\ a = CurrentAttempt(run)
        => run.status \notin {"paused", "completed"} /\ run.discovery = NoDiscovery
  BY DEF RunInv, EndedOnce, BeforeTheEnd, PastTheEnd
<1>2. Active(run) => run.discovery = NoDiscovery
  BY DEF RunInv, EndedOnce
<1> USE DEF NoDiscovery, Promise!NoResult, Keeps
<1>3. CASE Quiet(run, run')
  BY <1>0, <1>3 DEF Quiet, Promise!promiseVars
<1>4. CASE Works(run, run', a) /\ agent[a] \in BeforeTheEnd
  <2>1. Promise!Unsettled
    BY <1>0, <1>1, <1>4 DEF Works, RunDoc, Status, Promise!Unsettled
  <2>2. Promise!Works
    BY <1>0, <1>4, <2>1 DEF Works, Promise!Works
  <2> QED  BY <2>2 DEF Promise!PromiseNext
<1>5. CASE Completes(run, run', a) /\ agent[a] \in {"saved", "indexed"}
  <2>1. Promise!Unsettled
    BY <1>0, <1>1, <1>5 DEF Completes, BeforeTheEnd, RunDoc, Status, Promise!Unsettled
  <2>2. Promise!Completes
    BY <1>0, <1>5, <2>1 DEF Completes, Promise!Completes
  <2> QED  BY <2>2 DEF Promise!PromiseNext
<1>6. CASE FailsOwn(run, run', a)
  <2>1. Promise!Fails
    BY <1>0, <1>2, <1>6 DEF FailsOwn, Active, Promise!Fails
  <2> QED  BY <2>1 DEF Promise!PromiseNext
<1>7. CASE Pauses(run, run', a)
  <2>1. Promise!Pauses
    BY <1>0, <1>7 DEF Pauses, Promise!Pauses
  <2> QED  BY <2>1 DEF Promise!PromiseNext
<1> QED  BY <1>3, <1>4, <1>5, <1>6, <1>7 DEF AgentWrites

\* And so is what any other actor writes.
LEMMA PromiseOfApi ==
  ASSUME TypeOK, TypeOK', RunInv, ApiMove
  PROVE  [Promise!PromiseNext]_(Promise!promiseVars)
<1>0. /\ run \in RunDoc /\ run' \in RunDoc
      /\ run'.attempt = run.attempt => CurrentAttempt(run)' = CurrentAttempt(run)
  BY Current DEF TypeOK
<1>1. Active(run) => run.discovery = NoDiscovery
  BY DEF RunInv, EndedOnce
<1> USE DEF NoDiscovery, Promise!NoResult, Keeps
<1>2. CASE Quiet(run, run')
  BY <1>0, <1>2 DEF Quiet, Promise!promiseVars
<1>3. CASE FailsActive(run, run')
  <2>1. Promise!Fails
    BY <1>0, <1>1, <1>3 DEF FailsActive, Active, Promise!Fails
  <2> QED  BY <2>1 DEF Promise!PromiseNext
<1>4. CASE Cancels(run, run')
  <2>1. Promise!Cancels
    BY <1>0, <1>4 DEF Cancels, Promise!Cancels
  <2> QED  BY <2>1 DEF Promise!PromiseNext
<1>5. CASE Discards(run, run')
  <2>1. Promise!Discards
    BY <1>0, <1>5 DEF Discards, Promise!Discards
  <2> QED  BY <2>1 DEF Promise!PromiseNext
<1>6. CASE Resumes(run, run')
  <2>1. CurrentAttempt(run') = CurrentAttempt(run) + 1
    <3>1. run'.attempt # 0
      BY <1>6, Current DEF Resumes
    <3> QED  BY <1>6, <3>1 DEF Resumes, CurrentAttempt
  <2>2. Promise!Resumes
    BY <1>0, <1>6, <2>1 DEF Resumes, Resumable, Promise!Resumes
  <2> QED  BY <2>2 DEF Promise!PromiseNext
<1> QED  BY <1>2, <1>3, <1>4, <1>5, <1>6 DEF ApiMove, ApiWrites

\* ImplementsRunPromise: whatever the handlers, agents, watchers and sweeps do to
\* each other, the run is one as RunPromise describes it.
THEOREM PromiseKept == Spec => ImplementsRunPromise
<1>1. Init => Promise!PromiseInit
  BY DEF Init, Created, CurrentAttempt, NoDiscovery, Promise!PromiseInit, Promise!NoResult
<1>2. /\ TypeOK /\ TypeOK' /\ AttemptsAreHandedOnce /\ RunInv /\ [Next]_vars
        => [Promise!PromiseNext]_(Promise!promiseVars)
  <2> SUFFICES ASSUME TypeOK, TypeOK', AttemptsAreHandedOnce, RunInv, [Next]_vars
               PROVE  [Promise!PromiseNext]_(Promise!promiseVars)
    OBVIOUS
  <2>1. ASSUME NEW a \in Attempts, AgentStep(a) \/ AgentDies(a)
        PROVE  [Promise!PromiseNext]_(Promise!promiseVars)
    <3>1. AgentWrites(a)
      BY <2>1, AgentMoves DEF RunInv, PrefixKept
    <3> QED  BY <3>1, PromiseOfAgent
  <2>2. CASE ~\E a \in Attempts : AgentStep(a) \/ AgentDies(a)
    <3>1. ApiMove
      BY <2>2, BackgroundMoves, RequestMoves DEF Next
    <3> QED  BY <3>1, PromiseOfApi
  <2> QED  BY <2>1, <2>2
<1> QED  BY <1>1, <1>2, TypeCorrect, HandedOnce, RunInvariant, PTL
         DEF Spec, ImplementsRunPromise, Promise!PromiseSpec

-----------------------------------------------------------------------------
(* The completion hooks cover the attempt they are stamped for.             *)

\* A tick that fires the hooks has read an attempt it can only mark if the run is
\* still at it, and one that marks has fired them for that attempt.  A run without
\* a number and a run at attempt 1 are both matched by a read of 0 or 1, but none
\* ever turns into the other.
HooksInv ==
  /\ HooksCoverAttempt
  /\ \A q \in Requests :
       At(q, "firing") \/ At(q, "marking")
         => (seen[q].attempt <= 1 /\ run.attempt <= 1 => seen[q].attempt = run.attempt)
  /\ \A q \in Requests :
       At(q, "marking") => \E d \in dispatched : d[1] = seen[q].attempt

\* What every other step does: the stamp stays with its attempt, or a resume clears
\* it and moves on, and no tick gets further.
HooksRest ==
  /\ \/ run'.attempt = run.attempt /\ run'.hooks = run.hooks
     \/ run'.attempt > 1 /\ run'.hooks = FALSE
  /\ dispatched' = dispatched
  /\ \A q \in Requests : At(q, "firing")' \/ At(q, "marking")'
                           => req'[q] = req[q] /\ seen'[q] = seen[q]

\* Steps that are HooksRest keep HooksInv.
LEMMA HooksKept ==
  ASSUME TypeOK, TypeOK', HooksInv, HooksRest
  PROVE  HooksInv'
<1>0. run'.attempt \in RecordedAttempts /\ RecordedAttempts \subseteq Int
  BY MaxAttemptAssumption DEF TypeOK, RunDoc, RecordedAttempts
<1>1. HooksCoverAttempt'
  BY DEF HooksInv, HooksCoverAttempt, HooksRest
<1>2. ASSUME NEW q \in Requests, At(q, "firing")' \/ At(q, "marking")'
      PROVE  /\ seen'[q].attempt <= 1 /\ run'.attempt <= 1 => seen'[q].attempt = run'.attempt
             /\ At(q, "marking")' => \E d \in dispatched' : d[1] = seen'[q].attempt
  <2>1. /\ At(q, "firing")' => At(q, "firing")
        /\ At(q, "marking")' => At(q, "marking")
        /\ seen'[q] = seen[q]
    BY <1>2 DEF HooksRest, At
  <2>2. run'.attempt > 1 => ~(run'.attempt <= 1)
    <3>1. \A n \in Int : n > 1 => ~(n <= 1)
      OBVIOUS
    <3> QED  BY <1>0, <3>1
  <2> QED  BY <1>2, <2>1, <2>2 DEF HooksInv, HooksRest
<1> QED  BY <1>1, <1>2 DEF HooksInv

\* The agents leave the dispatcher alone.
LEMMA AgentsRest ==
  ASSUME TypeOK, NEW a \in Attempts, AgentStep(a) \/ AgentDies(a)
  PROVE  HooksRest
<1>0. a \in RecordedAttempts
  BY MaxAttemptAssumption DEF Attempts, RecordedAttempts
<1>k. /\ UpdateStatus(run, a, TRUE).hooks = run.hooks
      /\ UpdateStatus(run, a, FALSE).hooks = run.hooks
      /\ Complete(run, a).hooks = run.hooks
      /\ AgentFail(run, a).hooks = run.hooks
      /\ MarkExplorationCheckpoint(run, a).hooks = run.hooks
      /\ Pause(run, a).hooks = run.hooks
  BY <1>0, WritesKeepHooks DEF TypeOK
<1> DEFINE Same == run'.hooks = run.hooks /\ dispatched' = dispatched
<1> USE DEF apiVars, Goto
<1>2. CASE \/ LoadResumeState(a) \/ StopBeforeIndex(a) \/ StepGate(a)
           \/ FinishExploration(a) \/ AreaGate(a) \/ OwnershipGate(a)
           \/ ClassifyUnapplied(a)
  <2>1. Same
    BY <1>2 DEF LoadResumeState, StopBeforeIndex, StepGate, FinishExploration,
                AreaGate, OwnershipGate, ClassifyUnapplied, agentOnly
  <2> QED  BY <2>1, AgentStepShape DEF HooksRest
<1>3. CASE SaveStep(a)
  <2>1. Same
    BY <1>3 DEF SaveStep
  <2> QED  BY <2>1, AgentStepShape DEF HooksRest
<1>4. CASE RetireOwnResult(a) \/ RetireSuperseded(a) \/ DiscardCheckpoints(a)
  <2>1. Same
    BY <1>4 DEF RetireOwnResult, RetireSuperseded, DiscardCheckpoints
  <2> QED  BY <2>1, AgentStepShape DEF HooksRest
<1>5. CASE \/ BeginExploration(a) \/ BeginAnalysis(a) \/ BeginRecommendations(a)
           \/ SaveResult(a) \/ IndexResult(a) \/ FinishStep(a)
  <2>1. Same
    BY <1>k, <1>5 DEF BeginExploration, BeginAnalysis, BeginRecommendations,
                      SaveResult, IndexResult, FinishStep
  <2> QED  BY <2>1, AgentStepShape DEF HooksRest
<1>6. CASE \/ MarkStep(a) \/ RecordPause(a) \/ TerminalComplete(a)
           \/ TerminalFail(a)
  <2>1. Same
    BY <1>k, <1>6 DEF MarkStep, RecordPause, TerminalComplete, TerminalFail
  <2> QED  BY <2>1, AgentStepShape DEF HooksRest
<1>7. CASE AgentDies(a)
  <2>1. Same
    BY <1>7 DEF AgentDies, agentOnly
  <2> QED  BY <2>1, AgentStepShape DEF HooksRest
<1> QED  BY <1>2, <1>3, <1>4, <1>5, <1>6, <1>7 DEF AgentStep

\* So do the start request, the watchers, the sweep and the passing of time.
LEMMA BackgroundRests ==
  ASSUME TypeOK,
         \/ StarterStep \/ PauseLapses \/ Expires \/ UNCHANGED vars
         \/ \E a \in Attempts : WatcherFires(a) \/ WatcherGivesUp(a)
         \/ \E down \in BOOLEAN : ApiStarts(down)
  PROVE  HooksRest
<1>0. /\ Attempts \subseteq RecordedAttempts /\ 1 \in RecordedAttempts
      /\ run \in RunDoc /\ req \in [Requests -> ReqPc]
  BY MaxAttemptAssumption DEF RecordedAttempts, Attempts, TypeOK
<1>k. /\ Fail(run).hooks = run.hooks /\ Fail(run).attempt = run.attempt
      /\ Cancel(run).hooks = run.hooks /\ Cancel(run).attempt = run.attempt
      /\ CleanupStaleRuns(run).hooks = run.hooks /\ CleanupStaleRuns(run).attempt = run.attempt
      /\ \A n \in RecordedAttempts : /\ FailAttempt(run, n).hooks = run.hooks
                                     /\ FailAttempt(run, n).attempt = run.attempt
  BY <1>0, WritesKeepHooks, WritesKeepAttempt
<1> USE DEF HooksRest, At, Records
<1>1. ASSUME NEW a \in Attempts, WatcherFires(a) \/ WatcherGivesUp(a) PROVE HooksRest
  BY <1>0, <1>k, <1>1 DEF WatcherFires, WatcherGivesUp, watcherOnly
<1>2. CASE StarterStep
  BY <1>k, <1>2 DEF StarterStep, StartSpawns, StartLosesRace, StartDenied, StartAdmitted,
                    StartSpawnFails, starterOnly
<1>3. CASE PauseLapses \/ Expires
  BY <1>0, <1>3 DEF PauseLapses, Expires, reqOnly, reqFaulty, RunDoc
<1>4. ASSUME NEW down \in BOOLEAN, ApiStarts(down) PROVE HooksRest
  BY <1>0, <1>k, <1>4 DEF ApiStarts
<1>5. CASE UNCHANGED vars
  BY <1>5 DEF vars, docVars, apiVars
<1> QED  BY <1>1, <1>2, <1>3, <1>4, <1>5

\* And the requests, but for the dispatcher's own ticks: of all their writes a
\* resume's alone touches the stamp.
LEMMA RequestsRest ==
  ASSUME TypeOK, NEW q \in Requests, Arrives(q) \/ HandlerStep(q) \/ HandlerFails(q),
         ~PollLists(q), ~PollFires(q), ~PollMarks(q)
  PROVE  HooksRest
<1>0. /\ run \in RunDoc /\ req \in [Requests -> ReqPc]
      /\ seen \in [Requests -> [attempt : RecordedAttempts, status : Status]]
      /\ \A p \in Requests : seen[p].attempt \in RecordedAttempts
      /\ RecordedAttempts \subseteq Int
  BY MaxAttemptAssumption DEF TypeOK, RecordedAttempts
<1>k. \A n \in RecordedAttempts :
        /\ Fail(run).hooks = run.hooks /\ Fail(run).attempt = run.attempt
        /\ FailAttempt(run, n).hooks = run.hooks
        /\ FailAttempt(run, n).attempt = run.attempt
        /\ Cancel(run).hooks = run.hooks /\ Cancel(run).attempt = run.attempt
        /\ ClearExplorationCheckpointMarker(run).hooks = run.hooks
        /\ ClearExplorationCheckpointMarker(run).attempt = run.attempt
        /\ RequestPause(run, n).hooks = run.hooks
        /\ RequestPause(run, n).attempt = run.attempt
        /\ Discarded(run).hooks = run.hooks /\ Discarded(run).attempt = run.attempt
  BY <1>0, WritesKeepHooks, WritesKeepAttempt
<1> USE DEF HooksRest, At, Advance, Reads, reqOnly, reqFaulty, docVars, Records
<1>1. CASE ResumeReads(q) \/ CancelReads(q) \/ PauseReads(q) \/ DiscardReads(q)
  BY <1>0, <1>1 DEF ResumeReads, CancelReads, PauseReads, DiscardReads
<1>2. CASE ResumeChecks(q) \/ CancelKills(q) \/ DiscardChecks(q) \/ ResumeSpawns(q)
  BY <1>0, <1>2 DEF ResumeChecks, CancelKills, DiscardChecks, ResumeSpawns
<1>3. CASE ResumeRefuses(q) \/ ResumeStandsDown(q) \/ PauseAsks(q) \/ CancelWrites(q)
  BY <1>0, <1>k, <1>3 DEF ResumeRefuses, ResumeStandsDown, PauseAsks, CancelWrites
<1>4. CASE \/ PurgeCheckpoints(q) \/ DiscardWrites(q) \/ PurgesAnyway(q)
           \/ DiscardGoesUnanswered(q) \/ AnswersError(q)
  BY <1>0, <1>k, <1>4 DEF PurgeCheckpoints, DiscardWrites, PurgesAnyway,
                          DiscardGoesUnanswered, AnswersError
<1>5. CASE BeginResumeReads(q)
  BY <1>0, <1>5 DEF BeginResumeReads
<1>6. CASE BeginResumeFlips(q) \/ FlipGoesUnanswered(q)
  <2>1. CASE BeginResumeMatches(run, seen[q].attempt)
    <3>1. run' = BeginResume(run, seen[q].attempt)
      BY <1>6, <2>1 DEF BeginResumeFlips, FlipGoesUnanswered
    <3>2. /\ run'.attempt > CurrentAttempt(run)
          /\ run'.hooks = FALSE
      BY <1>0, <2>1, <3>1, BeginResumeAdvances, WritesKeepHooks
    <3>3. CurrentAttempt(run) >= 1 /\ CurrentAttempt(run) \in Int
      BY <1>0, MaxAttemptAssumption DEF CurrentAttempt, RunDoc, RecordedAttempts
    <3>4. run'.attempt > 1
      <4>1. run'.attempt = NextAttempt(seen[q].attempt)
        BY <1>0, <2>1, <3>1, BeginResumeAdvances
      <4>2. NextAttempt(seen[q].attempt) \in Int
        <5> DEFINE read == seen[q].attempt
        <5>1. read \in Int
          BY <1>0
        <5>2. (IF read + 1 < 2 THEN 2 ELSE read + 1) \in Int
          BY <5>1
        <5> QED  BY <5>2 DEF NextAttempt
      <4> QED  BY <3>2, <3>3, <4>1, <4>2
    <3> QED  BY <1>0, <1>6, <2>1, <3>2, <3>4 DEF BeginResumeFlips, FlipGoesUnanswered
  <2>2. CASE ~BeginResumeMatches(run, seen[q].attempt)
    BY <1>0, <1>6, <2>2 DEF BeginResumeFlips, FlipGoesUnanswered
  <2> QED  BY <2>1, <2>2
<1> QED  BY <1>1, <1>2, <1>3, <1>4, <1>5, <1>6 DEF Arrives, HandlerStep, HandlerFails

\* The dispatcher's ticks keep HooksInv.
LEMMA TicksKeepHooks ==
  ASSUME TypeOK, HooksInv, NEW q \in Requests, PollLists(q) \/ PollFires(q) \/ PollMarks(q)
  PROVE  HooksInv'
<1>0. /\ run \in RunDoc /\ req \in [Requests -> ReqPc]
      /\ seen \in [Requests -> [attempt : RecordedAttempts, status : Status]]
      /\ RecordedAttempts \subseteq Int
  BY MaxAttemptAssumption DEF TypeOK, RecordedAttempts
<1> USE DEF At, Advance, Reads, reqOnly, reqFaulty, docVars
<1>1. CASE PollLists(q)
  <2>1. /\ run' = run /\ dispatched' = dispatched
        /\ seen'[q].attempt = run.attempt /\ req'[q] = "firing"
        /\ \A p \in Requests \ {q} : req'[p] = req[p] /\ seen'[p] = seen[p]
    BY <1>0, <1>1 DEF PollLists
  <2> QED  BY <2>1 DEF HooksInv, HooksCoverAttempt
<1>2. CASE PollFires(q)
  <2>1. /\ run' = run /\ seen' = seen /\ req[q] = "firing"
        /\ dispatched' = dispatched \cup {<<seen[q].attempt, seen[q].status>>}
        /\ req'[q] \in {"marking", "done"}
        /\ \A p \in Requests \ {q} : req'[p] = req[p]
    BY <1>0, <1>2 DEF PollFires
  <2>2. HooksCoverAttempt'
    BY <2>1 DEF HooksInv, HooksCoverAttempt
  <2>3. \E d \in dispatched' : d[1] = seen[q].attempt
    <3> DEFINE fired == <<seen[q].attempt, seen[q].status>>
    <3>1. fired \in dispatched' /\ fired[1] = seen[q].attempt
      BY <2>1
    <3> QED  BY <3>1
  <2>4. \A d \in dispatched : d \in dispatched'
    BY <2>1
  <2>5. ASSUME NEW p \in Requests, At(p, "marking")'
        PROVE  \E d \in dispatched' : d[1] = seen'[p].attempt
    <3>1. CASE p = q
      BY <2>1, <2>3, <3>1
    <3>2. CASE p # q
      BY <2>1, <2>4, <2>5, <3>2 DEF HooksInv
    <3> QED  BY <3>1, <3>2
  <2>6. ASSUME NEW p \in Requests, At(p, "firing")' \/ At(p, "marking")'
        PROVE  At(p, "firing") \/ At(p, "marking")
    BY <2>1, <2>6
  <2> QED  BY <2>1, <2>2, <2>5, <2>6 DEF HooksInv
<1>3. CASE PollMarks(q)
  <2> DEFINE read == seen[q].attempt
  <2>1. /\ run' = MarkCompletionHooksFired(run, read) /\ seen' = seen
        /\ dispatched' = dispatched /\ req[q] = "marking" /\ req'[q] = "done"
        /\ \A p \in Requests \ {q} : req'[p] = req[p]
    BY <1>0, <1>3 DEF PollMarks
  <2>2. run'.attempt = run.attempt
    BY <1>0, <2>1 DEF MarkCompletionHooksFired, RunDoc
  <2>3. run'.hooks => run.hooks \/ run.attempt = read
    <3>1. read <= 1 /\ run.attempt <= 1 => read = run.attempt
      BY <2>1 DEF HooksInv
    <3>2. read \in Int /\ run.attempt \in Int
      BY <1>0 DEF RunDoc
    <3>3. run.attempt \in {0, 1} => run.attempt <= 1
      OBVIOUS
    <3> QED  BY <1>0, <2>1, <3>1, <3>2, <3>3 DEF MarkCompletionHooksFired, RunDoc
  <2>4. HooksCoverAttempt'
    BY <2>1, <2>2, <2>3 DEF HooksInv, HooksCoverAttempt
  <2> QED  BY <2>1, <2>2, <2>4 DEF HooksInv
<1> QED  BY <1>1, <1>2, <1>3

\* HooksCoverAttempt: the stamp is that of a dispatch for the run's attempt, whatever
\* resumes, ticks and restarts interleave (MarkCompletionHooksFired, BeginResume).
THEOREM HooksCovered == Spec => []HooksCoverAttempt
<1>1. Init => HooksInv
  BY DEF Init, Created, HooksInv, HooksCoverAttempt, At
<1>2. TypeOK /\ TypeOK' /\ HooksInv /\ [Next]_vars => HooksInv'
  <2> SUFFICES ASSUME TypeOK, TypeOK', HooksInv, [Next]_vars PROVE HooksInv'
    OBVIOUS
  <2>1. ASSUME NEW a \in Attempts, AgentStep(a) \/ AgentDies(a) PROVE HooksInv'
    BY <2>1, AgentsRest, HooksKept
  <2>2. ASSUME NEW q \in Requests, PollLists(q) \/ PollFires(q) \/ PollMarks(q)
        PROVE  HooksInv'
    BY <2>2, TicksKeepHooks
  <2>3. ASSUME NEW q \in Requests, Arrives(q) \/ HandlerStep(q) \/ HandlerFails(q)
        PROVE  HooksInv'
    BY <2>2, <2>3, RequestsRest, HooksKept
  <2>4. CASE \/ StarterStep \/ PauseLapses \/ Expires \/ UNCHANGED vars
             \/ \E a \in Attempts : WatcherFires(a) \/ WatcherGivesUp(a)
             \/ \E down \in BOOLEAN : ApiStarts(down)
    BY <2>4, BackgroundRests, HooksKept
  <2> QED  BY <2>1, <2>3, <2>4 DEF Next
<1>3. HooksInv => HooksCoverAttempt
  BY DEF HooksInv
<1> QED  BY <1>1, <1>2, <1>3, TypeCorrect, PTL DEF Spec

-----------------------------------------------------------------------------
(* The results a run is left with.                                          *)

\* Where an agent is that has a result and will still see to it, or was killed
\* before it could; and where one is that may have a result at all.
Settling == {"saved", "indexed", "unclaimed", "superseded", "died"}
Stored   == Settling \cup {"claimed", "fail_claimed", "retired", "exited", "failed"}

\* Whoever has claimed the run stays the one it points at.
ClaimStands ==
  /\ \A a \in Attempts : agent[a] \in {"claimed", "retired"} => run.discovery = a
  /\ run.status = "completed" => run.discovery = CurrentAttempt(run)

\* The results older than the owner's are retired, or their agents see to them.
OlderAreRetired ==
  \A a \in Attempts :
    agent[a] = "retired" \/ (agent[a] = "exited" /\ run.discovery = a)
      => \A r \in results : r < a => agent[r] \in Settling

\* A run that is discarded, or that a discard has found without a result and may
\* still write to.
ThrownAway ==
  \/ run.discarded
  \/ /\ run.discovery = NoDiscovery
     /\ \E q \in Discarders : At(q, "cleared") /\ AttemptFence(run, seen[q].attempt)

NothingLeft ==
  ThrownAway => \A r \in results : \/ agent[r] \in Settling
                                   \/ agent[r] = "failed" /\ r = CurrentAttempt(run)

ResultsInv ==
  /\ \A a \in results : agent[a] \in Stored
  /\ ClaimStands
  /\ \A q \in Requests : seen[q].attempt <= CurrentAttempt(run)
  /\ faults = 0 => OlderAreRetired /\ NothingLeft

\* What an agent's step does to its result and to its right to keep it.
AgentSettles(a) ==
  /\ faults' = 0 => faults = 0
  /\ agent[a] \notin Gone
  /\ agent[a] \in Stored => agent'[a] \in Stored
  /\ results' \subseteq results \cup {a}
  /\ a \in results' => a \in results \/ agent'[a] = "saved"
  /\ agent'[a] = "retired" /\ faults' = 0 => \A r \in results' : r >= a
  /\ agent'[a] = "exited" => \/ agent[a] = "retired" \/ agent[a] \notin Stored
                             \/ agent[a] = "superseded" /\ (faults' = 0 => a \notin results')
  /\ agent'[a] = "failed" => \/ agent[a] = "fail_claimed" \/ agent[a] \notin Stored
                             \/ agent[a] = "unclaimed" /\ a = CurrentAttempt(run)

\* Every step of an agent is such a step.
LEMMA AgentMovesSettle ==
  ASSUME TypeOK, NEW a \in Attempts, AgentStep(a) \/ AgentDies(a)
  PROVE  AgentSettles(a)
<1>0. /\ agent \in [Attempts -> AgentPc] /\ Attempts \subseteq Nat /\ results \subseteq Attempts
      /\ faults \in Nat
  BY BoundsAssumption DEF TypeOK, Attempts
<1> USE DEF Goto, Stored, Settling, Gone, Fault, NoFault, agentOnly
\* Before its result is stored.
<1>1. ASSUME agent[a] \notin Stored, agent[a] # "none", results' = results,
             agent'[a] \notin {"saved", "retired"}, faults' = faults \/ faults' = faults + 1
      PROVE  AgentSettles(a)
  <2>1. faults' = 0 => faults = 0
    BY <1>0, <1>1
  <2> HIDE DEF Stored, Settling
  <2>2. agent[a] \notin Gone
    BY <1>1 DEF Stored, Settling
  <2> QED  BY <1>1, <2>1, <2>2 DEF AgentSettles
<1>2. CASE LoadResumeState(a) \/ StopBeforeIndex(a) \/ AreaGate(a)
  <2>1. /\ agent[a] \in {"starting", "exploring", "analyzing"} /\ results' = results
        /\ faults' = faults /\ agent'[a] \notin {"saved", "retired"}
    BY <1>0, <1>2 DEF LoadResumeState, StopBeforeIndex, AreaGate
  <2> QED  BY <1>1, <2>1
<1>3. CASE \/ BeginExploration(a) \/ BeginAnalysis(a) \/ BeginRecommendations(a)
           \/ FinishStep(a)
  <2>1. /\ agent[a] \in {"loaded", "explored", "recommending", "step_marked"}
        /\ results' = results /\ faults' = faults /\ agent'[a] \notin {"saved", "retired"}
    BY <1>0, <1>3 DEF BeginExploration, BeginAnalysis, BeginRecommendations, FinishStep
  <2> QED  BY <1>1, <2>1
<1>4. CASE StepGate(a) \/ FinishExploration(a) \/ OwnershipGate(a)
  <2>1. /\ agent[a] \in {"exploring", "analyzing", "composing"} /\ results' = results
        /\ faults' = faults \/ faults' = faults + 1
        /\ agent'[a] \notin {"saved", "retired"}
    BY <1>0, <1>4 DEF StepGate, FinishExploration, OwnershipGate, GateReads
  <2> QED  BY <1>1, <2>1
<1>5. CASE SaveStep(a) \/ MarkStep(a) \/ RecordPause(a)
  <2>1. /\ agent[a] \in {"gated", "step_saved", "pausing"} /\ results' = results
        /\ faults' = faults \/ faults' = faults + 1
        /\ agent'[a] \notin {"saved", "retired"}
    BY <1>0, <1>5 DEF SaveStep, MarkStep, RecordPause
  <2> QED  BY <1>1, <2>1
\* Once it is.
<1>6. CASE SaveResult(a)
  BY <1>0, <1>6 DEF SaveResult, AgentSettles
<1>7. CASE IndexResult(a)
  BY <1>0, <1>7 DEF IndexResult, AgentSettles
<1>8. CASE TerminalComplete(a)
  BY <1>0, <1>8 DEF TerminalComplete, AgentSettles
<1>9. CASE TerminalFail(a)
  BY <1>0, <1>9 DEF TerminalFail, AgentSettles
<1>10. CASE ClassifyUnapplied(a)
  <2>1. Ownership(run, a) \in {"owned", "pause_requested"} => a = CurrentAttempt(run)
    BY <1>0 DEF Ownership, Attempts
  <2> QED  BY <1>0, <1>10, <2>1 DEF ClassifyUnapplied, AgentSettles
<1>11. CASE RetireOwnResult(a)
  BY <1>0, <1>11 DEF RetireOwnResult, AgentSettles
<1>12. CASE RetireSuperseded(a)
  <2>1. /\ agent[a] \in {"claimed", "fail_claimed"}
        /\ agent'[a] = IF agent[a] = "claimed" THEN "retired" ELSE "failed"
        /\ results' \subseteq results
        /\ \/ faults' = faults /\ \A r \in results' : r >= a
           \/ faults' = faults + 1
    BY <1>0, <1>12 DEF RetireSuperseded
  <2>2. (faults' = 0 => faults = 0) /\ (faults' = 0 => \A r \in results' : r >= a)
    BY <1>0, <2>1
  <2> QED  BY <2>1, <2>2 DEF AgentSettles
<1>13. CASE DiscardCheckpoints(a)
  BY <1>0, <1>13 DEF DiscardCheckpoints, AgentSettles
<1>14. CASE AgentDies(a)
  BY <1>0, <1>14 DEF AgentDies, Live, AgentSettles
<1> QED
  BY <1>2, <1>3, <1>4, <1>5, <1>6, <1>7, <1>8, <1>9, <1>10, <1>11, <1>12, <1>13, <1>14
     DEF AgentStep

\* What the other actors' steps do to what the discards have seen.
ApiSees ==
  /\ faults' = 0 => faults = 0
  /\ \A q \in Requests : seen'[q].attempt \in {seen[q].attempt, run.attempt, run'.attempt}
  /\ \A q \in Discarders : At(q, "cleared")' => \/ At(q, "cleared") /\ seen'[q] = seen[q]
                                                \/ results = {}
  /\ run'.discarded => \/ run.discarded
                       \/ \E q \in Discarders : /\ At(q, "cleared")
                                                /\ DiscardMatches(run, seen[q].attempt)

\* No step takes a fault back, and a write of the API lands or does not.
LEMMA FaultsAreCounted ==
  ASSUME TypeOK
  PROVE  /\ Fault \/ NoFault => (faults' = 0 => faults = 0)
         /\ \A doc : Records(doc) => /\ run' \in {run, doc}
                                     /\ faults' = 0 => faults = 0
<1>1. faults \in Nat
  BY BoundsAssumption DEF TypeOK
<1>2. Fault \/ NoFault => (faults' = 0 => faults = 0)
  BY <1>1 DEF Fault, NoFault
<1> QED  BY <1>2 DEF Records

\* The starter, the watchers, the clock and a starting replica leave requests
\* what they saw, and discard nothing.
LEMMA BackgroundSees ==
  ASSUME TypeOK, ApiMove,
         \/ StarterStep \/ PauseLapses \/ Expires \/ UNCHANGED vars
         \/ \E a \in Attempts : WatcherFires(a) \/ WatcherGivesUp(a)
         \/ \E down \in BOOLEAN : ApiStarts(down)
  PROVE  ApiSees
<1>0. req \in [Requests -> ReqPc] /\ run \in RunDoc /\ Discarders \subseteq Requests
  BY DEF TypeOK, Requests
<1>k. ASSUME seen' = seen, faults' = 0 => faults = 0, run'.discarded = run.discarded,
             \A q \in Discarders : At(q, "cleared")' => At(q, "cleared")
      PROVE  ApiSees
  BY <1>0, <1>k DEF ApiSees
<1> USE DEF At
<1>1. /\ Fail(run).discarded = run.discarded /\ Cancel(run).discarded = run.discarded
      /\ CleanupStaleRuns(run).discarded = run.discarded
      /\ \A n \in Attempts : FailAttempt(run, n).discarded = run.discarded
      /\ [run EXCEPT !.lapsed = TRUE].discarded = run.discarded
  BY <1>0 DEF Fail, Cancel, CleanupStaleRuns, FailAttempt, MarkedFailed, WithoutPause, RunDoc
<1>2. ASSUME NEW a \in Attempts, WatcherFires(a) \/ WatcherGivesUp(a) PROVE ApiSees
  BY <1>k, <1>1, <1>2, FaultsAreCounted DEF WatcherFires, WatcherGivesUp, watcherOnly
<1>3. CASE StarterStep
  BY <1>k, <1>1, <1>3, FaultsAreCounted DEF StarterStep, StartSpawns, StartLosesRace, StartDenied, StartAdmitted,
                          StartSpawnFails, starterOnly
<1>4. CASE PauseLapses \/ Expires
  BY <1>k, <1>1, <1>4 DEF PauseLapses, Expires, reqOnly, reqFaulty
<1>5. ASSUME NEW down \in BOOLEAN, ApiStarts(down) PROVE ApiSees
  BY <1>0, <1>k, <1>1, <1>5, FaultsAreCounted DEF ApiStarts
<1>6. CASE UNCHANGED vars
  BY <1>k, <1>6 DEF vars, docVars, apiVars
<1> QED  BY <1>2, <1>3, <1>4, <1>5, <1>6

\* A request sees the document as it is, and only a discard discards.
LEMMA RequestsSee ==
  ASSUME TypeOK, NEW q \in Requests, Arrives(q) \/ HandlerStep(q) \/ HandlerFails(q)
  PROVE  ApiSees
<1>0. /\ req \in [Requests -> ReqPc] /\ run \in RunDoc /\ Discarders \subseteq Requests
      /\ seen \in [Requests -> [attempt : RecordedAttempts, status : Status]]
      /\ \A p \in Requests : seen[p].attempt \in RecordedAttempts
  BY DEF TypeOK, Requests
<1>1. \A n \in RecordedAttempts :
        /\ FailAttempt(run, n).discarded = run.discarded
        /\ Cancel(run).discarded = run.discarded
        /\ ClearExplorationCheckpointMarker(run).discarded = run.discarded
        /\ RequestPause(run, n).discarded = run.discarded
        /\ MarkCompletionHooksFired(run, n).discarded = run.discarded
        /\ BeginResume(run, n).discarded = run.discarded
        /\ BeginResume(run, n).attempt = NextAttempt(n)
  BY <1>0 DEF FailAttempt, Cancel, ClearExplorationCheckpointMarker, RequestPause,
     MarkCompletionHooksFired, BeginResume, MarkedFailed, WithoutPause, RunDoc
<1> USE DEF ApiSees, At, Advance, Reads, reqOnly, reqFaulty, docVars
<1>2. CASE ResumeReads(q) \/ CancelReads(q) \/ PauseReads(q) \/ DiscardReads(q) \/ PollLists(q)
  BY <1>0, <1>2 DEF ResumeReads, CancelReads, PauseReads, DiscardReads, PollLists
<1>3. CASE ResumeChecks(q) \/ BeginResumeReads(q) \/ CancelKills(q) \/ DiscardChecks(q)
  BY <1>0, <1>3 DEF ResumeChecks, BeginResumeReads, CancelKills, DiscardChecks
<1>4. CASE ResumeRefuses(q) \/ ResumeStandsDown(q) \/ PauseAsks(q) \/ PollMarks(q)
  BY <1>0, <1>1, <1>4, FaultsAreCounted
     DEF ResumeRefuses, ResumeStandsDown, PauseAsks, PollMarks
<1>5. CASE BeginResumeFlips(q) \/ FlipGoesUnanswered(q)
  BY <1>0, <1>1, <1>5, FaultsAreCounted DEF BeginResumeFlips, FlipGoesUnanswered
<1>6. CASE \/ ResumeSpawns(q) \/ PurgeCheckpoints(q) \/ PollFires(q)
           \/ PurgesAnyway(q) \/ AnswersError(q)
  BY <1>0, <1>6, FaultsAreCounted
     DEF ResumeSpawns, PurgeCheckpoints, PollFires, PurgesAnyway, AnswersError
<1>7. CASE CancelWrites(q)
  BY <1>0, <1>1, <1>7, FaultsAreCounted DEF CancelWrites
<1>8. CASE DiscardWrites(q) \/ DiscardGoesUnanswered(q)
  BY <1>0, <1>8, FaultsAreCounted DEF DiscardWrites, DiscardGoesUnanswered
<1> QED  BY <1>2, <1>3, <1>4, <1>5, <1>6, <1>7, <1>8 DEF Arrives, HandlerStep, HandlerFails

\* The first attempt's number, or that of a resume, is never below what a request
\* has read of a run.
LEMMA FenceIsCurrent ==
  ASSUME TypeOK, NEW n \in RecordedAttempts, n <= CurrentAttempt(run)
  PROVE  Resumes(run, run') => ~AttemptFence(run', n)
<1>1. n \in Int /\ CurrentAttempt(run) \in Int /\ CurrentAttempt(run) >= 1
  BY Current, MaxAttemptAssumption DEF RecordedAttempts, Attempts
<1>2. Resumes(run, run') => run'.attempt = CurrentAttempt(run) + 1
  BY DEF Resumes
<1> DEFINE cur == CurrentAttempt(run)
<1>3. cur + 1 # n /\ cur + 1 # 0 /\ cur + 1 # 1
  BY <1>1
<1> QED  BY <1>2, <1>3 DEF AttemptFence

\* The other actors leave the results to the agents.
LEMMA ApiKeepsResults ==
  ASSUME TypeOK, TypeOK', AttemptsAreHandedOnce, RunInv, ResultsInv, ApiMove, ApiSees
  PROVE  ResultsInv'
<1> DEFINE cur == CurrentAttempt(run)
<1>0. /\ run \in RunDoc /\ run' \in RunDoc /\ agent \in [Attempts -> AgentPc]
      /\ cur \in Attempts /\ CurrentAttempt(run') \in Attempts /\ Attempts \subseteq Nat
      /\ results \subseteq Attempts /\ results' = results
      /\ NoDiscovery \notin Attempts /\ Discarders \subseteq Requests
      /\ \A q \in Requests : seen[q].attempt \in RecordedAttempts
  <2>1. run' \in RunDoc /\ CurrentAttempt(run') \in Attempts
    BY MaxAttemptAssumption DEF TypeOK, RunDoc, RecordedAttempts, Attempts, CurrentAttempt
  <2> QED  BY <2>1, Current DEF TypeOK, NoDiscovery, Attempts, ApiMove, ApiKeeps, Requests
<1>1. Resumes(run, run') => /\ CurrentAttempt(run') = cur + 1 /\ agent' = agent
                            /\ run'.status = "running" /\ run'.discovery = NoDiscovery
                            /\ run'.discarded = run.discarded /\ ~run.discarded
                            /\ run.status \in {"failed", "paused"}
  <2>1. Resumes(run, run') => agent' = agent
    BY DEF ApiMove, ApiWrites, Quiet, FailsActive, Cancels, Discards, Resumes, Active, Resumable,
           Keeps
  <2> QED  BY <2>1, ResumedIsNew DEF Resumes, Resumable
<1>2. ~Resumes(run, run') => /\ CurrentAttempt(run') = cur /\ run'.attempt = run.attempt
                             /\ run'.discovery = run.discovery
                             /\ run'.status = "completed" => run.status = "completed"
                             /\ run.discarded => run'.discarded
  BY <1>0, Current DEF ApiMove, ApiWrites, Quiet, FailsActive, Cancels, Discards, Keeps
<1>3. /\ \A a \in results : agent'[a] = agent[a]
      /\ \A a \in Attempts : agent'[a] \notin {"starting", "loaded"} => agent'[a] = agent[a]
  <2>1. \A a \in results : agent[a] # "none"
    BY DEF ResultsInv, Stored, Settling
  <2> QED  BY <1>0, <2>1 DEF ApiMove, ApiGoes
<1> HIDE DEF cur
<1>4. ClaimStands'
  <2>1. CASE Resumes(run, run')
    <3>1. \A a \in Attempts : agent'[a] \notin {"claimed", "retired"}
      BY <1>1, <2>1 DEF RunInv, Purgers
    <3> QED  BY <1>1, <2>1, <3>1 DEF ClaimStands
  <2>2. CASE ~Resumes(run, run')
    BY <1>2, <1>3, <2>2 DEF ResultsInv, ClaimStands, cur
  <2> QED  BY <2>1, <2>2
<1>5. ASSUME NEW q \in Requests PROVE seen'[q].attempt <= CurrentAttempt(run')
  <2>1. cur <= CurrentAttempt(run')
    BY <1>0, <1>1, <1>2
  <2>2. seen[q].attempt <= cur /\ seen[q].attempt \in Int
    BY <1>0, MaxAttemptAssumption DEF ResultsInv, cur, RecordedAttempts
  <2>3. /\ run.attempt <= cur /\ run.attempt \in Int
        /\ run'.attempt <= CurrentAttempt(run') /\ run'.attempt \in Int
    BY <1>0, MaxAttemptAssumption DEF RunDoc, RecordedAttempts, CurrentAttempt, cur
  <2>4. cur \in Int /\ CurrentAttempt(run') \in Int
    BY <1>0 DEF Attempts
  <2>5. seen'[q].attempt \in {seen[q].attempt, run.attempt, run'.attempt}
    BY DEF ApiSees
  <2> QED  BY <2>1, <2>2, <2>3, <2>4, <2>5
<1>6. OlderAreRetired => OlderAreRetired'
  <2> SUFFICES ASSUME OlderAreRetired, NEW a \in Attempts,
                      agent'[a] = "retired" \/ (agent'[a] = "exited" /\ run'.discovery = a),
                      NEW r \in results, r < a
               PROVE  agent'[r] \in Settling
    BY <1>0 DEF OlderAreRetired
  <2>1. agent'[a] = agent[a] /\ agent'[r] = agent[r]
    BY <1>3
  <2>2. ~Resumes(run, run')
    BY <1>0, <1>1, <2>1 DEF RunInv, Purgers
  <2>3. run'.discovery = run.discovery
    BY <1>2, <2>2
  <2> QED  BY <2>1, <2>3 DEF OlderAreRetired
<1>7. NothingLeft => NothingLeft'
  <2> SUFFICES ASSUME NothingLeft, ThrownAway', NEW r \in results
               PROVE  \/ agent'[r] \in Settling
                      \/ agent'[r] = "failed" /\ r = CurrentAttempt(run')
    BY <1>0 DEF NothingLeft
  <2>1. ASSUME NEW q \in Discarders, Resumes(run, run'), At(q, "cleared")',
               AttemptFence(run', seen'[q].attempt)
        PROVE  FALSE
    <3>1. seen'[q].attempt = seen[q].attempt
      BY <2>1 DEF ApiSees
    <3>2. seen[q].attempt <= cur /\ seen[q].attempt \in RecordedAttempts
      BY <1>0 DEF ResultsInv, cur
    <3> QED  BY <2>1, <3>1, <3>2, FenceIsCurrent DEF cur
  <2>2. ~Resumes(run, run')
    BY <1>1, <2>1 DEF ThrownAway
  <2>3. CASE run'.discarded
    <3>1. ThrownAway
      BY <2>3 DEF ApiSees, ThrownAway, DiscardMatches
    <3> QED  BY <1>2, <1>3, <2>2, <3>1 DEF NothingLeft, cur
  <2>4. CASE ~run'.discarded
    <3>1. PICK q \in Discarders : At(q, "cleared")' /\ AttemptFence(run', seen'[q].attempt)
      BY <2>4 DEF ThrownAway
    <3>2. At(q, "cleared") /\ seen'[q] = seen[q]
      BY <3>1 DEF ApiSees
    <3>3. AttemptFence(run, seen[q].attempt) /\ run.discovery = NoDiscovery
      BY <1>2, <2>2, <2>4, <3>1, <3>2 DEF AttemptFence, ThrownAway
    <3>4. ThrownAway
      BY <3>2, <3>3 DEF ThrownAway
    <3> QED  BY <1>2, <1>3, <2>2, <3>4 DEF NothingLeft, cur
  <2> QED  BY <2>3, <2>4
<1>8. \A a \in results' : agent'[a] \in Stored
  BY <1>0, <1>3 DEF ResultsInv
<1> QED  BY <1>4, <1>5, <1>6, <1>7, <1>8 DEF ResultsInv, ApiSees

\* An agent keeps its result only if it claims the run, or owns it still.
LEMMA AgentKeepsResults ==
  ASSUME TypeOK, TypeOK', AttemptsAreHandedOnce, RunInv, ResultsInv, NEW a \in Attempts,
         AgentWrites(a), AgentGoes(a), AgentSettles(a), run'.attempt = run.attempt,
         req' = req, seen' = seen
  PROVE  ResultsInv'
<1> DEFINE cur == CurrentAttempt(run)
<1>0. /\ run \in RunDoc /\ run' \in RunDoc /\ agent \in [Attempts -> AgentPc]
      /\ cur \in Attempts /\ Attempts \subseteq Nat
      /\ results \subseteq Attempts /\ results' \subseteq Attempts
      /\ NoDiscovery \notin Attempts /\ Discarders \subseteq Requests
  BY Current DEF TypeOK, NoDiscovery, Attempts, Requests
<1>1. CurrentAttempt(run') = cur
  BY <1>0, Current
<1>2. /\ \A b \in Attempts \ {a} : agent'[b] = agent[b]
      /\ \A r \in results' \ {a} : r \in results /\ agent'[r] = agent[r]
  BY <1>0 DEF AgentGoes, AgentSettles
<1>3. run'.discarded = run.discarded
  BY DEF AgentWrites, Quiet, Works, Completes, FailsOwn, Pauses, Keeps
<1>4. run'.discovery # run.discovery => /\ run'.discovery = a /\ a = cur
                                        /\ agent'[a] \in {"claimed", "fail_claimed", "died"}
  BY DEF AgentWrites, Quiet, Works, Completes, FailsOwn, Pauses
<1>5. /\ agent'[a] = "claimed" => /\ run'.discovery = a /\ a = cur /\ ~run.discarded
      /\ agent'[a] = "fail_claimed" => /\ run'.discovery = a /\ a = cur /\ Active(run)
      /\ agent'[a] = "retired" => agent[a] = "claimed"
  BY DEF AgentGoes, Completes, FailsOwn
<1>6. run.discovery # NoDiscovery => run.discovery = cur /\ agent[run.discovery] \in PastTheEnd
  BY DEF RunInv, EndedOnce, cur
<1> HIDE DEF cur
\* An agent that was settling its result still is, or has claimed the run, or
\* owns it, or has no result any more.
<1>7. a \in results' => \/ agent'[a] \in Settling
                        \/ agent'[a] \in {"claimed", "fail_claimed"}
                        \/ agent'[a] = "failed" /\ agent[a] = "unclaimed" /\ a = cur
                        \/ agent[a] \notin Settling /\ a \in results
                        \/ faults' # 0
  <2>1. agent'[a] = "saved" => agent'[a] \in Settling
    BY DEF Settling
  <2>2. CASE agent[a] \in Settling
    <3>1. agent'[a] \in Stored
      BY <2>2 DEF AgentSettles, Stored
    <3>2. agent'[a] # "retired"
      BY <1>5, <2>2 DEF Settling
    <3>3. agent'[a] = "exited" => a \notin results' \/ faults' # 0
      BY <2>2 DEF AgentSettles, Settling, Stored
    <3>4. agent'[a] = "failed" => agent[a] = "unclaimed" /\ a = cur
      BY <2>2 DEF AgentSettles, Settling, Stored, cur
    <3> QED  BY <3>1, <3>2, <3>3, <3>4 DEF Stored
  <2> QED  BY <2>1, <2>2 DEF AgentSettles
<1>8. ClaimStands'
  <2>1. ASSUME NEW b \in Attempts, agent'[b] \in {"claimed", "retired"}
        PROVE  run'.discovery = b
    <3>1. CASE b = a /\ agent'[a] = "claimed"
      BY <1>5, <3>1
    <3>2. CASE agent[b] \in {"claimed", "retired"}
      <4>1. run.discovery = b /\ b = cur
        BY <1>0, <1>6, <3>2 DEF ResultsInv, ClaimStands
      <4> QED  BY <1>4, <4>1
    <3> QED  BY <1>2, <1>5, <2>1, <3>1, <3>2
  <2>2. run'.status = "completed" => run'.discovery = cur
    BY <1>0 DEF AgentWrites, Quiet, Works, Completes, FailsOwn, Pauses, ResultsInv, ClaimStands, cur
  <2> QED  BY <1>1, <2>1, <2>2 DEF ClaimStands
<1>9. ASSUME faults' = 0, OlderAreRetired PROVE OlderAreRetired'
  <2> SUFFICES ASSUME NEW b \in Attempts,
                      agent'[b] = "retired" \/ (agent'[b] = "exited" /\ run'.discovery = b),
                      NEW r \in results', r < b
               PROVE  agent'[r] \in Settling
    BY DEF OlderAreRetired
  <2>1. CASE agent'[a] = "retired" /\ b = a
    <3>1. r >= a /\ r \in Nat /\ a \in Nat
      BY <1>0, <1>9, <2>1 DEF AgentSettles
    <3> QED  BY <2>1, <3>1
  <2>2. CASE ~(agent'[a] = "retired" /\ b = a)
    <3>1. agent[b] = "retired" \/ (agent[b] = "exited" /\ run.discovery = b)
      <4>1. CASE b # a
        BY <1>2, <1>4, <4>1
      <4>2. CASE b = a
        <5>1. agent'[a] = "exited" /\ run.discovery = a
          BY <1>4, <2>2, <4>2
        <5>2. agent[a] \in PastTheEnd
          BY <1>0, <1>6, <5>1
        <5> QED  BY <4>2, <5>1, <5>2 DEF AgentSettles, PastTheEnd, Stored, Settling
      <4> QED  BY <4>1, <4>2
    <3>2. b = cur
      BY <1>0, <1>6, <3>1 DEF ResultsInv, ClaimStands
    <3>3. \A s \in results : s < b => agent[s] \in Settling
      BY <1>9, <3>1 DEF OlderAreRetired
    <3>4. CASE r # a
      BY <1>2, <3>3, <3>4
    <3>5. CASE r = a
      <4>1. a # cur
        BY <1>0, <3>2, <3>5
      <4> QED  BY <1>5, <1>7, <1>9, <3>3, <3>5, <4>1
    <3> QED  BY <3>4, <3>5
  <2> QED  BY <2>1, <2>2
<1>10. ASSUME faults' = 0, NothingLeft PROVE NothingLeft'
  <2> SUFFICES ASSUME ThrownAway', NEW r \in results'
               PROVE  agent'[r] \in Settling \/ (agent'[r] = "failed" /\ r = cur)
    BY <1>1 DEF NothingLeft
  <2>1. run'.discovery = NoDiscovery => run.discovery = NoDiscovery
    BY <1>0, <1>4
  <2>2. ThrownAway
    BY <1>3, <2>1 DEF ThrownAway, At, AttemptFence
  <2>3. \A s \in results : agent[s] \in Settling \/ (agent[s] = "failed" /\ s = cur)
    BY <1>10, <2>2 DEF NothingLeft, cur
  <2>4. CASE r # a
    BY <1>2, <2>3, <2>4
  <2>5. CASE r = a
    <3>1. agent[a] # "failed"
      BY DEF AgentSettles, Gone
    <3>2. agent'[a] \notin {"claimed", "fail_claimed"}
      <4>1. run.discarded => ~Active(run)
        BY DEF RunInv, EndedOnce, Active
      <4>2. CASE run'.discarded
        BY <1>3, <1>5, <4>1, <4>2
      <4>3. CASE ~run'.discarded
        <5>1. run'.discovery = NoDiscovery
          BY <4>3 DEF ThrownAway
        <5> QED  BY <1>0, <1>5, <5>1
      <4> QED  BY <4>2, <4>3
    <3> QED  BY <1>7, <1>10, <2>3, <2>5, <3>1, <3>2
  <2> QED  BY <2>4, <2>5
<1>11. \A r \in results' : agent'[r] \in Stored
  <2>1. a \in results' => agent'[a] \in Stored
    BY DEF AgentSettles, ResultsInv, Stored, Settling
  <2> QED  BY <1>2, <2>1 DEF ResultsInv
<1>12. \A q \in Requests : seen'[q].attempt <= CurrentAttempt(run')
  BY <1>1 DEF ResultsInv, cur
<1> QED  BY <1>8, <1>9, <1>10, <1>11, <1>12 DEF ResultsInv, AgentSettles

\* ResultsInv holds in every behaviour.
THEOREM ResultsInvariant == Spec => []ResultsInv
<1>1. Init => ResultsInv
  <2> SUFFICES ASSUME Init PROVE ResultsInv
    OBVIOUS
  <2>1. /\ results = {} /\ run.status = "pending" /\ run.attempt \in {0, 1}
        /\ \A q \in Requests : seen[q].attempt = 0
        /\ \A a \in Attempts : agent[a] \in {"none", "loaded"}
    BY DEF Init, Created, Idle
  <2>2. CurrentAttempt(run) = 1
    BY <2>1 DEF CurrentAttempt
  <2>3. ClaimStands /\ OlderAreRetired /\ NothingLeft
    BY <2>1 DEF ClaimStands, OlderAreRetired, NothingLeft
  <2> QED  BY <2>1, <2>2, <2>3 DEF ResultsInv
<1>2. TypeOK /\ TypeOK' /\ AttemptsAreHandedOnce /\ RunInv /\ ResultsInv /\ [Next]_vars
        => ResultsInv'
  <2> SUFFICES ASSUME TypeOK, TypeOK', AttemptsAreHandedOnce, RunInv, ResultsInv, [Next]_vars
               PROVE  ResultsInv'
    OBVIOUS
  <2>1. ASSUME NEW a \in Attempts, AgentStep(a) \/ AgentDies(a) PROVE ResultsInv'
    <3>1. AgentWrites(a) /\ AgentGoes(a)
      BY <2>1, AgentMoves DEF RunInv, PrefixKept
    <3>2. AgentSettles(a)
      BY <2>1, AgentMovesSettle
    <3> QED  BY <2>1, <3>1, <3>2, AgentStepShape, AgentKeepsResults
  <2>2. CASE ~\E a \in Attempts : AgentStep(a) \/ AgentDies(a)
    BY <2>2, BackgroundMoves, RequestMoves, BackgroundSees, RequestsSee, ApiKeepsResults DEF Next
  <2> QED  BY <2>1, <2>2
<1> QED  BY <1>1, <1>2, TypeCorrect, HandedOnce, RunInvariant, PTL DEF Spec

\* OnlyOwnersResultRemains: once all agents are gone, a completed run whose owner
\* exited cleanly has the owner's result and no other, but for those of agents that
\* were killed, as long as no delete failed (retireSuperseded, retireOwnResult,
\* classifyUnappliedTerminal).
THEOREM OwnersResultRemains == Spec => []OnlyOwnersResultRemains
<1>1. TypeOK /\ AttemptsAreHandedOnce /\ RunInv /\ ResultsInv => OnlyOwnersResultRemains
  <2> DEFINE cur == CurrentAttempt(run)
  <2> SUFFICES ASSUME TypeOK, AttemptsAreHandedOnce, RunInv, ResultsInv,
                      run.status = "completed", \A a \in Attempts : ~Live(a),
                      agent[cur] = "exited", faults = 0
               PROVE  results \ {a \in Attempts : agent[a] = "died"} = {cur}
    BY DEF OnlyOwnersResultRemains
  <2>1. cur \in Attempts /\ Attempts \subseteq Nat /\ results \subseteq Attempts
        /\ NoDiscovery \notin Attempts
    BY Current DEF TypeOK, NoDiscovery, Attempts
  <2>2. agent[cur] = "exited"
    OBVIOUS
  <2>3. run.discovery = cur /\ cur \in results
    BY <2>1 DEF ResultsInv, ClaimStands, RunInv, ResultsKept, StampedResultIsStored
  <2>4. \A a \in Attempts : agent[a] # "none" => a <= cur
    BY DEF AttemptsAreHandedOnce
  <2> HIDE DEF cur
  <2>5. ASSUME NEW r \in results, agent[r] # "died" PROVE r = cur
    <3>1. agent[r] \in Stored /\ agent[r] \in Gone
      BY <2>1 DEF ResultsInv, Live
    <3>2. agent[r] # "none"
      BY <3>1 DEF Stored, Settling
    <3>3. r <= cur
      BY <2>1, <2>4, <3>2
    <3>4. ~(r < cur)
      <4>1. agent[r] \notin Settling
        BY <2>5, <3>1 DEF Settling, Gone
      <4>2. \A s \in results : s < cur => agent[s] \in Settling
        <5>1. OlderAreRetired
          BY DEF ResultsInv
        <5> QED  BY <2>1, <2>3, <2>2, <5>1 DEF OlderAreRetired
      <4> QED  BY <4>1, <4>2
    <3> QED  BY <2>1, <3>3, <3>4
  <2> QED  BY <2>1, <2>3, <2>5
<1> QED  BY <1>1, TypeCorrect, HandedOnce, RunInvariant, ResultsInvariant, PTL

\* DiscardedRunKeepsNoResult: a discarded run's stored results are those its agents
\* are still to delete or were killed before deleting, or its last attempt's, if
\* that could not record its failure between DiscardRun's check and its write
\* (DiscardRun, classifyUnappliedTerminal).
THEOREM DiscardKeepsNone == Spec => []DiscardedRunKeepsNoResult
<1>1. TypeOK /\ ResultsInv => DiscardedRunKeepsNoResult
  BY DEF TypeOK, ResultsInv, NothingLeft, ThrownAway, Settling, DiscardedRunKeepsNoResult, Live,
         Gone
<1> QED  BY <1>1, TypeCorrect, ResultsInvariant, PTL


=============================================================================
