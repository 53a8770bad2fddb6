---------------------------- MODULE RunLifecycle ----------------------------
(***************************************************************************)
(* One discovery run: the API handlers that create, resume, pause, cancel  *)
(* and discard it, the agent process of each attempt, the runner's watcher *)
(* of each agent, the startup sweep and the completion-hook dispatcher,    *)
(* all reading and writing the one document RunRecord describes.           *)
(*                                                                         *)
(* Every action is one database round trip of one actor (or a round trip   *)
(* and the local code up to the next), so every order in which those round *)
(* trips can reach MongoDB is a behaviour.  Agents of superseded attempts  *)
(* go on running: the sweep marks runs failed without reaping them.        *)
(*                                                                         *)
(* As in RunRecord, an action named for how it differs from the one after  *)
(* it is that action with a bug, and no specification here uses it.        *)
(***************************************************************************)
EXTENDS RunRecord, FiniteSets

CONSTANTS Resumers, Cancellers, Pausers, Discarders,  \* operator requests
          Polls,         \* ticks of the completion-hook dispatcher
          InitialRuns,   \* which runs there are: "fresh", "legacy"
          MaxRequests,   \* requests and ticks that arrive at most
          MaxSteps,      \* exploration steps an attempt takes at most
          MaxRestarts,   \* API replica starts, each of which sweeps
          MaxFaults      \* round trips of agents and of the API that fail

ASSUME BoundsAssumption ==
  /\ MaxRequests \in Nat
  /\ MaxSteps \in Nat
  /\ MaxRestarts \in Nat
  /\ MaxFaults \in Nat

\* Each request is made once, so the five kinds are disjoint sets.
Requests == Resumers \cup Cancellers \cup Pausers \cup Discarders \cup Polls

VARIABLES
  run,          \* the discovery_runs document
  checkpoints,  \* LoadPrefix would find a step to resume from
  results,      \* attempts with a stored discovery result
  agent,        \* agent[a]: where the process of attempt a is
  step,         \* step[a]: exploration steps attempt a has been through
  gap,          \* attempts whose checkpointGapSeen is set
  pauseSeen,    \* attempts whose current step's gate read a pause request
  watched,      \* attempts whose runner watcher is alive
  starter,      \* where the StartRun request is
  req,          \* req[q]: where request q is
  seen,         \* seen[q]: what request q read from the document
  dispatched,   \* <<attempt, status>> the completion hooks were fired for
  mishaps,      \* what happened to the run that nothing in the code repairs
  restarts, faults

docVars   == <<run, checkpoints, results>>
agentVars == <<agent, step, gap, pauseSeen>>
apiVars   == <<watched, starter, req, seen, dispatched, mishaps>>
vars == <<docVars, agentVars, apiVars, restarts, faults>>

Gone == {"none", "exited", "failed", "died"}

AgentPc == Gone \cup
  {"starting", "loaded", "exploring", "gated", "step_saved", "step_marked",
   "pausing", "explored", "analyzing", "recommending", "composing", "saving",
   "saved", "indexed", "claimed", "fail_claimed", "unclaimed", "superseded",
   "retired"}

Live(a) == agent[a] \notin Gone

StarterPc == {"admitting", "spawning", "done"}

ReqPc == {"idle", "checking", "refusing", "admitted", "read", "flipped",
          "killing", "cancelling", "purging", "unsure", "asking", "cleared",
          "firing", "marking", "done"}

\* "expired": the retention of the checkpoints ran out.  "purged": a cancel
\* deleted them without knowing that its write had landed.  "unrecorded": an
\* outcome may have been lost, and the run may be active with nobody on it.
Mishap == {"expired", "purged", "unrecorded"}

Goto(a, pc) == agent' = [agent EXCEPT ![a] = pc]

At(q, pc) == req[q] = pc
Advance(q, pc) == req' = [req EXCEPT ![q] = pc]
Reads(q) == seen' = [seen EXCEPT ![q] = [attempt |-> run.attempt,
                                         status  |-> run.status]]

\* A fault is a round trip, to the database or to what runs the agents, that
\* answers with an error.
Fault   == faults < MaxFaults /\ faults' = faults + 1
NoFault == UNCHANGED faults

Befalls(what) == mishaps' = mishaps \cup {what}

\* An API write of an outcome.  Its error is logged and nothing tries again; it
\* may have landed all the same.
Records(doc) == \/ run' = doc /\ NoFault /\ UNCHANGED mishaps
                \/ run' \in {run, doc} /\ Fault /\ Befalls("unrecorded")

-----------------------------------------------------------------------------
(* The agent, from spawn to the end of exploration.                        *)

agentOnly == <<run, results, checkpoints, apiVars, restarts>>

\* loadResumeState: nothing to replay, or the run has moved on since the spawn.
LoadResumeState(a) ==
  /\ agent[a] = "starting"
  /\ Goto(a, IF checkpoints /\ run.attempt = a THEN "loaded" ELSE "failed")
  /\ UNCHANGED <<agentOnly, step, gap, pauseSeen, faults>>

\* SetPhase(init), SetPhase(schema_discovery), SetPhase(exploration).
BeginExploration(a) ==
  /\ agent[a] = "loaded"
  /\ run' = UpdateStatus(run, a, TRUE)
  /\ Goto(a, "exploring")
  /\ UNCHANGED <<results, checkpoints, step, gap, pauseSeen, apiVars,
                 restarts, faults>>

\* StatusReporter.Standing: a read that fails carries on.
Standing(a) == CASE Ownership(run, a) = "owned" -> "carry_on"
                 [] Ownership(run, a) = "pause_requested" -> "pause"
                 [] OTHER -> "lost"

GateReads(a, standing) == \/ standing = Standing(a) /\ NoFault
                          \/ standing = "carry_on" /\ Fault

\* hasResumePoint: a prefix without a gap.  A resumed attempt starts from the
\* prefix it loaded, a first one from nothing.
AlwaysResumable(a) == TRUE
HasResumePoint(a) == a \notin gap /\ (a > 1 \/ step[a] > 0)

\* A step of a resumed attempt that replays the prefix instead of exploring.
Replays(a) == a > 1 /\ step[a] = 0

\* stopBefore("rebuilding the step index"); carrying on leaves the agent here.
StopBeforeIndex(a) ==
  /\ agent[a] = "exploring" /\ step[a] = 0
  /\ \/ Standing(a) = "lost" /\ Goto(a, "exited")
     \/ Standing(a) = "pause" /\ HasResumePoint(a) /\ Goto(a, "pausing")
  /\ UNCHANGED <<agentOnly, step, gap, pauseSeen, faults>>

\* The ownership probe checkpointStep and fenceReplayedStep start with.  A
\* pause is remembered: the step's own checkpoint lands first.
StepGate(a) ==
  /\ agent[a] = "exploring"
  /\ step[a] < MaxSteps
  /\ \E standing \in {"carry_on", "pause", "lost"} :
       /\ GateReads(a, standing)
       /\ IF standing = "lost"
          THEN Goto(a, "exited") /\ UNCHANGED pauseSeen
          ELSE /\ Goto(a, IF Replays(a) THEN "step_saved" ELSE "gated")
               /\ pauseSeen' = IF standing = "pause" THEN pauseSeen \cup {a}
                                                     ELSE pauseSeen \ {a}
  /\ UNCHANGED <<agentOnly, step, gap>>

\* The row extends a prefix that has no hole in it.
ExtendsPrefix(a) == a \notin gap /\ (checkpoints \/ step[a] = 0)

\* SaveStep refuses a row a newer attempt already holds (its first step is a
\* replay, which writes no row).  A write that fails
\* opens a gap and the engine goes on to the next step; it may have landed.
SaveStep(a) ==
  /\ agent[a] = "gated"
  /\ \/ /\ checkpoints' = (checkpoints \/ ExtendsPrefix(a))
        /\ Goto(a, "step_saved")
        /\ NoFault
        /\ UNCHANGED <<step, gap>>
     \/ /\ \E b \in Attempts : b > a /\ step[b] > 1
        /\ Goto(a, "exited")
        /\ NoFault
        /\ UNCHANGED <<checkpoints, step, gap>>
     \/ /\ Fault
        /\ gap' = gap \cup {a}
        /\ step' = [step EXCEPT ![a] = @ + 1]
        /\ \E landed \in BOOLEAN :
             checkpoints' = (checkpoints \/ (landed /\ ExtendsPrefix(a)))
        /\ Goto(a, "exploring")
  /\ UNCHANGED <<run, results, pauseSeen, apiVars, restarts>>

\* MarkExplorationCheckpoint, which doubles as an ownership probe.  An error
\* costs the marker and not the run.
MarkStep(a) ==
  /\ agent[a] = "step_saved"
  /\ \/ /\ NoFault
        /\ run' = MarkExplorationCheckpoint(run, a)
        /\ Goto(a, IF StillWritable(run, a) THEN "step_marked" ELSE "exited")
     \/ /\ Fault
        /\ Goto(a, "step_marked")
        /\ UNCHANGED run
  /\ UNCHANGED <<results, checkpoints, step, gap, pauseSeen, apiVars, restarts>>

\* The engine's onStep (AddExplorationStep) runs before the pause it was asked
\* for is acted on; a replayed step has no onStep.
FinishStep(a) ==
  /\ agent[a] = "step_marked"
  /\ run' = IF Replays(a) THEN run ELSE UpdateStatus(run, a, TRUE)
  /\ step' = [step EXCEPT ![a] = @ + 1]
  /\ Goto(a, IF a \in pauseSeen /\ a \notin gap THEN "pausing"
                                                ELSE "exploring")
  /\ pauseSeen' = pauseSeen \ {a}
  /\ UNCHANGED <<results, checkpoints, gap, apiVars, restarts, faults>>

RecordPauseFailsQuietly(a) ==
  /\ agent[a] = "pausing"
  /\ \/ NoFault /\ run' = Pause(run, a)
     \/ Fault /\ UNCHANGED run
  /\ Goto(a, "exited")
  /\ UNCHANGED <<results, checkpoints, step, gap, pauseSeen, apiVars, restarts>>

\* pauseAttempt: exit 0 whether the pause was recorded or the run was no
\* longer running; exit non-zero if the write failed.
RecordPause(a) ==
  /\ agent[a] = "pausing"
  /\ \/ NoFault /\ run' = Pause(run, a) /\ Goto(a, "exited")
     \/ Fault /\ UNCHANGED run /\ Goto(a, "died")
     \/ Fault /\ run' = Pause(run, a) /\ Goto(a, "died")
  /\ UNCHANGED <<results, checkpoints, step, gap, pauseSeen, apiVars, restarts>>

-----------------------------------------------------------------------------
(* The agent, from analysis to the saved result.                           *)

\* checkpointExplorationSummary's probe, then stopBefore("analysis").
FinishExploration(a) ==
  /\ agent[a] = "exploring"
  /\ \E standing \in {"carry_on", "pause", "lost"} :
       /\ GateReads(a, standing)
       /\ Goto(a, CASE standing = "lost" -> "exited"
                    [] standing = "pause" /\ HasResumePoint(a) -> "pausing"
                    [] OTHER -> "explored")
  /\ UNCHANGED <<agentOnly, step, gap, pauseSeen>>

\* SetPhase(analysis).
BeginAnalysis(a) ==
  /\ agent[a] = "explored"
  /\ run' = UpdateStatus(run, a, TRUE)
  /\ Goto(a, "analyzing")
  /\ UNCHANGED <<results, checkpoints, step, gap, pauseSeen, apiVars,
                 restarts, faults>>

\* The gates around each analysis area; carrying on leaves the agent here.
AreaGate(a) ==
  /\ agent[a] = "analyzing"
  /\ \/ Standing(a) = "lost" /\ Goto(a, "exited")
     \/ Standing(a) = "pause" /\ HasResumePoint(a) /\ Goto(a, "pausing")
  /\ UNCHANGED <<agentOnly, step, gap, pauseSeen, faults>>

\* ownershipLost before recommendations and before the save: a pause request
\* is not a loss, and past analysis nothing acts on it.
OwnershipGate(a) ==
  /\ agent[a] \in {"analyzing", "composing"}
  /\ \E standing \in {"carry_on", "pause", "lost"} :
       /\ GateReads(a, standing)
       /\ Goto(a, CASE standing = "lost" -> "exited"
                    [] agent[a] = "analyzing" -> "recommending"
                    [] OTHER -> "saving")
  /\ UNCHANGED <<agentOnly, step, gap, pauseSeen>>

\* SetPhase(recommendations).
BeginRecommendations(a) ==
  /\ agent[a] = "recommending"
  /\ run' = UpdateStatus(run, a, FALSE)
  /\ Goto(a, "composing")
  /\ UNCHANGED <<results, checkpoints, step, gap, pauseSeen, apiVars,
                 restarts, faults>>

\* SetPhase(saving), then the insert of the discovery result.
SaveResult(a) ==
  /\ agent[a] = "saving"
  /\ run' = UpdateStatus(run, a, FALSE)
  /\ results' = results \cup {a}
  /\ Goto(a, "saved")
  /\ UNCHANGED <<checkpoints, step, gap, pauseSeen, apiVars, restarts, faults>>

\* runPhaseEmbedIndex's SetPhase.
IndexResult(a) ==
  /\ agent[a] = "saved"
  /\ run' = UpdateStatus(run, a, FALSE)
  /\ Goto(a, "indexed")
  /\ UNCHANGED <<results, checkpoints, step, gap, pauseSeen, apiVars, restarts,
                 faults>>

-----------------------------------------------------------------------------
(* The agent's terminal write and the clean-up its outcome licenses.       *)

\* finalizeStatus without a compute error.  An error leaves the write's fate
\* unknown and exits non-zero, cleaning up nothing.
TerminalComplete(a) ==
  /\ agent[a] \in {"saved", "indexed"}
  /\ \/ /\ NoFault
        /\ run' = Complete(run, a)
        /\ Goto(a, IF StillWritable(run, a) THEN "claimed" ELSE "unclaimed")
     \/ /\ Fault
        /\ run' \in {run, Complete(run, a)}
        /\ Goto(a, "died")
  /\ UNCHANGED <<results, checkpoints, step, gap, pauseSeen, apiVars, restarts>>

\* finalizeStatus after the duration cap or a kill signal ended the compute:
\* the result is partial, and the run fails with it.
TerminalFail(a) ==
  /\ agent[a] = "saved"
  /\ \/ /\ NoFault
        /\ run' = AgentFail(run, a)
        /\ Goto(a, IF AgentFailMatches(run, a) THEN "fail_claimed"
                                               ELSE "unclaimed")
     \/ /\ Fault
        /\ run' \in {run, AgentFail(run, a)}
        /\ Goto(a, "died")
  /\ UNCHANGED <<results, checkpoints, step, gap, pauseSeen, apiVars, restarts>>

ClassifyKeepsResult(a) ==
  /\ agent[a] = "unclaimed"
  /\ Goto(a, "failed")
  /\ UNCHANGED <<agentOnly, step, gap, pauseSeen, faults>>

\* classifyUnappliedTerminal: still the owner means "unknown" and keeps the
\* result; so does not being able to tell.
ClassifyUnapplied(a) ==
  /\ agent[a] = "unclaimed"
  /\ \/ /\ NoFault
        /\ Goto(a, IF Ownership(run, a) \in {"owned", "pause_requested"}
                   THEN "failed" ELSE "superseded")
     \/ Fault /\ Goto(a, "died")
  /\ UNCHANGED <<agentOnly, step, gap, pauseSeen>>

\* retireOwnResult; each of its deletes is best effort.
RetireOwnResult(a) ==
  /\ agent[a] = "superseded"
  /\ \/ NoFault /\ results' = results \ {a}
     \/ Fault /\ UNCHANGED results
  /\ Goto(a, "exited")
  /\ UNCHANGED <<run, checkpoints, step, gap, pauseSeen, apiVars, restarts>>

RetireAllOthers(a) ==
  /\ agent[a] \in {"claimed", "fail_claimed"}
  /\ results' = results \cap {a}
  /\ NoFault
  /\ Goto(a, IF agent[a] = "claimed" THEN "retired" ELSE "failed")
  /\ UNCHANGED <<run, checkpoints, step, gap, pauseSeen, apiVars, restarts>>

\* retireSuperseded: only the results of attempts older than this one.
RetireSuperseded(a) ==
  /\ agent[a] \in {"claimed", "fail_claimed"}
  /\ \/ NoFault /\ results' = {r \in results : r >= a}
     \/ Fault /\ UNCHANGED results
  /\ Goto(a, IF agent[a] = "claimed" THEN "retired" ELSE "failed")
  /\ UNCHANGED <<run, checkpoints, step, gap, pauseSeen, apiVars, restarts>>

DiscardCheckpointsOfFailed(a) ==
  /\ agent[a] \in {"retired", "fail_claimed"}
  /\ checkpoints' = FALSE
  /\ Goto(a, "exited")
  /\ UNCHANGED <<run, results, step, gap, pauseSeen, apiVars, restarts, faults>>

\* discardCheckpoints, reached only by a claimed completion.
DiscardCheckpoints(a) ==
  /\ agent[a] = "retired"
  /\ checkpoints' = FALSE
  /\ Goto(a, "exited")
  /\ UNCHANGED <<run, results, step, gap, pauseSeen, apiVars, restarts, faults>>

\* A process can be killed, crash, or give up on an error at any point; every
\* such end has a non-zero exit status and writes nothing more.
AgentDies(a) ==
  /\ Live(a)
  /\ Goto(a, "died")
  /\ UNCHANGED <<agentOnly, step, gap, pauseSeen, faults>>

AgentStep(a) ==
  \/ LoadResumeState(a) \/ BeginExploration(a) \/ StopBeforeIndex(a)
  \/ StepGate(a) \/ SaveStep(a) \/ MarkStep(a) \/ FinishStep(a)
  \/ RecordPause(a) \/ FinishExploration(a) \/ BeginAnalysis(a)
  \/ AreaGate(a) \/ OwnershipGate(a) \/ BeginRecommendations(a)
  \/ SaveResult(a) \/ IndexResult(a) \/ TerminalComplete(a)
  \/ TerminalFail(a) \/ ClassifyUnapplied(a) \/ RetireOwnResult(a)
  \/ RetireSuperseded(a) \/ DiscardCheckpoints(a)

-----------------------------------------------------------------------------
(* The runner's watcher, and the request that started the run.             *)

watcherOnly == <<checkpoints, results, agentVars, starter, req, seen,
                 dispatched, restarts>>

\* OnFailure of an agent that exited non-zero.
WatcherFires(a) ==
  /\ a \in watched
  /\ agent[a] \in {"failed", "died"}
  /\ Records(FailAttempt(run, a))
  /\ watched' = watched \ {a}
  /\ UNCHANGED watcherOnly

\* A watcher that lost sight of its agent, whatever became of that: watchJob
\* leaves without a word (its window ran out, the Job is gone), the docker one
\* reports the failure of an agent that may be alive.
WatcherGivesUp(a) ==
  /\ a \in watched
  /\ Fault
  /\ run' \in {run, FailAttempt(run, a)}
  /\ Befalls("unrecorded")
  /\ watched' = watched \ {a}
  /\ UNCHANGED watcherOnly

starterOnly == <<checkpoints, results, step, gap, pauseSeen, req, seen,
                 dispatched, restarts>>

\* StartRun cancels its own run when another one is active ...
StartLosesRace ==
  /\ starter = "admitting"
  /\ Records(Cancel(run))
  /\ starter' = "done"
  /\ UNCHANGED <<starterOnly, agent, watched>>

\* ... and fails it when the plan or the meter refuses it.
StartDenied ==
  /\ starter = "admitting"
  /\ Records(Fail(run))
  /\ starter' = "done"
  /\ UNCHANGED <<starterOnly, agent, watched>>

StartAdmitted ==
  /\ starter = "admitting"
  /\ starter' = "spawning"
  /\ UNCHANGED <<starterOnly, run, agent, watched, mishaps, faults>>

StartSpawns ==
  /\ starter = "spawning"
  /\ Goto(1, "loaded")
  /\ watched' = watched \cup {1}
  /\ starter' = "done"
  /\ UNCHANGED <<starterOnly, run, mishaps, faults>>

StartSpawnFails ==
  /\ starter = "spawning"
  /\ Records(Fail(run))
  /\ starter' = "done"
  /\ UNCHANGED <<starterOnly, agent, watched>>

StarterStep == \/ StartLosesRace \/ StartDenied \/ StartAdmitted
               \/ StartSpawns \/ StartSpawnFails

-----------------------------------------------------------------------------
(* The operator's requests.                                                *)

reqFaulty == <<agentVars, starter, dispatched, restarts>>
reqOnly == <<reqFaulty, mishaps, faults>>

ResumeReads(q) ==
  /\ q \in Resumers /\ At(q, "idle")
  /\ Resumable(run)
  /\ Advance(q, "checking")
  /\ UNCHANGED <<docVars, reqOnly, watched, seen>>

\* ResumeState of the checkpoints; then the competing-run query.
ResumeChecks(q) ==
  /\ q \in Resumers /\ At(q, "checking")
  /\ Advance(q, IF checkpoints THEN "admitted" ELSE "refusing")
  /\ UNCHANGED <<docVars, reqOnly, watched, seen>>

ResumeRefuses(q) ==
  /\ q \in Resumers /\ At(q, "refusing")
  /\ run' = ClearExplorationCheckpointMarker(run)
  /\ Advance(q, "done")
  /\ UNCHANGED <<checkpoints, results, reqOnly, watched, seen>>

\* BeginResume is a read and a fenced write.
BeginResumeReads(q) ==
  /\ q \in Resumers /\ At(q, "admitted")
  /\ Reads(q)
  /\ Advance(q, "read")
  /\ UNCHANGED <<docVars, reqOnly, watched>>

BeginResumeFlips(q) ==
  /\ q \in Resumers /\ At(q, "read")
  /\ IF BeginResumeMatches(run, seen[q].attempt)
     THEN /\ NextAttempt(seen[q].attempt) <= MaxAttempt
          /\ run' = BeginResume(run, seen[q].attempt)
          /\ seen' = [seen EXCEPT ![q].attempt = NextAttempt(@)]
          /\ Advance(q, "flipped")
     ELSE Advance(q, "done") /\ UNCHANGED <<run, seen>>
  /\ UNCHANGED <<checkpoints, results, reqOnly, watched>>

\* The write landed and its answer was lost: the request gives up, and the run
\* is running without an agent.
FlipGoesUnanswered(q) ==
  /\ q \in Resumers /\ At(q, "read")
  /\ BeginResumeMatches(run, seen[q].attempt)
  /\ NextAttempt(seen[q].attempt) <= MaxAttempt
  /\ Fault
  /\ run' = BeginResume(run, seen[q].attempt)
  /\ Befalls("unrecorded")
  /\ Advance(q, "done")
  /\ UNCHANGED <<checkpoints, results, reqFaulty, watched, seen>>

\* The recheck found a competitor or failed, or the spawn did.
ResumeStandsDown(q) ==
  /\ q \in Resumers /\ At(q, "flipped")
  /\ Records(FailAttempt(run, seen[q].attempt))
  /\ Advance(q, "done")
  /\ UNCHANGED <<checkpoints, results, reqFaulty, watched, seen>>

ResumeSpawns(q) ==
  /\ q \in Resumers /\ At(q, "flipped")
  /\ Goto(seen[q].attempt, "starting")
  /\ watched' = watched \cup {seen[q].attempt}
  /\ Advance(q, "done")
  /\ UNCHANGED <<docVars, step, gap, pauseSeen, starter, seen, dispatched,
                 mishaps, restarts, faults>>

CancelReads(q) ==
  /\ q \in Cancellers /\ At(q, "idle")
  /\ run.status \in {"running", "pending", "paused"}
  /\ Advance(q, "killing")
  /\ UNCHANGED <<docVars, reqOnly, watched, seen>>

\* Runner.Cancel.  The kill itself is AgentDies, which may come at any later
\* moment or never; the docker and Kubernetes runners also stop watching.
CancelKills(q) ==
  /\ q \in Cancellers /\ At(q, "killing")
  /\ watched' \in {watched, {}}
  /\ Advance(q, "cancelling")
  /\ UNCHANGED <<docVars, reqOnly, seen>>

\* The error of the write is logged, and the request goes on as after success.
CancelWrites(q) ==
  /\ q \in Cancellers /\ At(q, "cancelling")
  /\ Records(Cancel(run))
  /\ \/ NoFault /\ Advance(q, "purging")
     \/ Fault /\ Advance(q, "unsure")
  /\ UNCHANGED <<checkpoints, results, reqFaulty, watched, seen>>

\* The DeleteByRun that CancelRun ends with, after a write that may not have
\* landed.
PurgesAnyway(q) ==
  /\ q \in Cancellers /\ At(q, "unsure")
  /\ checkpoints' = FALSE
  /\ Befalls("purged")
  /\ Advance(q, "done")
  /\ UNCHANGED <<run, results, reqFaulty, watched, seen, faults>>

\* The DeleteByRun that CancelRun and DiscardRun end with.
PurgeCheckpoints(q) ==
  /\ q \in Cancellers \cup Discarders /\ At(q, "purging")
  /\ checkpoints' = FALSE
  /\ Advance(q, "done")
  /\ UNCHANGED <<run, results, reqOnly, watched, seen>>

PauseReads(q) ==
  /\ q \in Pausers /\ At(q, "idle")
  /\ Active(run) /\ run.pausable
  /\ Reads(q)
  /\ Advance(q, "asking")
  /\ UNCHANGED <<docVars, reqOnly, watched>>

PauseAsks(q) ==
  /\ q \in Pausers /\ At(q, "asking")
  /\ run' = RequestPause(run, seen[q].attempt)
  /\ Advance(q, "done")
  /\ UNCHANGED <<checkpoints, results, reqOnly, watched, seen>>

\* pause_deadline_at passes.
PauseLapses ==
  /\ run.pauseReq # NoRequest /\ ~run.lapsed
  /\ run' = [run EXCEPT !.lapsed = TRUE]
  /\ UNCHANGED <<checkpoints, results, reqOnly, watched, req, seen>>

DiscardReads(q) ==
  /\ q \in Discarders /\ At(q, "idle")
  /\ run.status \in {"failed", "cancelled"}
  /\ run.discovery = NoDiscovery
  /\ ~run.discarded
  /\ Reads(q)
  /\ Advance(q, "checking")
  /\ UNCHANGED <<docVars, reqOnly, watched>>

DiscardSkipsResultCheck(q) ==
  /\ q \in Discarders /\ At(q, "checking")
  /\ Advance(q, "cleared")
  /\ UNCHANGED <<docVars, reqOnly, watched, seen>>

\* HasResultForRun.
DiscardChecks(q) ==
  /\ q \in Discarders /\ At(q, "checking")
  /\ Advance(q, IF results = {} THEN "cleared" ELSE "done")
  /\ UNCHANGED <<docVars, reqOnly, watched, seen>>

DiscardWrites(q) ==
  /\ q \in Discarders /\ At(q, "cleared")
  /\ IF DiscardMatches(run, seen[q].attempt)
     THEN run' = Discarded(run) /\ Advance(q, "purging")
     ELSE UNCHANGED run /\ Advance(q, "done")
  /\ UNCHANGED <<checkpoints, results, reqOnly, watched, seen>>

\* Discard's write landed and its answer was lost: nothing is purged.
DiscardGoesUnanswered(q) ==
  /\ q \in Discarders /\ At(q, "cleared")
  /\ DiscardMatches(run, seen[q].attempt)
  /\ Fault
  /\ run' = Discarded(run)
  /\ Advance(q, "done")
  /\ UNCHANGED <<checkpoints, results, reqFaulty, watched, seen, mishaps>>

\* A round trip that fails and changes nothing ends the request: with a 500,
\* or, where it was its last and is best effort, as after success.
AnswersError(q) ==
  /\ req[q] \in {"checking", "refusing", "admitted", "read", "asking",
                 "cleared", "purging", "unsure", "marking"}
  /\ Fault
  /\ Advance(q, "done")
  /\ UNCHANGED <<docVars, reqFaulty, watched, seen, mishaps>>

-----------------------------------------------------------------------------
(* The completion-hook dispatcher and the API's own life.                  *)

PollLists(q) ==
  /\ q \in Polls /\ At(q, "idle")
  /\ Terminal(run) /\ ~run.hooks
  /\ Reads(q)
  /\ Advance(q, "firing")
  /\ UNCHANGED <<docVars, reqOnly, watched>>

\* Every registered hook ran; if one failed the row stays unmarked.
PollFires(q) ==
  /\ q \in Polls /\ At(q, "firing")
  /\ dispatched' = dispatched \cup {<<seen[q].attempt, seen[q].status>>}
  /\ \/ Advance(q, "marking")
     \/ Advance(q, "done")
  /\ UNCHANGED <<docVars, agentVars, starter, watched, seen, mishaps, restarts,
                 faults>>

PollMarks(q) ==
  /\ q \in Polls /\ At(q, "marking")
  /\ run' = MarkCompletionHooksFired(run, seen[q].attempt)
  /\ Advance(q, "done")
  /\ UNCHANGED <<checkpoints, results, reqOnly, watched, seen>>

\* The TTL index removes the rows of a run that outlived its retention.
Expires ==
  /\ checkpoints
  /\ checkpoints' = FALSE
  /\ Befalls("expired")
  /\ UNCHANGED <<run, results, reqFaulty, watched, req, seen, faults>>

\* A replica starts and sweeps.  With down, it is the one that was serving:
\* its handlers, watchers and dispatcher ticks died with it.
ApiStarts(down) ==
  /\ restarts < MaxRestarts
  /\ restarts' = restarts + 1
  /\ Records(CleanupStaleRuns(run))
  /\ IF down
     THEN /\ watched' = {}
          /\ starter' = "done"
          /\ req' = [q \in Requests |-> IF At(q, "idle") THEN "idle" ELSE "done"]
     ELSE UNCHANGED <<watched, starter, req>>
  /\ UNCHANGED <<checkpoints, results, agentVars, seen, dispatched>>

\* What a request does once it has been received.
HandlerStep(q) ==
  \/ ResumeChecks(q) \/ ResumeRefuses(q) \/ BeginResumeReads(q)
  \/ BeginResumeFlips(q) \/ ResumeStandsDown(q) \/ ResumeSpawns(q)
  \/ CancelKills(q) \/ CancelWrites(q) \/ PurgesAnyway(q)
  \/ PurgeCheckpoints(q) \/ PauseAsks(q) \/ DiscardChecks(q)
  \/ DiscardWrites(q) \/ PollFires(q) \/ PollMarks(q)

HandlerFails(q) ==
  FlipGoesUnanswered(q) \/ DiscardGoesUnanswered(q) \/ AnswersError(q)

\* A request is received by one of its first round trips.
Arrives(q) ==
  /\ Cardinality({r \in Requests : ~At(r, "idle")}) < MaxRequests
  /\ \/ ResumeReads(q) \/ CancelReads(q) \/ PauseReads(q)
     \/ DiscardReads(q) \/ PollLists(q)

-----------------------------------------------------------------------------
(* The specification.                                                      *)

Idle == [attempt |-> 0, status |-> "pending"]

Init ==
  /\ checkpoints = FALSE
  /\ results = {}
  /\ step = [a \in Attempts |-> 0]
  /\ gap = {} /\ pauseSeen = {} /\ watched = {} /\ dispatched = {}
  /\ req = [q \in Requests |-> "idle"]
  /\ seen = [q \in Requests |-> Idle]
  /\ mishaps = {} /\ restarts = 0 /\ faults = 0
  /\ \/ /\ "fresh" \in InitialRuns      \* RunRepository.Create
        /\ run = Created
        /\ agent = [a \in Attempts |-> "none"]
        /\ starter = "admitting"
     \/ /\ "legacy" \in InitialRuns     \* started by an API without attempts
        /\ run = [Created EXCEPT !.attempt = 0]
        /\ agent = [a \in Attempts |-> IF a = 1 THEN "loaded" ELSE "none"]
        /\ starter = "done"

Next ==
  \/ \E a \in Attempts : \/ AgentStep(a) \/ AgentDies(a)
                         \/ WatcherFires(a) \/ WatcherGivesUp(a)
  \/ StarterStep
  \/ \E q \in Requests : Arrives(q) \/ HandlerStep(q) \/ HandlerFails(q)
  \/ PauseLapses \/ Expires
  \/ \E down \in BOOLEAN : ApiStarts(down)

Spec == Init /\ [][Next]_vars

\* A process that is alive takes its next step: agents, watchers that still see
\* theirs, and requests that have been received.  What it writes may be lost
\* (Records), a watcher may give up first (WatcherGivesUp), a request may end in
\* an error (HandlerFails).  Nothing obliges an operator to make one.
Fairness ==
  /\ \A a \in Attempts : WF_vars(AgentStep(a)) /\ WF_vars(WatcherFires(a))
  /\ WF_vars(StarterStep)
  /\ \A q \in Requests : WF_vars(HandlerStep(q))

FairSpec == Spec /\ Fairness

-----------------------------------------------------------------------------
(* Properties.                                                             *)

\* The type invariant of the run document and of every actor's record.
TypeOK ==
  /\ run \in RunDoc
  /\ checkpoints \in BOOLEAN
  /\ results \subseteq Attempts
  /\ agent \in [Attempts -> AgentPc]
  /\ step \in [Attempts -> 0..MaxSteps]
  /\ gap \subseteq Attempts
  /\ pauseSeen \subseteq Attempts
  /\ watched \subseteq Attempts
  /\ starter \in StarterPc
  /\ req \in [Requests -> ReqPc]
  /\ seen \in [Requests -> [attempt : RecordedAttempts, status : Status]]
  /\ dispatched \subseteq RecordedAttempts \X Status
  /\ mishaps \subseteq Mishap
  /\ restarts \in 0..MaxRestarts
  /\ faults \in 0..MaxFaults
  /\ \A a \in Attempts :
       agent[a] \in {"gated", "step_saved", "step_marked"} => step[a] < MaxSteps
  /\ \A q \in Resumers : At(q, "flipped") => seen[q].attempt \in Attempts

\* An attempt the run has moved on from changes nothing of the run: a step that
\* changes the document, or takes away the result of a newer attempt, is not one
\* of its agent or its watcher.  (attemptFilter, attemptFence, retireSuperseded)
SupersededAttemptIsMute ==
  [][\A a \in Attempts :
       /\ CurrentAttempt(run) # a
       /\ \/ run' # run
          \/ \E r \in results : r > a /\ r \notin results'
       => ~(AgentStep(a) \/ WatcherFires(a) \/ WatcherGivesUp(a))]_vars

\* No attempt number is handed to two agents: BeginResume's fence on the
\* attempt it read, which per-attempt Job names and fenced callbacks rely on.
NoAttemptStartsTwice ==
  [][\A a \in Attempts : agent[a] # "none" => agent'[a] \in {agent[a]} \cup
                                              (AgentPc \ {"none", "starting"})]_vars

\* The discovery_id a run carries names a result that is still stored, so the
\* back-reference hooks and the dashboard follow never dangles, whichever
\* attempts' clean-up ran in whichever order.
StampedResultIsStored == run.discovery # NoDiscovery => run.discovery \in results

\* Once every agent is gone and the owner of a completed run exited cleanly,
\* its result is the run's only one: the superseded attempts deleted theirs or
\* had them retired.  An agent that was killed may leave its result behind, and
\* so does a delete that fails, which nobody retries.
OnlyOwnersResultRemains ==
  /\ run.status = "completed"
  /\ \A a \in Attempts : ~Live(a)
  /\ agent[CurrentAttempt(run)] = "exited"
  /\ faults = 0
  => results \ {a \in Attempts : agent[a] = "died"} = {CurrentAttempt(run)}

\* The replayable prefix goes only when nothing will ever resume from it: no
\* agent, handler or clean-up deletes the checkpoints of a run that failed or
\* paused, or that a newer attempt is working on, except a cancel whose own
\* write failed (OnlyEndedRunsArePurged).  What else takes them is their
\* retention.
CheckpointsOutliveFailure ==
  [][checkpoints /\ ~checkpoints' => \/ run.status \in {"completed", "cancelled"}
                                    \/ run.discarded
                                    \/ Expires
                                    \/ \E q \in Cancellers : PurgesAnyway(q)]_vars

\* Something other than the code that owns the run took its checkpoints.
PrefixTaken == mishaps \cap {"expired", "purged"} # {}

\* A paused run can be resumed: its prefix is there, in spite of failed writes,
\* sweeps and other attempts, unless its retention ran out (the resume is then
\* refused) or a cancel that failed deleted it; and no request is left pending
\* that would stop the attempt that resumes it.
PausedIsResumable ==
  run.status = "paused" => run.pauseReq = NoRequest /\ (checkpoints \/ PrefixTaken)

\* A discarded run keeps no result, although DiscardRun's result check and its
\* write are two round trips with resumes possible in between, and although an
\* agent may have survived the sweep that failed the run: what is left is of
\* an agent that is still to find out, or was killed before it could, or of the
\* run's own, if its failure went unrecorded between the check and the write,
\* which DiscardRun's comment puts up with.  (A delete that fails is not
\* retried, and leaves its result behind.)
DiscardedRunKeepsNoResult ==
  run.discarded /\ faults = 0
    => results \subseteq {a \in Attempts :
                            \/ Live(a) \/ agent[a] = "died"
                            \/ agent[a] = "failed" /\ a = CurrentAttempt(run)}

\* The completion-hook stamp on a run is the stamp of a dispatch of its current
\* attempt, so a resumed attempt's outcome is never skipped as already sent.
HooksCoverAttempt ==
  run.hooks => \E d \in dispatched : d[1] = run.attempt

\* A run that is pending or running does not stay so while the API stays up:
\* some agent, watcher or handler records an outcome or a pause, whichever of
\* the agent's own round trips fail.  Only an outcome lost on the API's side (a
\* watcher that gave up, a write whose error is only logged, a flip that went
\* unanswered) can leave it active; the next start's sweep or a cancel is then
\* what ends it.
ActiveRunEnds ==
  Active(run) ~> ~Active(run) \/ "unrecorded" \in mishaps \/ restarts > 0

\* The run is a run as RunPromise describes it.
Promise == INSTANCE RunPromise WITH status    <- run.status,
                                    attempt   <- CurrentAttempt(run),
                                    discarded <- run.discarded,
                                    discovery <- run.discovery

ImplementsRunPromise == Promise!PromiseSpec

-----------------------------------------------------------------------------
(* What the documentation and the comments say and the code does not do.   *)

\* A pause "stamps the value itself", so that a resumable run offers Resume.
PausedRunOffersResume == run.status = "paused" => run.marker

\* "Cancellation is a deliberate hard kill and stays terminal, so the
\* checkpoints have no one left to serve": rows that have not expired are only
\* ever deleted of a run that is completed, cancelled or discarded.
OnlyEndedRunsArePurged ==
  [][checkpoints /\ ~checkpoints' => \/ run.status \in {"completed", "cancelled"}
                                    \/ run.discarded
                                    \/ Expires]_vars

\* A cancelled run whose agents are all gone and exited has no result left.
CancelledRunKeepsNoResult ==
  /\ run.status = "cancelled"
  /\ \A a \in Attempts : agent[a] \in {"none", "exited"}
  => results = {}

\* "Plugins can react to every discovery run that reaches a terminal state":
\* a completed run is never stamped without its completion being dispatched.
HooksCoverCompletion ==
  run.status = "completed" /\ run.hooks
    => <<run.attempt, "completed">> \in dispatched

=============================================================================
