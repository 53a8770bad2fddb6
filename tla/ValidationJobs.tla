---------------------------- MODULE ValidationJobs ----------------------------
(***************************************************************************)
(* Manual validation of one document (an insight or a recommendation): the *)
(* job rows in Mongo, the handlers that enqueue and cancel, the worker of   *)
(* the API process that claims a row, runs an agent for it and sweeps rows  *)
(* whose heartbeat went cold, and the agents, which write the verdict into  *)
(* the discovery with no condition on the row.                             *)
(*                                                                         *)
(* The jobs of the document are numbered in the order they are enqueued.    *)
(* A claim <<j, a>> is the a-th time row j was claimed; each claim starts   *)
(* one agent, which adopts the attempt it finds in the row.                *)
(*                                                                         *)
(* EvenLost, OverAnyStatus and UnderBudget are the definition after each of *)
(* them with a bug; no specification uses them.                            *)
(***************************************************************************)
EXTENDS Naturals

CONSTANTS MaxJobs,      \* jobs enqueued for the document
          MaxAttempts,  \* claims of a job before the sweep gives up on it
          MaxFaults     \* heartbeats that go cold under a living agent, and
                        \* restarts of the API process

ASSUME ValidationJobsAssumption ==
  /\ MaxJobs \in Nat \ {0} /\ MaxAttempts \in Nat \ {0}
  /\ MaxFaults \in Nat

VARIABLES
  job,       \* job[j]: the row's status and attempt
  cold,      \* cold[j]: the row runs and its heartbeat is older than StaleAfter
  agent,     \* agent[c]: where the agent of claim c is, the attempt it adopted, and
             \* (history) whether the row was its own when it rechecked
  waited,    \* the claims whose agent the worker still waits for
  found,     \* the stale rows a sweep has found and not handled yet
  verdict,   \* the claim that the document's verdict is of, <<0, 0>> for none
  faults,
  late       \* history: a verdict was written by an attempt that lost its row
             \* after it had rechecked it

rows == <<job, cold>>
vars == <<rows, agent, waited, found, verdict, faults, late>>

Jobs     == 1..MaxJobs
Attempts == 1..MaxAttempts
Claims   == Jobs \X Attempts

Terminal  == {"completed", "failed", "cancelled"}
Active    == {"pending", "running"}
Alive     == {"started", "working", "rechecked", "persisted"}
Gone      == [pc |-> "gone", own |-> 0, held |-> FALSE]

Init ==
  /\ job = [j \in Jobs |-> [status |-> "none", attempt |-> 0]]
  /\ cold = [j \in Jobs |-> FALSE]
  /\ agent = [c \in Claims |-> [pc |-> "none", own |-> 0, held |-> FALSE]]
  /\ waited = {} /\ found = {}
  /\ verdict = <<0, 0>>
  /\ faults = 0 /\ late = FALSE

\* The filter of every write that belongs to attempt a of job j.
Running(j, a) == job[j] = [status |-> "running", attempt |-> a]

SetStatus(j, s) == job' = [job EXCEPT ![j].status = s] /\ cold' = [cold EXCEPT ![j] = FALSE]
Moves(c, pc)    == agent' = [agent EXCEPT ![c].pc = pc]

\* The agent exits: when it failed, the worker that waits for it will know.
Fail(c) == agent' = [agent EXCEPT ![c] =
             [Gone EXCEPT !.pc = IF c \in waited THEN "failed" ELSE "gone"]]
Owned(c)        == Running(c[1], agent[c].own)

-----------------------------------------------------------------------------
(* The handlers.                                                           *)

\* Enqueue: the index allows the document one active job.
Enqueue(j) ==
  /\ job[j].status = "none"
  /\ \A i \in Jobs : i < j => job[i].status \in Terminal
  /\ SetStatus(j, "pending")
  /\ UNCHANGED <<agent, waited, found, verdict, faults, late>>

\* Cancel: the row, whatever its attempt, and then a signal that kills the
\* agent of whichever claim the worker has registered, if that one is still
\* registered: Dies, at any later time or never.
Cancel(j) ==
  /\ job[j].status \in Active
  /\ SetStatus(j, "cancelled")
  /\ UNCHANGED <<agent, waited, found, verdict, faults, late>>

-----------------------------------------------------------------------------
(* The worker. A poll claims between two sweeps, never during one.         *)

Claim(j) ==
  LET c == <<j, job[j].attempt + 1>> IN
  /\ job[j].status = "pending" /\ found = {}
  /\ job' = [job EXCEPT ![j] = [status |-> "running", attempt |-> c[2]]]
  /\ cold' = [cold EXCEPT ![j] = FALSE]
  /\ agent' = [agent EXCEPT ![c].pc = "started"]
  /\ waited' = waited \cup {c}
  /\ UNCHANGED <<found, verdict, faults, late>>

\* runClaimedJob after an agent that failed: its error is written to the row
\* (the write may fail). Of an agent that succeeded, or that was cancelled
\* with its row, the worker writes nothing.
Returns(c) ==
  /\ c \in waited /\ agent[c].pc = "failed"
  /\ \/ Running(c[1], c[2]) /\ SetStatus(c[1], "failed")
     \/ UNCHANGED rows
  /\ waited' = waited \ {c}
  /\ Moves(c, "gone")
  /\ UNCHANGED <<found, verdict, faults, late>>

\* RequeueStale: what its query finds,
UnderBudget(j) == job[j].status = "running" /\ cold[j] /\ job[j].attempt < MaxAttempts
Stale(j)       == job[j].status = "running" /\ cold[j]

SweepFinds ==
  /\ found = {}
  /\ \E j \in Jobs : Stale(j)
  /\ found' = {<<j, job[j].attempt>> : j \in {i \in Jobs : Stale(i)}}
  /\ UNCHANGED <<rows, agent, waited, verdict, faults, late>>

\* and the two updates it makes of a row it found: neither looks at the
\* heartbeat again.
OverAnyStatus(c) == job[c[1]].attempt = c[2]
StillRunning(c)  == Running(c[1], c[2])

SweepRow(c) ==
  /\ c \in found
  /\ found' = found \ {c}
  /\ IF StillRunning(c)
     THEN SetStatus(c[1], IF c[2] >= MaxAttempts THEN "failed" ELSE "pending")
     ELSE UNCHANGED rows
  /\ UNCHANGED <<agent, waited, verdict, faults, late>>

\* The process restarts, and nobody waits for the agents: any of them may have
\* died with it (Dies).
Restart ==
  /\ faults < MaxFaults
  /\ faults' = faults + 1
  /\ waited' = {} /\ found' = {}
  /\ agent' = [c \in Claims |-> IF agent[c].pc = "failed" THEN Gone ELSE agent[c]]
  /\ UNCHANGED <<rows, verdict, late>>

-----------------------------------------------------------------------------
(* The agent of claim c.                                                   *)

WorldFrame == UNCHANGED <<waited, found, faults>>

\* It loads the row, adopts the row's attempt and starts its heartbeat.
Loads(c) ==
  /\ agent[c].pc = "started"
  /\ IF job[c[1]].status = "running"
     THEN /\ agent' = [agent EXCEPT ![c].pc = "working", ![c].own = job[c[1]].attempt]
          /\ cold' = [cold EXCEPT ![c[1]] = FALSE]
     ELSE Fail(c) /\ UNCHANGED cold
  /\ WorldFrame /\ UNCHANGED <<job, verdict, late>>

\* The verdict is there: MarkStep, then the row is read again.
EvenLost(c)   == TRUE
StillOurs(c)  == Owned(c)

Rechecks(c) ==
  /\ agent[c].pc = "working"
  /\ IF StillOurs(c)
     THEN agent' = [agent EXCEPT ![c].pc = "rechecked", ![c].held = Owned(c)]
     ELSE Fail(c)
  /\ cold' = [cold EXCEPT ![c[1]] = @ /\ ~Owned(c)]
  /\ WorldFrame /\ UNCHANGED <<job, verdict, late>>

\* UpdateInsightValidation: no condition on the row.
Persists(c) ==
  /\ agent[c].pc = "rechecked"
  /\ verdict' = <<c[1], agent[c].own>>
  /\ Moves(c, "persisted")
  /\ late' = (late \/ (agent[c].held /\ ~Owned(c)))
  /\ WorldFrame /\ UNCHANGED rows

\* markJobCompleted, and markJobFailed of an error before the verdict.
Completes(c) ==
  /\ agent[c].pc = "persisted"
  /\ IF Owned(c) THEN SetStatus(c[1], "completed") ELSE UNCHANGED rows
  /\ agent' = [agent EXCEPT ![c] = Gone]
  /\ waited' = waited \ {c}
  /\ UNCHANGED <<found, verdict, faults, late>>

Fails(c) ==
  /\ agent[c].pc \in {"working", "rechecked"}
  /\ IF Owned(c) THEN SetStatus(c[1], "failed") ELSE UNCHANGED rows
  /\ Fail(c)
  /\ WorldFrame /\ UNCHANGED <<verdict, late>>

\* The process ends without a write, or its last write fails.
Dies(c) ==
  /\ agent[c].pc \in Alive
  /\ Fail(c)
  /\ WorldFrame /\ UNCHANGED <<rows, verdict, late>>

-----------------------------------------------------------------------------
(* Heartbeats.                                                             *)

\* An agent beats for job j's row: its heartbeat passes the row's filter.
Beaten(j) == \E c \in Claims : c[1] = j /\ agent[c].pc \in Alive \ {"started"} /\ Owned(c)

Beats(j) ==
  /\ Beaten(j) /\ cold[j]
  /\ cold' = [cold EXCEPT ![j] = FALSE]
  /\ WorldFrame /\ UNCHANGED <<job, agent, verdict, late>>

\* Nobody beats for StaleAfter, or an agent that lives cannot.
Lapses(j) ==
  /\ job[j].status = "running" /\ ~cold[j] /\ ~Beaten(j)
  /\ cold' = [cold EXCEPT ![j] = TRUE]
  /\ WorldFrame /\ UNCHANGED <<job, agent, verdict, late>>

Stalls(j) ==
  /\ Beaten(j) /\ ~cold[j] /\ faults < MaxFaults
  /\ faults' = faults + 1
  /\ cold' = [cold EXCEPT ![j] = TRUE]
  /\ UNCHANGED <<job, agent, waited, found, verdict, late>>

-----------------------------------------------------------------------------
AgentStep(c) == Loads(c) \/ Rechecks(c) \/ Persists(c) \/ Completes(c) \/ Fails(c) \/ Dies(c)

Next ==
  \/ \E j \in Jobs : \/ Enqueue(j) \/ Cancel(j) \/ Claim(j)
                     \/ Beats(j) \/ Lapses(j) \/ Stalls(j)
  \/ \E c \in Claims : Returns(c) \/ SweepRow(c) \/ AgentStep(c)
  \/ SweepFinds \/ Restart

Spec == Init /\ [][Next]_vars

\* The worker's loop polls and sweeps and its goroutines return, a heartbeat
\* nobody renews goes cold, and agents end, one way or another. Of each kind
\* there are finitely many steps, so a disjunction is as good as its parts.
WorkerStep == SweepFinds \/ (\E c \in Claims : SweepRow(c)) \/ (\E j \in Jobs : Claim(j))

Fairness ==
  /\ WF_vars(WorkerStep) /\ WF_vars(\E c \in Claims : Returns(c))
  /\ WF_vars(\E c \in Claims : AgentStep(c))
  /\ WF_vars(\E j \in Jobs : Lapses(j))

FairSpec == Spec /\ Fairness

-----------------------------------------------------------------------------
(* Properties.                                                             *)

\* The shape of the state: a claim's agent exists once the claim was made,
\* and it never adopts an attempt that was not reached.
TypeOK ==
  /\ job \in [Jobs -> [status : {"none"} \cup Active \cup Terminal, attempt : 0..MaxAttempts]]
  /\ cold \in [Jobs -> BOOLEAN]
  /\ agent \in [Claims -> [pc : {"none", "failed", "gone"} \cup Alive, own : 0..MaxAttempts,
                           held : BOOLEAN]]
  /\ waited \subseteq Claims /\ found \subseteq Claims
  /\ verdict \in {<<0, 0>>} \cup Claims
  /\ faults \in 0..MaxFaults /\ late \in BOOLEAN

\* The document shows the verdict its last completed validation reached, or
\* one of a job enqueued after it: no attempt that lost its row, of this job
\* or of an earlier one, writes over it, as long as no write fell between the
\* recheck of its attempt and the loss of its row.
CompletedVerdictStands ==
  ~late => \A j \in Jobs : job[j].status = "completed" =>
             \/ verdict = <<j, job[j].attempt>>
             \/ verdict[1] > j

\* A job that ended has ended: neither an agent of an earlier claim, nor the
\* worker that waited for one, nor a sweep that found the row when it ran,
\* brings it back or changes how it ended.
TerminalJobIsFinal ==
  [][\A j \in Jobs : job[j].status \in Terminal => job'[j] = job[j]]_vars

\* Jobs that were enqueued end, whatever becomes of their agents, of their
\* heartbeats and of the process that waits for them.
JobsEnd ==
  (\E j \in Jobs : job[j].status \in Active) ~> (\A j \in Jobs : job[j].status \notin Active)

=============================================================================
