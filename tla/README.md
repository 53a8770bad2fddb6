# DecisionBox: verification project

TLA+ models of the DecisionBox platform, the TLC configurations that check them
on small instances, and TLAPS proofs of what should hold on every instance.
Source paths are relative to the repository root. `PROJECT.json` names, for
every definition that models code, the lines it stands for.

Contents: the system (1), the plan (2), what each module models (3), the runs
(4), the proofs (5), disagreements found between the code and its
documentation (6), and what is not modelled (7).

## 1. The system

DecisionBox runs *discoveries*: an agent process explores a customer's
warehouse with an LLM, analyses what it found and stores insights and
recommendations. Two Go services share a MongoDB and do not talk to each other
otherwise, except that the API starts agent processes and sees them exit.

| part | state it keeps | operations | interacts by |
|---|---|---|---|
| **run record** (`services/{api,agent}/.../run_repo.go`) | one `discovery_runs` document per run: status, attempt, phase, pause request, discovery id, checkpoint marker, discard and hook stamps | ~25 filtered updates, each atomic | every other part reads and writes it |
| **API handlers** (`api/internal/handler/discoveries.go`) | nothing between requests | start, resume, pause, cancel, discard | several round trips per request, none of them in a transaction |
| **runners** (`api/internal/runner`) | which agents this replica watches | Run, Cancel, OnFailure | an agent that exits non-zero has its attempt failed by its watcher, unless the watcher loses sight of it first |
| **agent orchestrator** (`agent/internal/discovery`) | attempt number, checkpoint gap, resume state | phases, ownership gates, save, terminal write, clean-up | the run record and the checkpoint collections |
| **exploration checkpoints** (`discovery_checkpoint_repo.go`) | one row per step and one summary per run | SaveStep, LoadPrefix, SaveSummary, DeleteByRun | written by one attempt, read by the next |
| **analysis and recommendation checkpoints** | one row per area | save, load, delete | as above |
| **startup sweep** (`CleanupStaleRuns`) | - | fails every active run when an API replica starts | does not reap the agents of those runs |
| **completion-hook dispatcher** (`run_completion_dispatcher.go`) | - | list, fire, stamp | the run record |
| **policy reservations** (`libs/go-common/policy`) | reservation stamps on the run | reserve, confirm, release | handlers, a confirmer over terminal runs |
| **schema indexing** (`api/internal/schemaindex`) | per-project index status, cancel functions of this replica | claim, run, cancel | the project document |
| **validation jobs** (`api/internal/validationjobs`) | a job queue with heartbeats | claim, heartbeat, cancel, requeue | agents started for one document |
| **ask server** (`agent/internal/askserve`) | a pool of per-project runtimes, a cache of connections in each, a turn store, concurrency slots | acquire, release, evict, turn, shutdown sweep | goroutines of one process |
| **ledger and reflection**, **LLM client**, **providers**, **embedding**, **CRUD** | see `PROJECT.json` | | |

### What is hard here

*A run outlives its processes.* It is resumed under a new attempt number, and the
agent of the old attempt may well be alive: the startup sweep marks runs failed
because their *watcher* is gone, not because the agent is. So two agents, two
watchers and any handler write one document in any order. What keeps them apart
is a filter on the attempt number in each update, in two services, in two
versions, with a convention for documents that have no number.

*An ending is several writes.* Save the result, write the terminal status, tell
"superseded" from "unknown" if that write matched nothing, retire older results,
delete the checkpoints: a crash, a cancel or a resume can fall between any two.

*A pause is asked of one process by another through a document*, with a deadline,
honoured only where there is something to resume from, and a failed checkpoint
write changes whether there is.

*Objects shared by goroutines in the ask server* are closed by an evictor while a
turn is about to use them, unless the reference count is taken under the lock
that found the object.

The `hazards` of `PROJECT.json` list each of these at its line.

### What makes each part correct

- *Run lifecycle*: a superseded attempt changes nothing; no attempt number runs
  twice; a cancelled or discarded run stays so; a run's discovery id names a
  stored result of its current attempt; a paused run can be resumed as long as its
  checkpoints are kept; a running run ends without outside help unless an outcome
  was lost on the way to the document; hooks cover every attempt's outcome.
- *Checkpoints*: the replayed prefix is one an attempt actually went through;
  the prefix outlives every failure; a summary belongs to the prefix it sums up.
- *Dispatch*: of competing starts and resumes of a project at most one goes on;
  each reservation is confirmed or released once.
- *Ask server*: what a turn holds is open; every object opened is closed; the
  caches return to their capacity; a turn ends once, with one message.
- *Job queues*: a job is run by one worker at a time unless its heartbeat went
  cold, ends once, and a cancel that was acknowledged is not undone.

## 2. The plan

In order of importance. Done:

1. `RunRecord`, `RunLifecycle`, with `RunPromise` as the abstract specification
   of a run; TLC runs over the attempts and over the operator requests; proofs of
   the type invariant, of its safety properties and of the refinement.
2. The ask server's two caches: `ConnCache` and `AskPool`, the first against an
   abstract specification, `SharedHandles` (what is held is open).
3. `AskTurns`: slots, turn status, session message, the sweeps at boot and
   shutdown.
4. `ExplorationCheckpoints`: rows per step with their attempt, `SaveStep`'s
   fence, `LoadPrefix`'s rules about gaps, stale tails and summaries, with any
   number of attempts writing at once; with proofs.
5. `AnalysisCheckpoints`: the rows, drafts and recommendations of the two phases
   after exploration, and what a resume restores of them; with proofs.
6. `RunDispatch`: two runs of a project, the competing-run checks of start and
   resume, reservations and the confirmer; with proofs.
7. `ValidationJobs` and `SchemaIndex`: claims, heartbeats, sweeps, cancels, the
   re-index lock; with proofs.

Left:

- Compositions: `AskPool` with `ConnCache`, in which the pool closes the runtimes
  whose connections are in the caches; `RunLifecycle` with the prefix of
  `ExplorationCheckpoints` in place of its `checkpoints` bit, and with
  `RunDispatch` in place of the one run.
- Pure functions: the retry loop and output budget of the LLM client, the
  stopping rule of the exploration engine, against reference definitions.

## 3. The modules

### RunRecord

The document of one run and every write made to its lifecycle fields, as pure
operators: `XMatches(doc, ...)` is the filter of the MongoDB update and
`X(doc, ...)` the document it leaves. Three fields are abstracted to what the
code asks of them: `phase` to whether it accepts a pause, `pause_deadline_at` to
whether it has passed, `last_checkpoint_step` to whether it is positive. The
attempt keeps its three readings (absent or 0, 1, more): `AttemptFence` is the
API's, `AttemptFilter` the agent's.

### RunLifecycle

All actors of one run. Each action is a round trip to MongoDB with the local code up to
the next one, so TLC explores every order in which they can reach the database:

| actor | its place is | actions |
|---|---|---|
| the agent of attempt `a` | `agent[a]` | `LoadResumeState` .. `DiscardCheckpoints`, `AgentDies` |
| its watcher | `a \in watched` | `WatcherFires`, `WatcherGivesUp` |
| the request that started the run | `starter` | `StarterStep` |
| operator requests, dispatcher ticks | `req[q]`, with what they read in `seen[q]` | `Resume*`, `Cancel*`, `Pause*`, `Discard*`, `Poll*`; `HandlerFails` |
| API replicas | `restarts` | `ApiStarts` |
| clocks | `run.lapsed`, `checkpoints` | `PauseLapses`, `Expires` |

An agent ends `exited` (status 0), `failed` (non-zero, its outcome known or left
in place) or `died` (killed, or its last write in doubt); a watcher acts on the
last two. `faults` counts round trips that answered with an error, of agents and
of the API alike: where it cannot be known whether a write landed, both are
behaviours. Every write of an outcome by the API (a watcher's, a stand-down's, a
denied start's, a cancel's, a sweep's) is a `Records`, because the code logs its error
and goes on. A cancel then goes on to delete the checkpoints (`PurgesAnyway`); a flip
or a discard whose answer was lost ends its request; any other round trip that fails
ends it without effect (`AnswersError`).

`mishaps` is a history variable with what the code has no repair for: the rows
*expired*; a cancel *purged* them without knowing that its write had landed; an
outcome went *unrecorded*. Each property says which of these it exempts.

Round trips taken as one step, and why no other step between them matters:
`loadResumeState`'s two reads (both only decide whether to give up); a `SetPhase`
directly followed by the insert of the result (the phase write's only effect the
model keeps is idempotent, and it is fenced as all others); the probe of the
exploration summary and the gate before analysis (two reads with no write
between them); a replica's crash with the restart that follows
(between the two nothing of that replica acts; agents still do, before or after).
A kill is not part of a cancel: `AgentDies` may happen at any later point, or
never.

`Init` has a fresh run, and, where the configuration asks for it, a `legacy` one:
a document without attempt number whose agent was started by an earlier version.

### RunPromise

What an operator may rely on, in four variables and seven actions: `cancelled`
and `discarded` are final, `completed` is left only by a cancel, attempts count
up by one from a failed or paused run, and the result pointed at belongs to the
current attempt and silences it. It is deliberately weak in one place: `failed`
may return to `running` in the same attempt, because the sweep may be wrong and the
agent's filter (`status # cancelled`) lets it prove so.
`ImplementsRunPromise` is the refinement `attempt <- CurrentAttempt(run)`.

### MCRunLifecycle

The instance TLC runs; resumers are interchangeable (`ResumerSymmetry`).
`MaxRequests` bounds how many of the configured requests arrive, so that one run
covers every pair of five kinds of request.

### SharedHandles

What both caches of the ask server owe their users, in four actions and one for
shutdown: a handle is opened once, taken only while it is open, and closed once,
when nobody has it; after the owner has been shut down under its users, handles
may be closed under them, but still only once.

### ConnCache, MCConnCache

The warm connections of one project runtime (`runtime.go`). Every section under
`r.mu` is one action. `warm` is the map, as a set of entries no two of which are
of one datasource; an entry is the n-th `connEntry` made for its datasource, so
a later entry of a datasource is told from an earlier one. A hop is *waiting*
(in `acquireConn`'s select) or *holding*. `closing` are the `closeConn` calls
that have not run; one for an entry still being built waits for the build, as
the code's goroutine does.

`Close` comes in two uses: `"unused"`, by the pool on a runtime no turn has,
after which nobody acquires; and `"in_use"`, under running turns, as at shutdown
(or by the race of `PoolEvicts`, section 6). Which idle entry is the least
recently used is left open: eviction takes any. `abandoned` is a history
variable: the entries a hop gave up on while they were being built.

`ImplementsSharedHandles` maps an entry to `open` when its build is done, to
`closed` when its connection is closed.

### AskPool, MCAskPool

The pool of project runtimes (`pool.go`), in the same style, with one difference
that is the code's: `acquire` finds or creates the entry in one section under
`p.mu` and reserves it in another, so there is a place *found* between them; and
`release` finds the entry by project, not the entry it reserved. The age of an
entry is left open: the janitor may take any idle, built one. The specification has
names of its own (`PoolSpec`, `PoolInit`, `PoolTypeOK`), so that the proofs of pool
and server can be one module.

### AskTurns, MCAskTurns

The server around them (`server.go`, `turnstore.go`, the `finalize` of
`loop.go`): the two semaphores, taken one after the other and returned in the
reverse order; the acknowledgement; `EnsureTurn`; the turn's work, left open up
to its outcome; the two writes of `Finalize`; SIGTERM, with its drain, cancel,
grace and sweep; crashes; boot, which sweeps before it listens. A request is
identified by its goroutine and may be for a turn somebody else is answering
already, or that has ended. All terminal statuses are one, `ended`; what is
remembered is whether a request or a sweep ended the turn. A database round trip
that fails may or may not have been applied.

### ExplorationCheckpoints, MCExplorationCheckpoints

What `RunLifecycle` keeps one bit of: the rows (`row[k]`, the attempt that wrote
step `k`) and the summary (`discovery_checkpoint_repo.go`), written by agents any
number of which are alive. An attempt executes a step number at most once, so a
row is its attempt and a conversation (`conv[a]`) a sequence of attempts.
`checkpointStep`'s ownership gate and its write are two actions (`Explores` to
*gated*, `Saves`), and a write by an attempt that lost the run in between is
counted in the history variable `late`: the code's comment claims a bound on the
harm of such a row, and the properties say which. `PrefixLen` and
`SummaryTrusted` are `LoadPrefix`; `ResumeAdmitted` is the API's opinion of the
same rows, which decides whether a resume is offered at all. `Expires` is the TTL
index: it may take any row, at any time.

### AnalysisCheckpoints, MCAnalysisCheckpoints

The loop over the analysis areas and the recommendations. `area`, `draft` and
`recs` are the three collections; `job[a]` is what the agent of attempt `a` has
in memory (what it loaded, the step it is on, its budget, its result). One action
per round trip: load rows, load drafts, restore or analyse an area, save the
draft, validate, mark, merge, save the row, discard the draft, recommend, store.
A finding's content is the attempt that analysed it; its id is *not* unique,
because the model supplies it and may supply the same one again -- the reason
`draftOnDisk` exists. Areas come in any order, as the code's `range` over a map
does.

### RunDispatch, MCRunDispatch

The runs of a project, each cut down to what others depend on: its status,
attempt, reservation handle, stamps and times. `start`, `resume` and `cancel` are
the three handlers, an action per round trip (to MongoDB or to the policy
checker); `callback` is the failure callback of a start; `listed` and `clearing`
are a confirmer's tick. The checker is external: `slot` is *none*, *open* or
*closed*, and with `Metered` it refuses a reservation while another is open, as
its interface says of the per-project limit. `closing` remembers the first
outcome it was given, since confirming is idempotent. Time is symbolic: attempt
`a` begins at `2a - 1` and stops at `2a`.

### SchemaIndex, MCSchemaIndex

The index status of one project. Clicks of the dashboard are requests of four
kinds in several round trips; `worker` is the goroutine that claims a pending
project, waits for the agent it started and settles. `agent[w]` is a process and the
`catalog` it works from. One of them, `Attended`, is the one the worker waits for; the
others, `Strays`, have outlived their run: the Kubernetes runner returns from a
cancelled run and leaves the Job where it is, the docker runner returns while the
container is being stopped, both may lose sight of an agent, and neither's agents die
with the API process (`IsLeftBehind`, in `AgentExits` and `Crashes`). Without strays
the module is the subprocess runner. A stray takes its steps as any agent does.
Nothing fences what it writes; `InTheWay` says when that is not put right by what
follows (another agent works, the project is ready, or a re-index was begun since
the stray read its catalog). Catalogs are numbered by the re-index they follow, so
"stale" is a comparison of numbers. `age` has the two thresholds the code
compares `updated_at` with: the 2 minutes of a re-index lock and the 2 hours of
the boot sweep. `overtaken` is a history variable: a Retry or a Clear went on
after the status it read had moved, or a stray wrote in the way -- section 6.

### ValidationJobs, MCValidationJobs

The jobs of one document and the agents that run them. A claim is a job and an
attempt; each starts one agent, which adopts the attempt it *finds in the row*
(`Loads`), not the one it was started for. `cold` says that a running row's
heartbeat has expired, `Stalls` that this happened under a living agent. A sweep
finds rows and handles each later, under the filter of what it found. The agent's recheck, its
verdict and its terminal write are three actions, since the verdict has no filter
(`UpdateInsightValidation`); `late` remembers that an agent lost its row between
the first and the second.

## 4. The runs

Twelve runs must pass. Each has at least the actors it takes to reach its hazard;
together they fire every action of every module. Deadlock is not checked where
the system does stop: a run, its checkpoints and its dispatch end, the entries
of a cache, the clicks on a project and the jobs of a document are bounded. Only
`AskTurns`, whose server goes on for ever, is checked for deadlock.

| run | instance | distinct states | what it asks |
|---|---|---|---|
| `RunResume` | 2 resumes, 3 attempts, 2 API starts, agents that survive every sweep | 1,458,000 | do attempts disturb one another? |
| `RunRequests` | any 2 of a resume, a cancel, a pause, a discard and a dispatcher tick; 2 attempts, 1 step, 1 API start, 1 failed round trip, with and without attempt number | 1,837,000 | do requests disturb one another, or the agent? does a discarded run keep a result? is there something to resume from when a resume is due? |
| `RunEnds` | any 2 of a resume, a cancel and a pause; 2 steps, 1 failed round trip, no API start; with fairness | 362,000 | does every running run end? |
| `ConnCache` | 2 hops, 2 datasources, 2 builds each, capacity 1 | 526,000 | shared connections: open while held, none lost, back to capacity |
| `PoolOwns` | 2 turns, 2 projects, 2 builds each, capacity 1 | 1,170,000 | no runtime lost, none pinned |
| `AskTurns` | 3 requests, 2 projects, 2 slots each, 1 failed round trip, any number of crashes and shutdowns; with fairness | 308,000 | one outcome, one message, no slot lost, every accepted turn ends |
| `Checkpoints` | 3 attempts, 3 steps, 2 failed writes or expired rows | 243,000 | is what a resume replays something that happened? |
| `AreaResume` | 2 areas, 3 attempts, cap 1, 1 failure | 1,170,000 | does a resume put together a result one attempt could have had? |
| `Dispatch` | 2 runs, 2 attempts, 2 requests, 1 fault, metered | 1,670,000 | do two runs work at once, and is every reservation in somebody's hand? |
| `DispatchEnds` | 1 run, 3 attempts, 3 requests, 1 sweep, 1 fault; with fairness | 475,000 | is a reservation closed, once, with its own attempt's outcome and time? |
| `SchemaIndex` | 3 clicks, 2 at a time, 1 agent that outlives its run, 1 crash, 1 fault; with fairness | 668,000 | is a ready index the one last asked for, does indexing settle? |
| `ValidationJobs` | 2 jobs, 2 claims each, 1 stalled heartbeat or restart; with fairness | 762,000 | does a job end once, with its own verdict, and does it end? |

Nine more configurations show a disagreement (section 6), and are expected to be
violated: `PauseOffer`, `CancelResult`, `CancelPurge`, `HooksCompletion`,
`PoolEvicts`, `PoolError`, `ConnPinned`, `SchemaLock`, `SchemaStray`. Run them by hand:
`tlc -config PoolEvicts.cfg MCAskPool`.

Two more pass and are variants of the runs: `RunDiscard`
(`tlc -config RunDiscard.cfg MCRunLifecycle`, 1,838,000 states) checks
`DiscardedRunKeepsNoResult` with two API starts, where one attempt can be failed
twice; `RunPrefix` (2,824,000 states) checks what `RunRequests` says of the
checkpoints with two steps. `RunEnds` with all three requests
and one step passes, too (508,000 states).

**Bounds and why they are enough.** *MaxAttempt*: what one attempt does to another
needs two; a third shows a superseded attempt between an older and a newer one.
*MaxSteps*: the exploration loop is the same every time; with one step a gap in
the checkpoints is a missing prefix, with two it can come after a step that was saved (`RunPrefix`), and a stale
agent's row after the newer attempt's (`RunEnds`). *MaxRestarts*: one sweep makes a survivor; two make two, or fail one attempt twice (`RunDiscard`). *MaxRequests*:
handlers meet only through the run document, where each leaves one write; pairs
are checked exhaustively, resumes in triples with the agents they start. *MaxFaults*:
one failed round trip; the code treats the second like the first. *MaxBuilds*:
an entry and its successor, which is what a release by project or datasource can
confuse. *MaxWarm*, *MaxProjects*: one, so every second acquisition evicts.
Two hops or turns suffice to be on one entry together, or to have one evict the
other's. *AskTurns*: two slots of a project admit two requests for one turn, and
the third request is refused. *Checkpoints*: three steps have a
first, a middle and a last row, three attempts a middle one that may be older or
newer than its neighbours. *AreaResume*: two areas and a cap of one, so that the
order of the areas decides which is validated; a third attempt restores what the
second had restored. Four attempts with one area, and in the same way four attempts of
*Checkpoints* with two steps, were checked by hand (413,000 and 793,000 states); so was one area with two
failures, the fewest that show why `draftOnDisk` is there: a failed read of the
drafts and a failed write of the new one. *Dispatch*: competition is between pairs of runs, of which
either may be fresh or resumed; a third attempt (`DispatchEnds`) resumes a run
whose reservation belongs to two attempts before. *SchemaIndex*: two requests in
flight meet each other and the worker; three clicks are a re-index that is
cancelled and asked for again, beside the agent of the first. Two such agents were
checked by hand for the inductive invariant of the proof (1,789,000 states).
*ValidationJobs*: a second job is what an agent
of the first can write over; a second claim is what a stalled agent can.

**Fairness.** `RunLifecycle!FairSpec` gives weak fairness to each agent's step
(an agent is a process that runs until it exits; its LLM and database calls have
deadlines), each watcher (a goroutine blocked on the agent's exit), the request
that started the run and each request already received (an HTTP handler under
deadlines). It assumes nothing of operators, API starts, sweeps or killed agents, and
it does not say that a step succeeds: what a fair watcher or handler writes may be
lost (`Records`), a watcher may give up before it fires, a request may end in an error.
`ActiveRunEnds` therefore shows that no failure of the agent's own round trips, and no
order of its end with a pause, a resume or a cancel, leaves a run active; and that
what can is a loss on the API's side, named `unrecorded` where it happens. Such a run
waits for the next API start's sweep or for a cancel, as the comment on `watchJob`
says it should.
`AskTurns!FairSpec` gives weak fairness to every step of a request (a turn's work
ends with its wall clock) and to `Boots` (the deployment restarts its one
replica), none to arrivals, signals or crashes.
`RunDispatch!FairSpec` is fair to the confirmer alone, a ticker of every replica:
`EndedRunFreesItsSlot` holds although every request may die half way.
`SchemaIndex!FairSpec` is fair to the worker's loop, to the agent it waits for (every
step of it has a deadline; agents left behind get no fairness), to `Boots` and to requests in flight; `IndexingSettles`
exempts behaviours with a crash or a fault, where a status may wait for the next
boot's sweep. `ValidationJobs!FairSpec` is fair to the worker's loop, the
return of its goroutines, the expiry of a heartbeat nobody renews, and to the
agents: an agent that hangs for ever while its heartbeat goroutine beats on is
excluded, and would keep its row (`JobsEnd`). Signals are not fair anywhere: a
cancelled agent may die at any later point, or never.

**Symmetry** is used where it is sound: resumers in `RunResume`, hops and
datasources in `ConnCache`, callers and projects in `PoolOwns`, areas in
`AreaResume`, runs in `Dispatch`; never in a run with a liveness property.

Each property of a passing run has a mutant in `PROJECT.json`: a definition of
the model with a plausible bug in it, under which the same run finds the property
violated.

## 5. The proofs

TLAPS checks these for all values of the constants, under the named assumptions
of the modules (`MaxAttemptAssumption`, `BoundsAssumption`, `ConnCacheAssumption`,
`AskPoolAssumption`, `AskTurnsAssumption`, `NoTurnIsNone`, `ExplorationAssumption`,
`AnalysisAssumption`, `DispatchAssumption`, `SchemaIndexAssumption`,
`ValidationJobsAssumption`: sets of goroutines and of areas are finite, bounds are
natural numbers).

| theorem | module | argument |
|---|---|---|
| `TypeCorrect` | `RunLifecycle_proofs` | `TypeOK` is inductive once it says that a resumer that flipped the run read a real attempt and that steps stay in their bound |
| `SupersededMute` | `RunLifecycle_proofs` | every write of an agent or a watcher is fenced by `AttemptFilter` or `AttemptFence`, and both match only a run whose current attempt is the writer's; deletes of results spare newer attempts |
| `StartsOnce` | `RunLifecycle_proofs` | inductive invariant `AttemptsAreHandedOnce`: an attempt number above the run's has been given to nobody, and a number handed to a request that has not spawned yet belongs to no agent and to no other request. It is needed because the flip in the database and the spawn are two steps |
| `RunInvariant`, `StampedStored`, `PausedResumable`, `OutliveFailure` | `RunLifecycle_proofs` | inductive invariant `RunInv` |
| `PromiseKept` | `RunLifecycle_proofs` | every kind of write to the run, from a state of `RunInv`, is a step of `RunPromise` or leaves its four variables alone |
| `HooksCovered` | `RunLifecycle_proofs` | inductive invariant `HooksInv` |
| `ResultsInvariant`, `OwnersResultRemains`, `DiscardKeepsNone` | `RunLifecycle_proofs` | inductive invariant `ResultsInv` |
| `FencesAgree` | `RunLifecycle_proofs` | the API's fence and the agent's filter accept the same documents, absent and zero attempts included |
| `HeldStaysOpen`, `CountsExact`, `OpenOwned` | `ConnCache_proofs` | inductive invariant `CacheInv`; `OpenIsOwned` with it |
| `CacheIsBounded` | `ConnCache_proofs` | inductive invariant `BoundInv`, under `CacheInv` |
| `CacheImplementsHandles` | `ConnCache_proofs` | every step of the cache is a step of `SharedHandles` or a stutter |
| `NoRuntimeLost`, `NothingPinned` | `AskTurns_proofs` | inductive invariant `PoolInv` |
| `SlotsExact`, `OneMessage`, `OutcomeIsFinal`, `LiveTurnsSpared` | `AskTurns_proofs` | slots by counting their holders; outcomes with `Unended` and `Claimants` |
| `OneExploration`, `SummaryExact` | `ExplorationCheckpoints_proofs` | inductive invariant `StoreInv` |
| `OneLateWrite`, `OwnerReplays` | `ExplorationCheckpoints_proofs` | inductive invariant `QuietInv`, under `StoreInv` |
| `AnalysisInvariant`, `OwnStepsAreCited`, `RecsFitTheResult` | `AnalysisCheckpoints_proofs` | inductive invariant `AnalysisInv` |
| `VerdictsAreOwn`, `StoredAreasAreRestorable`, `CapHolds` | `AnalysisCheckpoints_proofs` | inductive invariants `VerdictInv`, `RestoreInv` and `CapInv`, each under `AnalysisInv` |
| `CleanupAlone`, `ReadyRebuilt` | `SchemaIndex_proofs` | inductive invariant `SchemaInv` |
| `EndedIsFinal`, `VerdictStands` | `ValidationJobs_proofs` | inductive invariant `JobsInv` |
| `DispatchInvariant`, `ResumesAreExclusive`, `FreshRunsHoldTheirSlots`, `OpenKeepsItsHandle`, `SuccessIsOwn`, `EndTimeIsOwn` | `RunDispatch_proofs` | inductive invariant `DispatchInv` |

`RunInv` says when an attempt may still write. `EndedOnce`: a run that is paused,
completed or points at a result is one whose current attempt is past its last
write; without it a second ending of the same attempt could move a paused run on.
`ResultsKept`: an agent that has stored its result and may still claim the run
finds the result where it put it, and agents that retire results spare the one
the run points at. `Purgers`: whoever is about to delete the checkpoints has seen
a run nobody will resume, but for a cancel that is unsure of its own write, which is
kept apart for that reason. `PrefixKept`: an attempt without a gap that has been
through a step, or resumed one, has a prefix, unless it was taken (`PrefixTaken`: it
expired, or such a cancel deleted it). The lemmas are cut by *kind of
write* (`Quiet`, `FailsActive`, `Cancels`, `Discards`, `Resumes`, `Works`,
`Completes`, `FailsOwn`, `Pauses`) rather than by action:
each action is shown once to be of one of these kinds, and each
property is then shown once for every kind. `PromiseKept` reuses the same cut.

`HooksInv` has the two readings of a run without an attempt number: a tick that
read 0 or 1 stamps a run at 0 or 1, so it must also be known that no run ever goes
from one to the other.

`ResultsInv` says who answers for every stored result. `ClaimStands`: an agent whose
terminal write matched is the one the run points at, until it is done.
`OlderAreRetired`: once an agent has retired the older results, an older result
belongs to an agent that has still to find out it was superseded, or was killed.
`NothingLeft`: once a discard has found the run without a result, and as long as its
write may still match, a stored result belongs to such an agent, or to the run's own
attempt after a failure that went unrecorded. The last case was not in the first form
of the property; the proof would not close without it, and two API starts reach it
(section 6). Both hold while no round trip fails, since a delete that fails is not
retried.

`BoundInv`, of the connection cache: over its capacity, the map has nothing eviction
could take but what was given up on (`Trimmed`). Eviction establishes it; a build
that ends could break it, were it not for the hop that waits for it
(`BuildsAreAwaited`) and is counted (`CountsAreReservations`).

`StoreInv`, of the exploration checkpoints: a row that names attempt `b` is that step
of `b`'s conversation (`RowsAreSteps`); an attempt's conversation starts with every
chain of older rows there is, since it was resumed over them and they do not grow
afterwards (`StartsWithOlder`, while no superseded attempt has written); and a
summary is of a conversation that has ended (`SummaryIsFinal`). That the prefix is
one conversation follows by taking the attempt of its last row: whatever is before
it was replayed by that attempt.

`QuietInv`, of the same store while no write has failed and at most one has slipped
through: the rows are one chain and of one conversation (`NoGaps`, `StoreIsOne`); the
owner's conversation is in them but for the step it has yet to save, and nothing
follows it but the late row (`OwnerFits`); and an agent about to save finds, until
one has slipped through, all its earlier steps in the rows and behind them nothing or
a newer row (`GatedFits`). So a late row that passes `SaveStep`'s fence lands right
behind what the owner has, where the owner's next step replaces it. A second late
row could break this; `late <= 1` is exact.

`AnalysisInv` has, for each agent, what its memory says of itself (`Local`: all it has
of an area is over the exploration it works on, it has one area at a time, a restored
area is a draft or finished, recommendations are of the findings they were made
from), and, for the store, that whatever is in it is by an attempt that has set out
and over an exploration of one (`Order`). `VerdictInv` adds that the store and every
memory have each finding with its own verdict, which needs to know that the owner only
ever marks drafts of the findings it has (`MarksItsOwn`). `RestoreInv` adds that an
owner about to discard a draft has landed the row that replaces it. `CapInv` compares
sets of areas, never counters: what the store has judged over the current exploration
is part of what the owner has charged or will find (`StoreWithinCap`), which is within
the cap for whoever loads (`LoadsWithinCap`) and for whoever works
(`ChargesWithinCap`, whose counter is an upper bound of the set); to keep it, the
owner must know of every area ahead of it what the store knows (`OwnerFollows`).

`SchemaInv` has an unconditional part (the attended agent needs its worker, a stray
needs nobody, and what a request has read is what its handler lets through) and a part
that holds until a Retry or a Clear overtakes somebody or a stray writes in the way
(`Held`): an indexing run has the row, and so has
a cleanup, one at a time (`RunHasRow`, `CleanupHasRow`); no catalog older than the
last re-index is cached once its cleanup is over (`CacheIsFresh`); and the agent works
from that catalog (`AgentIsFresh`). Of strays `Held` says nothing but that their
catalogs exist: a write of one is in the way, or leaves what the next run makes anew.

`JobsInv`: only the newest job of the document may be unfinished (`OneActive`); a row
that waits has a claim left; an agent has adopted an attempt its row has reached; and
whoever is about to write the verdict had the row when it looked (`RecheckedHeld`), so
if it has the row no longer, its write is the `late` one.

`DispatchInv`, of the runs of a project, is an invariant of each run (every step but
the confirmer's listing and a sweep is of one run, and those two do to each run what
a step of its own might) with one conjunct about two. Attempts begin in order
(`OrderInv`). Whoever acts on a reservation has had its id, and whoever clears the
id has seen the reservation closed (`HandleInv`). Whoever closes one has seen the
first attempt past its last step, or has cancelled the run (`PastInv`, `FreshInv`),
and has read the end of that attempt if it was a success (`SuccessInv`). A run has
not ended while its agent works or a resume is about to start it (`ExclInv`), and
since a resume goes past its recheck only if no other run is active, of two that did
the later would have seen the first (`OnePassed`). `EndInv` is about the times: a
later attempt goes without its stamp only between the flip and the stamp, or after
the one failure, and then no later agent works whose pause could be taken for the
end of the first.

Only model-checked: liveness (`ActiveRunEnds`, `AcceptedTurnEnds`,
`EndedRunFreesItsSlot`, `IndexingSettles`, `JobsEnd`), which with its fairness is
beyond the prover. Every safety property of the runs is proved. What the runs that
show a disagreement (section 6) refute is, of course, not.

## 6. Disagreements between the code and what is said of it

Shown by a configuration (`tlc -config X.cfg` on the module in parentheses finds
the property violated):

- `PoolEvicts` (`MCAskPool`; `pool.go:65`): a turn is evicted from between finding
  its runtime and reserving it, and runs on a closed runtime.
- `PoolError` (`MCAskPool`; `pool.go:82`): the reference count of a failed entry goes
  below zero, and the failed build stays cached.
- `HooksCompletion` (`MCRunLifecycle`; `run_repo.go:513`): the dispatcher's stamp is
  fenced by attempt, not by outcome: a `completed` written by the agent after a
  sweep wrote `failed` is stamped unseen.
- `CancelResult` (`MCRunLifecycle`): a cancel after the agent's terminal write leaves
  the result of a cancelled run on display.
- `CancelPurge` (`MCRunLifecycle`; `handler/discoveries.go:1497`): a cancel whose write
  fails only logs that and deletes the checkpoints, of a run that stays running and may
  then fail. "Cancellation is a deliberate hard kill and stays terminal, so the
  checkpoints have no one left to serve", says the comment (1501-1506).
- `PauseOffer` (`MCRunLifecycle`): a refused resume strips the marker a pause has
  just written.
- `ConnPinned` (`MCConnCache`): builds that hops gave up on keep the cache over its
  capacity.
- `SchemaLock` (`MCSchemaIndex`; `handler/schema_index.go:438`): Retry reads the status
  and then writes `pending` unconditionally. A re-index that locked the project in
  between is still dropping its collection when the worker starts an agent, although
  the comment on `BeginReindex` (`database.go`) says a run cannot start then.
- `SchemaStray` (`MCSchemaIndex`; `runner/kubernetes.go:424`): the status of a cancelled
  run becomes `cancelled` while its agent works on, where the comment on `Cancel`
  (`handler/schema_index.go:556-558`) has it change when the subprocess exits.
  `RunIndexSchema` returns on `ctx.Done()` and leaves the Job to its deadline of half an
  hour; the comment on `RunValidateDoc` (`kubernetes.go:455-458`) says why that is wrong,
  and that it is history. Under docker the stop goes on in the background
  (`docker.go:457-477`). A re-index meanwhile cleans up beside that agent, which may
  then write its catalog and points over the new ones.

Met while modelling, without a configuration of their own:

- A run may stay active with nobody on it: a watcher that loses its Job leaves it so
  deliberately (`kubernetes.go:593-606`); `standDownResume`'s comment, that a run whose
  stand-down was not written "is no worse off than before the flip"
  (`discoveries.go:707-708`), is not so, as it was failed or paused and is now running.
  `ActiveRunEnds` exempts these (`unrecorded`).

- A discarded run may keep the result of its own last attempt. A sweep fails a run
  whose agent lives; a discard finds no result; the agent saves and another sweep
  fails the run again before the agent's terminal write, whose failure path finds the
  run its own and keeps the result; the discard's write lands. `DiscardRun`'s comment
  (`discoveries.go:1361-1391`) admits a window between its check and its write;
  `DiscardedRunKeepsNoResult` says how far it goes.

- `OneRunWorks` of `RunDispatch` is what `docs/reference/api.md` says of a start
  (refused while a discovery of the project runs). It does not hold: without a
  checker nothing keeps two starts apart that do not set `SkipIfRunning`; with one,
  a start that creates its run after a resume's recheck is admitted, as the resume
  opens no reservation of its own. `ResumesExclude` and `FreshRunHoldsItsSlot` are
  what does hold. Two concurrent starts that do set it may each cancel the other.
- A cancel confirms the reservation even if its own write to the run failed
  (`discoveries.go:1497-1543`), so a run that goes on working has a closed
  reservation; `FreshRunHoldsItsSlot` exempts it.
- A cancel that falls between a resume's flip and its stamp, or a sweep that fails a
  run whose start is still storing its handle, makes the confirmer report the time
  of the resume or of the sweep. With a failed stamp it may even be the time of the
  second resume: the first stands down because another run is active, the second
  flips the run to attempt 3, and a cancel reads its time before it can stamp. The
  first form of `EndTimeIsTheOwners` did not have this; the invariant of its proof
  was false on an instance of two runs and three attempts.
- `LoadPrefix` says an empty prefix keeps its summary, deliberately
  (`discovery_checkpoint_repo.go:502-505`); the lines above (470-479) drop it when
  there are no steps, and say why. The model is the code's.
- A failed read of the area rows is said to cost money, never correctness
  (`analysis_resume.go:212`, `analysis_draft_resume.go:177`); with a validation cap it also lets an attempt ship more
  validated findings than the cap, hence `faults = 0` in `ValidationsWithinCap`.
- `SaveInsightVerdict` counts on every attempt marking the same draft under the same
  keys (`discovery_analysis_draft_repo.go:320-324`) and fences the mark by attempt
  alone (345-352). An attempt that restored an older draft therefore marks, with its
  own verdicts, the draft a superseded attempt lands meanwhile, wherever the analyses
  gave a finding the same id; the next resume restores a finding with the verdict of
  another. It takes four attempts, and a superseded agent that still writes: hence
  `~late` in `VerdictJudgedThisFinding`.
- `validate_doc.go:304-310` says a lost attempt MUST NOT overwrite the verdict; the
  recheck and the write are two round trips. `CompletedVerdictStands` exempts a write
  that fell in between (`late`).
- A validation agent adopts the attempt in the row, so one that starts late works as
  the next attempt, beside that attempt's own agent; and the first one's return
  removes the second's cancel handle (`validationjobs/worker.go`): a cancel then
  finds nobody to signal.
- `runner/subprocess.go:280` says the agent's signal handler records `cancelled` on
  the job's row; the agent has none, and the cancel's own write does it.
- Comments of `schemaindex/worker.go` and `database.go` take `updated_at` for the
  progress of an indexing run; the progress goes to another document, so a run of
  more than two hours looks abandoned to `ResetStaleIndexingProjects`.
- A pause request survives the completion of its run: the agent's `Complete`
  (`services/agent/internal/database/run_repo.go:190`) does not clear it, though
  `docs/reference/data-models.md:240` says every terminal write does.
- A failed run may carry a `discovery_id` (`run_repo.go:306`), which
  `docs/concepts/plugin-hooks.md:172` denies.
- `askserve/runtime.go:322` says that `Close` meets a build in flight only at
  shutdown; a build outlives the hop that gave up on it, and so the turn and its
  pool reference. The code handles it (`OpenIsOwned`).
- A turn cancelled by SIGTERM is recorded as `timeout`
  (`askserve/loop.go:500`), where `libs/go-common/models/ask_turn.go` reserves
  `timeout` for the wall-clock budget and `failed` for a restart.
- The loop "always finalizes the turn ... so the reader's poll terminates"
  (`loop.go:481`), but a `Finalize` that fails is logged and not retried: the turn
  stays `running` until the next boot. `AcceptedTurnEnds` has `faults > 0` for that.
- Where `EnsureTurn` failed on a turn nobody had created, `Finalize` matches no
  document, takes that for "already terminal" (`turnstore.go:181`), and the answer
  is dropped without a log line.

## 7. What is not modelled

`PROJECT.json` lists every component with its status. Most of the repository's
lines are prompts, parsers and adapters to LLM, warehouse and vector services, and
request handlers that read or write one document: code with no state of its own to
interleave, which the models leave out and which is why they cover a small share
of the lines. In the modelled components:

- *Run lifecycle*: counters, telemetry and the lifecycle log; errors of phase
  writes, which are best effort; the read-only endpoints.
- *Runners*: the maps of running processes, Job names and reconnects. The models
  have what depends on them: a watcher that reports at most once, or gives up; a cancel
  that kills later or never; a blocking call that returns before its agent is gone.
- *Caches*: a nil builder; clocks and LRU order, left open rather than modelled.
- *AskTurns*: the event log; the expiry of ended turns after their TTL, days
  later, after which a repeated request would run as a new turn; a second replica,
  which `turnstore.go:232-236` declares unsupported.
- *ExplorationCheckpoints*: the content of a step beyond who executed it; the
  discard after an ending, which is `RunLifecycle`'s.
- *AnalysisCheckpoints*: areas of several findings, for each of which the code does
  what it does for one; the verdict markers of single recommendations, which are kept
  and restored like those of the findings; a row that expires between two reads of one
  attempt.
- *RunDispatch*: what the external checker charges; runs of other projects.
- *SchemaIndex*: the progress document, blurbs, and the order in which the worker
  takes several projects; several replicas.
- *ValidationJobs*: several documents, which share nothing but the worker's slots;
  the reasoning that reaches a verdict.
- *Ledger and reflection*: the reflection-pending marker; what is written is an
  LLM's. *LLM client*: retries and the output budget, loops inside one call.
- Embedding and vector store, the run-step index and live feed (derived data that
  nothing decides on), providers, CRUD on independent documents, one-off backfills.
