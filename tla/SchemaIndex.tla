----------------------------- MODULE SchemaIndex -----------------------------
(***************************************************************************)
(* The schema index of one project: the status on the project document, the *)
(* cached catalog and the vector collection it stands for, the requests    *)
(* that rebuild, retry, clear and cancel, the worker of the API process,    *)
(* the agent it waits for, and the agents it no longer waits for: the      *)
(* Kubernetes and the docker runner return from a run that is cancelled    *)
(* while its agent goes on, the subprocess runner does not.                *)
(*                                                                         *)
(* Catalogs are numbered by the re-index they follow: `asked` re-indexes   *)
(* were begun, `cache` is the number of the cached catalog, `index` that of *)
(* the catalog the collection was built from, and 0 is none.               *)
(*                                                                         *)
(* Time: `age` is 0 until the document is older than reindexLockStaleAfter *)
(* (2 minutes), 1 until it is older than the boot sweep's 2 hours, then 2. *)
(* The progress of a run does not touch the project document.              *)
(*                                                                         *)
(* AnyIndexing, NoMarker, BesideARun and SilentCancel are the definition   *)
(* after each of them with a bug; no specification uses them.              *)
(***************************************************************************)
EXTENDS Naturals

CONSTANTS Agents,     \* agents that may be alive at the same time
          Attended,   \* the one the worker waits for, if it does
          Clicks,     \* requests that may be in flight at the same time
          Kinds,      \* what they ask for
          MaxClicks,  \* requests that arrive
          MaxCrashes, \* crashes of the API process
          MaxFaults   \* failed calls, and requests whose client went away

ASSUME SchemaIndexAssumption ==
  /\ Attended \in Agents
  /\ Kinds \subseteq {"reindex", "retry", "clear", "cancel"}
  /\ MaxClicks \in Nat /\ MaxCrashes \in Nat /\ MaxFaults \in Nat

VARIABLES
  status, marker, age,  \* the project: schema_index_status, schema_reindex_cleanup
  cache, index, asked,
  click,                \* click[c]: what request c is and where
  up,                   \* the API process runs
  worker, cancelled,    \* its worker, and whether the run's context is cancelled
  agent,                \* agent[w]: where process w is, and the catalog it works from
  clicks, crashes, faults,
  overtaken             \* history: a request acted on a status that had changed,
                        \* or a stray agent wrote where it was in the way

project == <<status, marker, age>>
stores  == <<cache, index>>
run     == <<worker, cancelled, agent>>
bounds  == <<clicks, crashes, faults>>
vars == <<project, stores, asked, click, up, run, bounds, overtaken>>

\* "unset" is the empty status of a project that was never indexed.
Statuses == {"unset", "pending", "indexing", "ready", "failed", "cancelled", "needs_reindex"}

\* The agents nobody waits for; {} under the subprocess runner.
Strays == Agents \ {Attended}

NoAgent  == [at |-> "none", catalog |-> 0]
NoAgents == [w \in Agents |-> NoAgent]
Started  == [at |-> "started", catalog |-> 0]

AtWork(w) == agent[w].at \in {"started", "discovered", "resolved", "cleared"}

Fault   == faults < MaxFaults /\ faults' = faults + 1
NoFault == UNCHANGED faults

NoClick == [kind |-> "none", at |-> "none"]
Goes(c, at) == click' = [click EXCEPT ![c].at = at]
Answers(c)  == click' = [click EXCEPT ![c] = NoClick]

\* SetSchemaIndexStatus, whatever the status was.
SetStatus(s) == status' = s /\ marker' = FALSE /\ age' = 0

\* Worker.IsRunning.
BesideARun == FALSE
IsRunning == worker \in {"running", "exited", "settled"}

-----------------------------------------------------------------------------
(* Requests.                                                               *)

ClickFrame == UNCHANGED <<up, worker, agent, crashes>>

\* A request arrives, and reads the project and, for a re-index, the worker.
Arrives(c) ==
  /\ up /\ click[c] = NoClick /\ clicks < MaxClicks
  /\ clicks' = clicks + 1
  /\ \E k \in Kinds :
       /\ \/ k = "reindex" /\ ~IsRunning
          \/ k = "retry"   /\ status = "failed"
          \/ k = "clear"   /\ status # "indexing"
          \/ k = "cancel"  /\ status = "indexing"
       /\ click' = [click EXCEPT ![c] = [kind |-> k, at |-> status]]
  /\ ClickFrame /\ UNCHANGED <<project, stores, asked, cancelled, faults, overtaken>>

\* BeginReindex's filter.
AnyIndexing == TRUE
Claimable   == status # "indexing" \/ age > 0

\* BeginReindex: the lock, or a refusal.
Locks(c) ==
  /\ click[c].kind = "reindex" /\ click[c].at \in Statuses
  /\ IF Claimable
     THEN /\ status' = "indexing" /\ marker' = TRUE /\ age' = 0
          /\ asked' = asked + 1
          /\ Goes(c, "locked")
     ELSE Answers(c) /\ UNCHANGED <<project, asked>>
  /\ ClickFrame /\ UNCHANGED <<stores, cancelled, clicks, faults, overtaken>>

\* The cleanup: Invalidate, then DropCollection; what fails parks the project.
Invalidates(c) ==
  /\ click[c] = [kind |-> "reindex", at |-> "locked"]
  /\ \/ cache' = 0 /\ Goes(c, "invalidated") /\ NoFault
     \/ Goes(c, "parking") /\ Fault /\ UNCHANGED cache
  /\ ClickFrame /\ UNCHANGED <<project, index, asked, cancelled, clicks, overtaken>>

Drops(c) ==
  /\ click[c] = [kind |-> "reindex", at |-> "invalidated"]
  /\ \/ index' = 0 /\ Goes(c, "dropped") /\ NoFault
     \/ Goes(c, "parking") /\ Fault /\ UNCHANGED index
  /\ ClickFrame /\ UNCHANGED <<project, cache, asked, cancelled, clicks, overtaken>>

\* The project is handed to the worker.
HandsOver(c) ==
  /\ click[c] = [kind |-> "reindex", at |-> "dropped"]
  /\ \/ SetStatus("pending") /\ Answers(c) /\ NoFault
     \/ Goes(c, "parking") /\ Fault /\ UNCHANGED project
  /\ ClickFrame /\ UNCHANGED <<stores, asked, cancelled, clicks, overtaken>>

\* parkNeedsReindex; a failure is logged.
Parks(c) ==
  /\ click[c] = [kind |-> "reindex", at |-> "parking"]
  /\ \/ SetStatus("needs_reindex") /\ NoFault
     \/ UNCHANGED project /\ Fault
  /\ Answers(c)
  /\ ClickFrame /\ UNCHANGED <<stores, asked, cancelled, clicks, overtaken>>

\* Retry: `pending`, over whatever the status has become.
Retries(c) ==
  /\ click[c].kind = "retry"
  /\ SetStatus("pending")
  /\ overtaken' = (overtaken \/ status # click[c].at)
  /\ Answers(c)
  /\ ClickFrame /\ UNCHANGED <<stores, asked, cancelled, clicks, faults>>

\* InvalidateCache: the status first, then the cache, then the collection.
Clears(c) ==
  /\ click[c].kind = "clear"
  /\ \/ /\ click[c].at \in Statuses
        /\ SetStatus("needs_reindex")
        /\ overtaken' = (overtaken \/ status # click[c].at)
        /\ Goes(c, "flipped")
        /\ UNCHANGED stores
     \/ /\ click[c].at = "flipped"
        /\ cache' = 0
        /\ overtaken' = (overtaken \/ status # "needs_reindex")
        /\ Goes(c, "invalidated")
        /\ UNCHANGED <<project, index>>
     \/ /\ click[c].at = "invalidated"
        /\ index' = 0
        /\ overtaken' = (overtaken \/ status # "needs_reindex")
        /\ Answers(c)
        /\ UNCHANGED <<project, cache>>
  /\ NoFault
  /\ ClickFrame /\ UNCHANGED <<asked, cancelled, clicks>>

\* Cancel: the signal, to the run in flight if there is one.
Cancels(c) ==
  /\ click[c].kind = "cancel"
  /\ cancelled' = (cancelled \/ IsRunning)
  /\ Answers(c)
  /\ ClickFrame /\ UNCHANGED <<project, stores, asked, clicks, faults, overtaken>>

\* The client goes away, or a step fails with nothing to undo: r.Context()
\* covers the park, too.
ClickDies(c) ==
  /\ click[c] # NoClick /\ Fault
  /\ Answers(c)
  /\ ClickFrame /\ UNCHANGED <<project, stores, asked, cancelled, clicks, overtaken>>

ClickStep(c) == \/ Locks(c) \/ Invalidates(c) \/ Drops(c) \/ HandsOver(c) \/ Parks(c)
                \/ Retries(c) \/ Clears(c) \/ Cancels(c)

-----------------------------------------------------------------------------
(* The worker's tick.                                                      *)

WorkerFrame == UNCHANGED <<stores, asked, click, up, clicks, crashes, overtaken>>

\* ClaimNextPendingIndex.
Claims ==
  /\ up /\ worker = "idle" /\ status = "pending"
  /\ SetStatus("indexing")
  /\ worker' = "claimed"
  /\ WorkerFrame /\ UNCHANGED <<cancelled, agent, faults>>

\* register, and RunIndexSchema starts the agent.
Registers ==
  /\ worker = "claimed"
  /\ worker' = "running" /\ cancelled' = FALSE
  /\ agent' = [agent EXCEPT ![Attended] = Started]
  /\ WorkerFrame /\ UNCHANGED <<project, faults>>

\* The attended agent goes on with nobody waiting for it.
IsLeftBehind ==
  \E s \in Strays :
    /\ agent[s] = NoAgent
    /\ agent' = [agent EXCEPT ![s] = agent[Attended], ![Attended] = NoAgent]

\* RunIndexSchema returns: its agent is gone; or its context is cancelled, or it
\* lost sight of the agent, and the agent goes on.
AgentExits ==
  /\ worker = "running"
  /\ \/ agent[Attended].at \in {"done", "failed"} /\ UNCHANGED agent /\ NoFault
     \/ AtWork(Attended) /\ IsLeftBehind /\ cancelled /\ NoFault
     \/ AtWork(Attended) /\ IsLeftBehind /\ Fault
  /\ worker' = "exited"
  /\ WorkerFrame /\ UNCHANGED <<project, cancelled>>

\* The status of a run whose context was cancelled.
SilentCancel  == status
CancelOutcome == "cancelled"

\* SetSchemaIndexStatus, unless the write fails.  A cancel that arrives as the
\* agent ends may or may not still make RunIndexSchema return an error.
Settles ==
  /\ worker = "exited"
  /\ \/ /\ \/ agent[Attended].at = "done" /\ SetStatus("ready")
           \/ cancelled /\ SetStatus(CancelOutcome)
           \/ agent[Attended].at # "done" /\ ~cancelled /\ SetStatus("failed")
        /\ NoFault
     \/ UNCHANGED project /\ Fault
  /\ worker' = "settled" /\ agent' = [agent EXCEPT ![Attended] = NoAgent]
  /\ WorkerFrame /\ UNCHANGED cancelled

Deregisters ==
  /\ worker = "settled"
  /\ worker' = "idle" /\ cancelled' = FALSE
  /\ WorkerFrame /\ UNCHANGED <<project, agent, faults>>

WorkerStep == Claims \/ Registers \/ AgentExits \/ Settles \/ Deregisters

-----------------------------------------------------------------------------
(* An agent: resolveSchemas and BuildIndex, for one datasource.            *)

AgentFrame == UNCHANGED <<project, asked, click, up, worker, cancelled, clicks, crashes>>

\* Agent w is at p, and works from catalog n; nobody waits to hear how a stray ends.
Becomes(w, p, n) ==
  agent' = [agent EXCEPT ![w] = IF w # Attended /\ p \in {"done", "failed"}
                                THEN NoAgent ELSE [at |-> p, catalog |-> n]]

\* What a stray writes now is not undone and not looked for: the project is
\* ready, another agent is at work, or a re-index was begun since.
InTheWay(w) ==
  w # Attended /\ \/ status = "ready"
                  \/ agent[Attended] # NoAgent
                  \/ agent[w].catalog # asked

Writes(w) == overtaken' = (overtaken \/ InTheWay(w))

\* The cached catalog; or, if there is none or the lookup fails, a fresh one.
Resolves(w) ==
  /\ agent[w].at = "started"
  /\ \/ cache # 0 /\ Becomes(w, "resolved", cache) /\ NoFault
     \/ cache = 0 /\ Becomes(w, "discovered", asked) /\ NoFault
     \/ cache # 0 /\ Becomes(w, "discovered", asked) /\ Fault
  /\ AgentFrame /\ UNCHANGED <<stores, overtaken>>

\* The fresh catalog is cached, minutes later; a failure is logged.
Caches(w) ==
  /\ agent[w].at = "discovered"
  /\ \/ cache' = agent[w].catalog /\ Writes(w) /\ NoFault
     \/ UNCHANGED <<cache, overtaken>> /\ Fault
  /\ Becomes(w, "resolved", agent[w].catalog)
  /\ AgentFrame /\ UNCHANGED index

\* DeleteWarehousePoints, and minutes later Upsert.
DeletesPoints(w) ==
  /\ agent[w].at = "resolved"
  /\ index' = 0 /\ Writes(w)
  /\ Becomes(w, "cleared", agent[w].catalog)
  /\ AgentFrame /\ UNCHANGED <<cache, faults>>

Upserts(w) ==
  /\ agent[w].at = "cleared"
  /\ index' = agent[w].catalog /\ Writes(w)
  /\ Becomes(w, "done", agent[w].catalog)
  /\ AgentFrame /\ UNCHANGED <<cache, faults>>

\* The agent fails, is killed, or runs into its deadline.
Fails(w) ==
  /\ AtWork(w)
  /\ Becomes(w, "failed", agent[w].catalog)
  /\ AgentFrame /\ UNCHANGED <<stores, faults, overtaken>>

AgentStep(w) == Resolves(w) \/ Caches(w) \/ DeletesPoints(w) \/ Upserts(w) \/ Fails(w)

-----------------------------------------------------------------------------
\* The document gets old.  A re-index takes seconds, from IsRunning to the end
\* of its cleanup, and so does the worker from the claim to its map.
Ages ==
  /\ age < 2 /\ status = "indexing"
  /\ worker # "claimed" /\ \A c \in Clicks : click[c].kind # "reindex"
  /\ age' = age + 1
  /\ UNCHANGED <<status, marker, stores, asked, click, up, run, bounds, overtaken>>

\* The API process crashes, and takes along its subprocess but no container.
Crashes ==
  /\ up /\ crashes < MaxCrashes
  /\ crashes' = crashes + 1 /\ up' = FALSE
  /\ click' = [c \in Clicks |-> NoClick]
  /\ worker' = "idle" /\ cancelled' = FALSE
  /\ \/ agent' = [agent EXCEPT ![Attended] = NoAgent]
     \/ AtWork(Attended) /\ IsLeftBehind
  /\ UNCHANGED <<project, stores, asked, clicks, faults, overtaken>>

\* Whether the boot sweep parks the row it found.
NoMarker == FALSE
IsCleanupLock == marker

\* ResetStaleIndexingProjects.
Boots ==
  /\ ~up /\ up' = TRUE
  /\ IF status = "indexing" /\ age = 2
     THEN SetStatus(IF IsCleanupLock THEN "needs_reindex" ELSE "pending")
     ELSE UNCHANGED project
  /\ UNCHANGED <<stores, asked, click, run, bounds, overtaken>>

\* A project nobody has indexed, and one that is ready.
Init ==
  /\ \/ status = "unset" /\ asked = 0 /\ cache = 0 /\ index = 0
     \/ status = "ready" /\ asked = 1 /\ cache = 1 /\ index = 1
  /\ marker = FALSE /\ age = 0
  /\ click = [c \in Clicks |-> NoClick]
  /\ up = TRUE
  /\ worker = "idle" /\ cancelled = FALSE /\ agent = NoAgents
  /\ clicks = 0 /\ crashes = 0 /\ faults = 0
  /\ overtaken = FALSE

Next == \/ \E c \in Clicks : Arrives(c) \/ ClickStep(c) \/ ClickDies(c)
        \/ WorkerStep \/ \E w \in Agents : AgentStep(w)
        \/ Ages \/ Crashes \/ Boots

Spec == Init /\ [][Next]_vars

\* The worker ticks while the process is up, the agent it waits for and the
\* requests go on, and a process that crashed is started again.
FairSpec == /\ Spec
            /\ WF_vars(WorkerStep) /\ WF_vars(AgentStep(Attended)) /\ WF_vars(Boots)
            /\ \A c \in Clicks : WF_vars(ClickStep(c))

-----------------------------------------------------------------------------
(* Properties.                                                             *)

TypeOK ==
  /\ status \in Statuses /\ marker \in BOOLEAN /\ age \in 0..2
  /\ asked \in 0..(MaxClicks + 1)
  /\ cache \in 0..asked /\ index \in 0..asked
  /\ click \in [Clicks ->
       [kind : Kinds \cup {"none"},
        at : Statuses \cup {"none", "locked", "invalidated", "dropped", "parking",
                            "flipped"}]]
  /\ up \in BOOLEAN /\ cancelled \in BOOLEAN /\ overtaken \in BOOLEAN
  /\ worker \in {"idle", "claimed", "running", "exited", "settled"}
  /\ agent \in [Agents ->
       [at : {"none", "started", "discovered", "resolved", "cleared", "done", "failed"},
        catalog : 0..asked]]
  /\ clicks \in 0..MaxClicks /\ crashes \in 0..MaxCrashes /\ faults \in 0..MaxFaults

Cleaning(c) == click[c].kind = "reindex" /\ click[c].at \notin Statuses

\* A project that is ready has the index of a catalog read after its last
\* re-index was asked for, and that catalog cached, so that a discovery finds
\* one: whatever was cancelled, failed, crashed or swept in between, and
\* whichever agents outlived their run.  Out of this fall a catalog that could
\* not be cached, a Retry or a Clear that went on after somebody else had moved
\* the status it read, and a stray that wrote in the way (InTheWay): what keeps
\* strays from that is their runner, none under the subprocess runner.
ReadyIsRebuilt ==
  status = "ready" /\ ~overtaken =>
    index = asked /\ asked # 0 /\ cache \in {asked} \cup (IF faults = 0 THEN {} ELSE {0})

\* The cleanup of a re-index never runs beside the agent of a run the worker
\* waits for, nor beside another cleanup: the `indexing` lock keeps the worker
\* out, and IsRunning keeps the re-index from taking over the row of a run that
\* is long but alive.  A cancelled run's agent is another matter
\* (CancelledRunIsOver).
CleanupIsAlone ==
  ~overtaken => \A c \in Clicks : Cleaning(c) =>
    /\ agent[Attended] = NoAgent
    /\ \A d \in Clicks \ {c} : ~Cleaning(d)

\* A project that waits for the worker, or that a worker or a re-index holds,
\* gets out of there, unless the process crashes or a call fails.
IndexingSettles ==
  status \in {"pending", "indexing"}
    ~> status \notin {"pending", "indexing"} \/ crashes > 0 \/ faults > 0

-----------------------------------------------------------------------------
(* What the comments say and the code does not do.                         *)

\* What the comment on BeginReindex says of the lock: a run cannot start while
\* the cleanup of a re-index is in progress.
NoRunStartsInCleanup ==
  \A c \in Clicks : Cleaning(c) => agent[Attended] = NoAgent

\* What the comment on Cancel says: the status becomes `cancelled` when the
\* agent exits.
CancelledRunIsOver ==
  status = "cancelled" => \A s \in Strays : agent[s] = NoAgent

=============================================================================
