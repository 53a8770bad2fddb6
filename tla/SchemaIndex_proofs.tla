-------------------------- MODULE SchemaIndex_proofs --------------------------
(***************************************************************************)
(* For any number of requests in flight, clicks, crashes, failed calls and *)
(* agents that outlive their run: a clean-up runs beside no agent the worker*)
(* waits for and no other clean-up (CleanupIsAlone), and a project that is *)
(* ready has the index of its last re-index (ReadyIsRebuilt), unless a request*)
(* or a stray agent wrote over what was not its own (overtaken).  That     *)
(* indexing settles is liveness, and is model-checked only.                *)
(***************************************************************************)
EXTENDS SchemaIndex, TLAPS

Places == Statuses \cup {"none", "locked", "invalidated", "dropped", "parking", "flipped"}
ClickType == [kind : Kinds \cup {"none"}, at : Places]

Stages == {"none", "started", "discovered", "resolved", "cleared", "done", "failed"}
AgentType == [at : Stages, catalog : Nat]

\* The types, without the bounds on the counters.
Typed ==
  /\ status \in Statuses /\ marker \in BOOLEAN /\ age \in Nat /\ asked \in Nat
  /\ cache \in Nat
  /\ click \in [Clicks -> ClickType]
  /\ agent \in [Agents -> AgentType]
  /\ cancelled \in BOOLEAN /\ overtaken \in BOOLEAN /\ up \in BOOLEAN /\ faults \in Nat
  /\ worker \in {"idle", "claimed", "running", "exited", "settled"}

\* Nothing of the process outlives it but strays, and the attended agent is the
\* one of a run.
Processes ==
  /\ ~up => worker = "idle" /\ \A c \in Clicks : click[c] = NoClick
  /\ agent[Attended] # NoAgent => worker \in {"running", "exited"}

\* What a request has read is what its handler lets through.
ReadIsAllowed ==
  \A c \in Clicks : /\ click[c].kind = "clear" => click[c].at # "indexing"
                    /\ click[c].kind = "retry" => click[c].at = "failed"

\* A run has the row, and a re-index that has read IsRunning before it finds the
\* row too fresh to take.
RunHasRow ==
  worker \in {"claimed", "running", "exited"} =>
    /\ status = "indexing" /\ ~marker
    /\ worker = "claimed" => age = 0
    /\ \A c \in Clicks : click[c].kind = "reindex" => age = 0 /\ ~Cleaning(c)

\* A clean-up has the row, and has emptied the cache before the collection; a
\* stray may have filled it again with a catalog that is younger.
CleanupHasRow ==
  \A c \in Clicks : Cleaning(c) =>
    /\ status = "indexing" /\ marker /\ age = 0 /\ asked # 0
    /\ worker \in {"idle", "settled"}
    /\ \A d \in Clicks \ {c} : ~Cleaning(d)
    /\ click[c].at \in {"invalidated", "dropped"} => cache \in {0, asked}

\* No catalog older than the last re-index is cached, unless the project waits
\* for a re-index or for the end of one's clean-up.
CacheIsFresh ==
  \/ status \in {"pending", "ready", "failed", "cancelled"}
  \/ status = "indexing" /\ ~marker
  => asked # 0 /\ cache \in {0, asked}

\* The attended agent works from that catalog, and has it cached unless that failed.
AgentIsFresh ==
  agent[Attended].at \in {"discovered", "resolved", "cleared", "done"} =>
    /\ agent[Attended].catalog = asked
    /\ agent[Attended].at # "discovered" => cache = asked \/ (cache = 0 /\ faults # 0)
    /\ agent[Attended].at = "done" => index = asked

\* What holds of the project while no Retry, no Clear and no stray has overwritten
\* what was not its own.
Held == RunHasRow /\ CleanupHasRow /\ CacheIsFresh /\ AgentIsFresh /\ ReadyIsRebuilt

SchemaInv == Typed /\ Processes /\ ReadIsAllowed /\ (~overtaken => Held)

USE SchemaIndexAssumption DEF SchemaInv

-----------------------------------------------------------------------------
(* Requests.                                                               *)

\* Request c is now of kind k and at p.
Moved(c, k, p) == /\ click' \in [Clicks -> ClickType]
                  /\ click'[c].kind = k /\ click'[c].at = p
                  /\ \A d \in Clicks \ {c} : click'[d] = click[d]

\* What the steps make of a request.
LEMMA Moves ==
  ASSUME Typed, NEW c \in Clicks
  PROVE  /\ \A p \in Places : Goes(c, p) => Moved(c, click[c].kind, p)
         /\ Answers(c) => Moved(c, "none", "none")
         /\ \A k \in Kinds, s \in Statuses :
              click' = [click EXCEPT ![c] = [kind |-> k, at |-> s]] => Moved(c, k, s)
<1> USE DEF ClickType, Moved, Typed
<1>1. ASSUME NEW p \in Places, Goes(c, p) PROVE Moved(c, click[c].kind, p)
  <2>1. [click[c] EXCEPT !.at = p] \in ClickType
    OBVIOUS
  <2>2. click' = [click EXCEPT ![c] = [click[c] EXCEPT !.at = p]]
    BY <1>1 DEF Goes
  <2> QED  BY <2>1, <2>2
<1>2. ASSUME Answers(c) PROVE Moved(c, "none", "none")
  BY <1>2 DEF Answers, NoClick, Places
<1>3. ASSUME NEW k \in Kinds, NEW s \in Statuses,
             click' = [click EXCEPT ![c] = [kind |-> k, at |-> s]]
      PROVE  Moved(c, k, s)
  BY <1>3 DEF Places
<1> QED  BY <1>1, <1>2, <1>3

\* The places of a request, one by one.
LEMMA PlaceNames ==
  /\ "locked" \in Places \ Statuses /\ "invalidated" \in Places \ Statuses
  /\ "dropped" \in Places \ Statuses /\ "parking" \in Places \ Statuses
  /\ "flipped" \in Places \ Statuses /\ "none" \in Places \ Statuses
  /\ \A s \in Statuses : s \in Places
  /\ "pending" \in Statuses /\ "indexing" \in Statuses /\ "ready" \in Statuses
  /\ "failed" \in Statuses /\ "cancelled" \in Statuses /\ "needs_reindex" \in Statuses
BY DEF Places, Statuses

\* A re-index that arrives has read IsRunning, so no run that it could take
\* over is older than it.
LEMMA ArrivesStep == ASSUME SchemaInv, NEW c \in Clicks, Arrives(c) PROVE SchemaInv'
<1> USE Moves, PlaceNames DEF Arrives, ClickFrame, project, stores, run, bounds, IsRunning
<1>1. Typed'
  BY DEF Typed, Moved
<1>2. Processes'
  BY DEF Processes, NoClick
<1>3. ReadIsAllowed'
  BY DEF ReadIsAllowed, Moved
<1>4. ASSUME ~overtaken' PROVE RunHasRow'
  BY <1>4 DEF Held, RunHasRow, CleanupHasRow, ReadIsAllowed, Cleaning, Moved, Typed
<1>5. ASSUME ~overtaken' PROVE CleanupHasRow'
  BY <1>5 DEF Held, RunHasRow, CleanupHasRow, ReadIsAllowed, Cleaning, Moved, Typed
<1>6. ASSUME ~overtaken' PROVE CacheIsFresh'
  BY <1>6 DEF Held, CacheIsFresh, CleanupHasRow, ReadIsAllowed, Cleaning, Typed
<1>7. ASSUME ~overtaken' PROVE AgentIsFresh'
  BY <1>7 DEF Held, AgentIsFresh, RunHasRow, CleanupHasRow, Processes, Cleaning, Typed, NoAgent
<1>8. ASSUME ~overtaken' PROVE ReadyIsRebuilt'
  BY <1>8 DEF Held, ReadyIsRebuilt, AgentIsFresh, CleanupHasRow, ReadIsAllowed, Cleaning, Typed
<1> QED  BY <1>1, <1>2, <1>3, <1>4, <1>5, <1>6, <1>7, <1>8 DEF Held

\* BeginReindex finds the row of a run or of a clean-up too fresh to take.
LEMMA LocksStep == ASSUME SchemaInv, NEW c \in Clicks, Locks(c) PROVE SchemaInv'
<1> USE Moves, PlaceNames DEF Locks, ClickFrame, project, stores, run, bounds, Claimable
<1>1. Typed'
  <2>1. click' \in [Clicks -> ClickType]
    BY DEF Typed, Moved
  <2>2. status' \in Statuses /\ marker' \in BOOLEAN
    BY DEF Typed
  <2>3. age' \in Nat /\ asked' \in Nat /\ faults' \in Nat
    BY DEF Typed
  <2>4. cancelled' \in BOOLEAN /\ overtaken' \in BOOLEAN /\ up' \in BOOLEAN
    BY DEF Typed
  <2>5. UNCHANGED <<worker, agent>> /\ cache' \in Nat
    BY DEF Typed
  <2> QED  BY <2>1, <2>2, <2>3, <2>4, <2>5 DEF Typed
<1>2. Processes'
  BY DEF Processes, NoClick
<1>3. ReadIsAllowed'
  BY DEF ReadIsAllowed, Moved
<1>4. ASSUME ~overtaken' PROVE RunHasRow'
  BY <1>4 DEF Held, RunHasRow, CleanupHasRow, ReadIsAllowed, Cleaning, Moved, Typed
<1>5. ASSUME ~overtaken' PROVE CleanupHasRow'
  <2>1. CASE Claimable
    <3>1. /\ status' = "indexing" /\ marker' /\ age' = 0 /\ asked' # 0
          /\ Moved(c, "reindex", "locked") /\ UNCHANGED <<worker, cache>>
      BY <2>1 DEF Typed
    <3>2. \A d \in Clicks : ~Cleaning(d)
      BY <1>5, <2>1 DEF Held, CleanupHasRow, Typed
    <3>3. \A d \in Clicks \ {c} : ~Cleaning(d)'
      BY <3>1, <3>2 DEF Cleaning, Moved
    <3>4. worker \in {"idle", "settled"}
      BY <1>5, <2>1 DEF Held, RunHasRow, Typed
    <3> QED  BY <3>1, <3>3, <3>4 DEF CleanupHasRow, Moved
  <2>2. CASE ~Claimable
    <3>1. Moved(c, "none", "none") /\ UNCHANGED <<project, asked, cache, worker>>
      BY <2>2
    <3> QED  BY <1>5, <3>1 DEF Held, CleanupHasRow, Cleaning, Moved
  <2> QED  BY <2>1, <2>2
<1>6. ASSUME ~overtaken' PROVE CacheIsFresh'
  BY <1>6 DEF Held, CacheIsFresh, CleanupHasRow, ReadIsAllowed, Cleaning, Typed
<1>7. ASSUME ~overtaken' PROVE AgentIsFresh'
  BY <1>7 DEF Held, AgentIsFresh, RunHasRow, CleanupHasRow, Processes, Cleaning, Typed, NoAgent
<1>8. ASSUME ~overtaken' PROVE ReadyIsRebuilt'
  BY <1>8 DEF Held, ReadyIsRebuilt, AgentIsFresh, CleanupHasRow, ReadIsAllowed, Cleaning, Typed
<1> QED  BY <1>1, <1>2, <1>3, <1>4, <1>5, <1>6, <1>7, <1>8 DEF Held

\* The cache is emptied under the lock of the clean-up.
LEMMA InvalidatesStep == ASSUME SchemaInv, NEW c \in Clicks, Invalidates(c) PROVE SchemaInv'
<1> USE Moves, PlaceNames DEF Invalidates, ClickFrame, project, stores, run, bounds, Fault, NoFault
<1>1. Typed'
  BY DEF Typed, Moved
<1>2. Processes'
  BY DEF Processes, NoClick
<1>3. ReadIsAllowed'
  BY DEF ReadIsAllowed, Moved
<1>4. ASSUME ~overtaken' PROVE RunHasRow'
  BY <1>4 DEF Held, RunHasRow, CleanupHasRow, ReadIsAllowed, Cleaning, Moved, Typed
<1>5. ASSUME ~overtaken' PROVE CleanupHasRow'
  BY <1>5 DEF Held, RunHasRow, CleanupHasRow, ReadIsAllowed, Cleaning, Moved, Typed
<1>6. ASSUME ~overtaken' PROVE CacheIsFresh'
  BY <1>6 DEF Held, CacheIsFresh, CleanupHasRow, ReadIsAllowed, Cleaning, Typed
<1>7. ASSUME ~overtaken' PROVE AgentIsFresh'
  BY <1>7 DEF Held, AgentIsFresh, RunHasRow, CleanupHasRow, Processes, Cleaning, Typed, NoAgent
<1>8. ASSUME ~overtaken' PROVE ReadyIsRebuilt'
  BY <1>8 DEF Held, ReadyIsRebuilt, AgentIsFresh, CleanupHasRow, ReadIsAllowed, Cleaning, Typed
<1> QED  BY <1>1, <1>2, <1>3, <1>4, <1>5, <1>6, <1>7, <1>8 DEF Held

\* So is the collection.
LEMMA DropsStep == ASSUME SchemaInv, NEW c \in Clicks, Drops(c) PROVE SchemaInv'
<1> USE Moves, PlaceNames DEF Drops, ClickFrame, project, stores, run, bounds, Fault, NoFault
<1>1. Typed'
  BY DEF Typed, Moved
<1>2. Processes'
  BY DEF Processes, NoClick
<1>3. ReadIsAllowed'
  BY DEF ReadIsAllowed, Moved
<1>4. ASSUME ~overtaken' PROVE RunHasRow'
  BY <1>4 DEF Held, RunHasRow, CleanupHasRow, ReadIsAllowed, Cleaning, Moved, Typed
<1>5. ASSUME ~overtaken' PROVE CleanupHasRow'
  BY <1>5 DEF Held, RunHasRow, CleanupHasRow, ReadIsAllowed, Cleaning, Moved, Typed
<1>6. ASSUME ~overtaken' PROVE CacheIsFresh'
  BY <1>6 DEF Held, CacheIsFresh, CleanupHasRow, ReadIsAllowed, Cleaning, Typed
<1>7. ASSUME ~overtaken' PROVE AgentIsFresh'
  BY <1>7 DEF Held, AgentIsFresh, RunHasRow, CleanupHasRow, Processes, Cleaning, Typed, NoAgent
<1>8. ASSUME ~overtaken' PROVE ReadyIsRebuilt'
  BY <1>8 DEF Held, ReadyIsRebuilt, AgentIsFresh, CleanupHasRow, ReadIsAllowed, Cleaning, Typed
<1> QED  BY <1>1, <1>2, <1>3, <1>4, <1>5, <1>6, <1>7, <1>8 DEF Held

\* The clean-up ends with a cache that is empty: the worker's run starts
\* afresh.
LEMMA HandsOverStep == ASSUME SchemaInv, NEW c \in Clicks, HandsOver(c) PROVE SchemaInv'
<1> USE Moves, PlaceNames DEF HandsOver, ClickFrame, project, stores, run, bounds,
          Fault, NoFault, SetStatus
<1>1. Typed'
  <2>1. click' \in [Clicks -> ClickType]
    BY DEF Typed, Moved
  <2>2. status' \in Statuses /\ marker' \in BOOLEAN
    BY DEF Typed
  <2>3. age' \in Nat /\ asked' \in Nat /\ faults' \in Nat
    BY DEF Typed
  <2>4. cancelled' \in BOOLEAN /\ overtaken' \in BOOLEAN /\ up' \in BOOLEAN
    BY DEF Typed
  <2>5. UNCHANGED <<worker, agent>> /\ cache' \in Nat
    BY DEF Typed
  <2> QED  BY <2>1, <2>2, <2>3, <2>4, <2>5 DEF Typed
<1>2. Processes'
  BY DEF Processes, NoClick
<1>3. ReadIsAllowed'
  BY DEF ReadIsAllowed, Moved
<1>4. ASSUME ~overtaken' PROVE RunHasRow'
  BY <1>4 DEF Held, RunHasRow, CleanupHasRow, ReadIsAllowed, Cleaning, Moved, Typed
<1>5. ASSUME ~overtaken' PROVE CleanupHasRow'
  BY <1>5 DEF Held, RunHasRow, CleanupHasRow, ReadIsAllowed, Cleaning, Moved, Typed
<1>6. ASSUME ~overtaken' PROVE CacheIsFresh'
  BY <1>6 DEF Held, CacheIsFresh, CleanupHasRow, ReadIsAllowed, Cleaning, Typed
<1>7. ASSUME ~overtaken' PROVE AgentIsFresh'
  BY <1>7 DEF Held, AgentIsFresh, RunHasRow, CleanupHasRow, Processes, Cleaning, Typed, NoAgent
<1>8. ASSUME ~overtaken' PROVE ReadyIsRebuilt'
  BY <1>8 DEF Held, ReadyIsRebuilt, AgentIsFresh, CleanupHasRow, ReadIsAllowed, Cleaning, Typed
<1> QED  BY <1>1, <1>2, <1>3, <1>4, <1>5, <1>6, <1>7, <1>8 DEF Held

\* A clean-up that failed leaves a project nobody takes for an index.
LEMMA ParksStep == ASSUME SchemaInv, NEW c \in Clicks, Parks(c) PROVE SchemaInv'
<1> USE Moves, PlaceNames DEF Parks, ClickFrame, project, stores, run, bounds,
          Fault, NoFault, SetStatus
<1>1. Typed'
  <2>1. click' \in [Clicks -> ClickType]
    BY DEF Typed, Moved
  <2>2. status' \in Statuses /\ marker' \in BOOLEAN
    BY DEF Typed
  <2>3. age' \in Nat /\ asked' \in Nat /\ faults' \in Nat
    BY DEF Typed
  <2>4. cancelled' \in BOOLEAN /\ overtaken' \in BOOLEAN /\ up' \in BOOLEAN
    BY DEF Typed
  <2>5. UNCHANGED <<worker, agent>> /\ cache' \in Nat
    BY DEF Typed
  <2> QED  BY <2>1, <2>2, <2>3, <2>4, <2>5 DEF Typed
<1>2. Processes'
  BY DEF Processes, NoClick
<1>3. ReadIsAllowed'
  BY DEF ReadIsAllowed, Moved
<1>4. ASSUME ~overtaken' PROVE RunHasRow'
  BY <1>4 DEF Held, RunHasRow, CleanupHasRow, ReadIsAllowed, Cleaning, Moved, Typed
<1>5. ASSUME ~overtaken' PROVE CleanupHasRow'
  BY <1>5 DEF Held, RunHasRow, CleanupHasRow, ReadIsAllowed, Cleaning, Moved, Typed
<1>6. ASSUME ~overtaken' PROVE CacheIsFresh'
  BY <1>6 DEF Held, CacheIsFresh, CleanupHasRow, ReadIsAllowed, Cleaning, Typed
<1>7. ASSUME ~overtaken' PROVE AgentIsFresh'
  BY <1>7 DEF Held, AgentIsFresh, RunHasRow, CleanupHasRow, Processes, Cleaning, Typed, NoAgent
<1>8. ASSUME ~overtaken' PROVE ReadyIsRebuilt'
  BY <1>8 DEF Held, ReadyIsRebuilt, AgentIsFresh, CleanupHasRow, ReadIsAllowed, Cleaning, Typed
<1> QED  BY <1>1, <1>2, <1>3, <1>4, <1>5, <1>6, <1>7, <1>8 DEF Held

\* A Retry that finds the status it read finds a failed project: no run, no
\* clean-up.
LEMMA RetriesStep == ASSUME SchemaInv, NEW c \in Clicks, Retries(c) PROVE SchemaInv'
<1> USE Moves, PlaceNames DEF Retries, ClickFrame, project, stores, run, bounds, SetStatus
<1>1. Typed'
  BY DEF Typed, Moved
<1>2. Processes'
  BY DEF Processes, NoClick
<1>3. ReadIsAllowed'
  BY DEF ReadIsAllowed, Moved
<1>4. ASSUME ~overtaken' PROVE RunHasRow'
  BY <1>4 DEF Held, RunHasRow, CleanupHasRow, ReadIsAllowed, Cleaning, Moved, Typed
<1>5. ASSUME ~overtaken' PROVE CleanupHasRow'
  BY <1>5 DEF Held, RunHasRow, CleanupHasRow, ReadIsAllowed, Cleaning, Moved, Typed
<1>6. ASSUME ~overtaken' PROVE CacheIsFresh'
  BY <1>6 DEF Held, CacheIsFresh, CleanupHasRow, ReadIsAllowed, Cleaning, Typed
<1>7. ASSUME ~overtaken' PROVE AgentIsFresh'
  BY <1>7 DEF Held, AgentIsFresh, RunHasRow, CleanupHasRow, Processes, Cleaning, Typed, NoAgent
<1>8. ASSUME ~overtaken' PROVE ReadyIsRebuilt'
  BY <1>8 DEF Held, ReadyIsRebuilt, AgentIsFresh, CleanupHasRow, ReadIsAllowed, Cleaning, Typed
<1> QED  BY <1>1, <1>2, <1>3, <1>4, <1>5, <1>6, <1>7, <1>8 DEF Held

\* A Clear that finds the status it read or wrote finds no run and no clean-up.
LEMMA ClearsStep == ASSUME SchemaInv, NEW c \in Clicks, Clears(c) PROVE SchemaInv'
<1> USE Moves, PlaceNames DEF Clears, ClickFrame, project, stores, run, bounds, NoFault, SetStatus
<1>1. Typed'
  <2>1. click' \in [Clicks -> ClickType]
    BY DEF Typed, Moved
  <2>2. status' \in Statuses /\ marker' \in BOOLEAN
    BY DEF Typed
  <2>3. age' \in Nat /\ asked' \in Nat /\ faults' \in Nat
    BY DEF Typed
  <2>4. cancelled' \in BOOLEAN /\ overtaken' \in BOOLEAN /\ up' \in BOOLEAN
    BY DEF Typed
  <2>5. UNCHANGED <<worker, agent>> /\ cache' \in Nat
    BY DEF Typed
  <2> QED  BY <2>1, <2>2, <2>3, <2>4, <2>5 DEF Typed
<1>2. Processes'
  BY DEF Processes, NoClick
<1>3. ReadIsAllowed'
  BY DEF ReadIsAllowed, Moved
<1>4. ASSUME ~overtaken' PROVE RunHasRow'
  BY <1>4 DEF Held, RunHasRow, CleanupHasRow, ReadIsAllowed, Cleaning, Moved, Typed
<1>5. ASSUME ~overtaken' PROVE CleanupHasRow'
  BY <1>5 DEF Held, RunHasRow, CleanupHasRow, ReadIsAllowed, Cleaning, Moved, Typed
<1>6. ASSUME ~overtaken' PROVE CacheIsFresh'
  BY <1>6 DEF Held, CacheIsFresh, CleanupHasRow, ReadIsAllowed, Cleaning, Typed
<1>7. ASSUME ~overtaken' PROVE AgentIsFresh'
  BY <1>7 DEF Held, AgentIsFresh, RunHasRow, CleanupHasRow, Processes, Cleaning, Typed, NoAgent
<1>8. ASSUME ~overtaken' PROVE ReadyIsRebuilt'
  BY <1>8 DEF Held, ReadyIsRebuilt, AgentIsFresh, CleanupHasRow, ReadIsAllowed, Cleaning, Typed
<1> QED  BY <1>1, <1>2, <1>3, <1>4, <1>5, <1>6, <1>7, <1>8 DEF Held

\* A cancel signals, and writes nothing.
LEMMA CancelsStep == ASSUME SchemaInv, NEW c \in Clicks, Cancels(c) PROVE SchemaInv'
<1> USE Moves, PlaceNames DEF Cancels, ClickFrame, project, stores, run, bounds, IsRunning
<1>1. Typed'
  BY DEF Typed, Moved
<1>2. Processes'
  BY DEF Processes, NoClick
<1>3. ReadIsAllowed'
  BY DEF ReadIsAllowed, Moved
<1>4. ASSUME ~overtaken' PROVE RunHasRow'
  BY <1>4 DEF Held, RunHasRow, CleanupHasRow, ReadIsAllowed, Cleaning, Moved, Typed
<1>5. ASSUME ~overtaken' PROVE CleanupHasRow'
  BY <1>5 DEF Held, RunHasRow, CleanupHasRow, ReadIsAllowed, Cleaning, Moved, Typed
<1>6. ASSUME ~overtaken' PROVE CacheIsFresh'
  BY <1>6 DEF Held, CacheIsFresh, CleanupHasRow, ReadIsAllowed, Cleaning, Typed
<1>7. ASSUME ~overtaken' PROVE AgentIsFresh'
  BY <1>7 DEF Held, AgentIsFresh, RunHasRow, CleanupHasRow, Processes, Cleaning, Typed, NoAgent
<1>8. ASSUME ~overtaken' PROVE ReadyIsRebuilt'
  BY <1>8 DEF Held, ReadyIsRebuilt, AgentIsFresh, CleanupHasRow, ReadIsAllowed, Cleaning, Typed
<1> QED  BY <1>1, <1>2, <1>3, <1>4, <1>5, <1>6, <1>7, <1>8 DEF Held

\* A request that dies leaves the project as it is.
LEMMA ClickDiesStep == ASSUME SchemaInv, NEW c \in Clicks, ClickDies(c) PROVE SchemaInv'
<1> USE Moves, PlaceNames DEF ClickDies, ClickFrame, project, stores, run, bounds, Fault
<1>1. Typed'
  BY DEF Typed, Moved
<1>2. Processes'
  BY DEF Processes, NoClick
<1>3. ReadIsAllowed'
  BY DEF ReadIsAllowed, Moved
<1>4. ASSUME ~overtaken' PROVE RunHasRow'
  BY <1>4 DEF Held, RunHasRow, CleanupHasRow, ReadIsAllowed, Cleaning, Moved, Typed
<1>5. ASSUME ~overtaken' PROVE CleanupHasRow'
  BY <1>5 DEF Held, RunHasRow, CleanupHasRow, ReadIsAllowed, Cleaning, Moved, Typed
<1>6. ASSUME ~overtaken' PROVE CacheIsFresh'
  BY <1>6 DEF Held, CacheIsFresh, CleanupHasRow, ReadIsAllowed, Cleaning, Typed
<1>7. ASSUME ~overtaken' PROVE AgentIsFresh'
  BY <1>7 DEF Held, AgentIsFresh, RunHasRow, CleanupHasRow, Processes, Cleaning, Typed, NoAgent
<1>8. ASSUME ~overtaken' PROVE ReadyIsRebuilt'
  BY <1>8 DEF Held, ReadyIsRebuilt, AgentIsFresh, CleanupHasRow, ReadIsAllowed, Cleaning, Typed
<1> QED  BY <1>1, <1>2, <1>3, <1>4, <1>5, <1>6, <1>7, <1>8 DEF Held

-----------------------------------------------------------------------------
(* The worker, the agent, and the passing of time.                         *)

\* The agent the worker waits for is now r.
Attends(r) == agent' \in [Agents -> AgentType] /\ agent'[Attended] = r

\* What the steps make of the agents.
LEMMA AgentMoves ==
  ASSUME Typed
  PROVE  /\ agent[Attended] \in AgentType /\ NoAgent.at = "none"
         /\ UNCHANGED agent => Attends(agent[Attended])
         /\ \A r \in {NoAgent, Started} :
              agent' = [agent EXCEPT ![Attended] = r] => Attends(r)
         /\ IsLeftBehind => Attends(NoAgent)
         /\ \A w \in Agents \ {Attended}, p \in Stages, n \in Nat :
              Becomes(w, p, n) => Attends(agent[Attended])
         /\ \A p \in Stages, n \in Nat :
              Becomes(Attended, p, n) => Attends([at |-> p, catalog |-> n])
<1>0. NoAgent \in AgentType /\ Started \in AgentType /\ NoAgent.at = "none"
  BY DEF NoAgent, Started, AgentType, Stages
<1>1. agent \in [Agents -> AgentType] /\ agent[Attended] \in AgentType
  BY DEF Typed
<1>2. UNCHANGED agent => Attends(agent[Attended])
  BY <1>1 DEF Attends
<1>3. ASSUME NEW r \in {NoAgent, Started}, agent' = [agent EXCEPT ![Attended] = r]
      PROVE  Attends(r)
  BY <1>0, <1>1, <1>3 DEF Attends
<1>4. ASSUME IsLeftBehind PROVE Attends(NoAgent)
  <2>1. PICK s \in Strays :
          agent' = [agent EXCEPT ![s] = agent[Attended], ![Attended] = NoAgent]
    BY <1>4 DEF IsLeftBehind
  <2> QED  BY <1>0, <1>1, <2>1 DEF Attends, Strays
<1>5. ASSUME NEW w \in Agents, NEW p \in Stages, NEW n \in Nat, Becomes(w, p, n)
      PROVE  /\ w # Attended => Attends(agent[Attended])
             /\ w = Attended => Attends([at |-> p, catalog |-> n])
  <2>1. [at |-> p, catalog |-> n] \in AgentType
    BY DEF AgentType
  <2> QED  BY <1>0, <1>1, <1>5, <2>1 DEF Becomes, Attends
<1> QED  BY <1>0, <1>1, <1>2, <1>3, <1>4, <1>5

\* The worker claims a row no clean-up has.
LEMMA ClaimsStep == ASSUME SchemaInv, Claims PROVE SchemaInv'
<1> USE DEF Claims, project, stores, run, bounds, WorkerFrame, SetStatus
<1>1. Typed'
  <2>1. status' \in Statuses /\ marker' \in BOOLEAN
    BY PlaceNames DEF Typed
  <2>2. age' \in Nat /\ asked' \in Nat /\ faults' \in Nat /\ click' \in [Clicks -> ClickType]
    BY DEF Typed
  <2>3. /\ cancelled' \in BOOLEAN /\ overtaken' \in BOOLEAN /\ up' \in BOOLEAN
        /\ worker' \in {"idle", "claimed", "running", "exited", "settled"}
        /\ agent' \in [Agents -> AgentType] /\ cache' \in Nat
    BY AgentMoves DEF Typed, Attends
  <2> QED  BY <2>1, <2>2, <2>3 DEF Typed
<1>2. Processes'
  BY AgentMoves DEF Processes, NoClick, Attends
<1>3. ReadIsAllowed'
  BY DEF ReadIsAllowed, NoClick
<1>4. ASSUME ~overtaken' PROVE RunHasRow'
  BY <1>4 DEF Held, RunHasRow, CleanupHasRow, Processes, Cleaning, NoClick
<1>5. ASSUME ~overtaken' PROVE CleanupHasRow'
  BY <1>5 DEF Held, RunHasRow, CleanupHasRow, Processes, Cleaning, NoClick
<1>6. ASSUME ~overtaken' PROVE CacheIsFresh'
  BY <1>6 DEF Held, CacheIsFresh, RunHasRow, Processes
<1>7. ASSUME ~overtaken' PROVE AgentIsFresh'
  BY <1>7, AgentMoves DEF Held, AgentIsFresh, CacheIsFresh, RunHasRow, Processes, Attends
<1>8. ASSUME ~overtaken' PROVE ReadyIsRebuilt'
  BY <1>8 DEF Held, ReadyIsRebuilt, AgentIsFresh, CacheIsFresh, RunHasRow, Processes
<1> QED  BY <1>1, <1>2, <1>3, <1>4, <1>5, <1>6, <1>7, <1>8 DEF Held

\* The agent starts from a project without an older catalog.
LEMMA RegistersStep == ASSUME SchemaInv, Registers PROVE SchemaInv'
<1> USE DEF Registers, project, stores, run, bounds, WorkerFrame
<1>1. Typed'
  BY AgentMoves DEF Typed, Attends
<1>2. Processes'
  BY AgentMoves DEF Processes, NoClick, Attends
<1>3. ReadIsAllowed'
  BY DEF ReadIsAllowed, NoClick
<1>4. ASSUME ~overtaken' PROVE RunHasRow'
  BY <1>4 DEF Held, RunHasRow, CleanupHasRow, Processes, Cleaning, NoClick
<1>5. ASSUME ~overtaken' PROVE CleanupHasRow'
  BY <1>5 DEF Held, RunHasRow, CleanupHasRow, Processes, Cleaning, NoClick
<1>6. ASSUME ~overtaken' PROVE CacheIsFresh'
  BY <1>6 DEF Held, CacheIsFresh, RunHasRow, Processes
<1>7. ASSUME ~overtaken' PROVE AgentIsFresh'
  BY <1>7, AgentMoves DEF Held, AgentIsFresh, CacheIsFresh, RunHasRow, Processes, Attends, Started
<1>8. ASSUME ~overtaken' PROVE ReadyIsRebuilt'
  BY <1>8 DEF Held, ReadyIsRebuilt, AgentIsFresh, CacheIsFresh, RunHasRow, Processes
<1> QED  BY <1>1, <1>2, <1>3, <1>4, <1>5, <1>6, <1>7, <1>8 DEF Held

\* The worker learns of the end of its agent, and still has the row.
LEMMA AgentExitsStep == ASSUME SchemaInv, AgentExits PROVE SchemaInv'
<1> USE DEF AgentExits, project, stores, run, bounds, WorkerFrame, Fault, NoFault
<1>1. Typed'
  BY AgentMoves DEF Typed, Attends
<1>2. Processes'
  BY AgentMoves DEF Processes, NoClick, Attends
<1>3. ReadIsAllowed'
  BY DEF ReadIsAllowed, NoClick
<1>4. ASSUME ~overtaken' PROVE RunHasRow'
  BY <1>4 DEF Held, RunHasRow, CleanupHasRow, Processes, Cleaning, NoClick
<1>5. ASSUME ~overtaken' PROVE CleanupHasRow'
  BY <1>5 DEF Held, RunHasRow, CleanupHasRow, Processes, Cleaning, NoClick
<1>6. ASSUME ~overtaken' PROVE CacheIsFresh'
  BY <1>6 DEF Held, CacheIsFresh, RunHasRow, Processes
<1>7. ASSUME ~overtaken' PROVE AgentIsFresh'
  BY <1>7, AgentMoves DEF Held, AgentIsFresh, CacheIsFresh, RunHasRow, Processes, Attends
<1>8. ASSUME ~overtaken' PROVE ReadyIsRebuilt'
  BY <1>8 DEF Held, ReadyIsRebuilt, AgentIsFresh, CacheIsFresh, RunHasRow, Processes
<1> QED  BY <1>1, <1>2, <1>3, <1>4, <1>5, <1>6, <1>7, <1>8 DEF Held

\* The status of a run is written over the row the run has had all along.
LEMMA SettlesStep == ASSUME SchemaInv, Settles PROVE SchemaInv'
<1> USE DEF Settles, project, stores, run, bounds, WorkerFrame, SetStatus,
          CancelOutcome, Fault, NoFault
<1>1. Typed'
  <2>1. status' \in Statuses /\ marker' \in BOOLEAN
    BY PlaceNames DEF Typed
  <2>2. age' \in Nat /\ asked' \in Nat /\ faults' \in Nat /\ click' \in [Clicks -> ClickType]
    BY DEF Typed
  <2>3. /\ cancelled' \in BOOLEAN /\ overtaken' \in BOOLEAN /\ up' \in BOOLEAN
        /\ worker' \in {"idle", "claimed", "running", "exited", "settled"}
        /\ agent' \in [Agents -> AgentType] /\ cache' \in Nat
    BY AgentMoves DEF Typed, Attends
  <2> QED  BY <2>1, <2>2, <2>3 DEF Typed
<1>2. Processes'
  BY AgentMoves DEF Processes, NoClick, Attends
<1>3. ReadIsAllowed'
  BY DEF ReadIsAllowed, NoClick
<1>4. ASSUME ~overtaken' PROVE RunHasRow'
  BY <1>4 DEF Held, RunHasRow, CleanupHasRow, Processes, Cleaning, NoClick
<1>5. ASSUME ~overtaken' PROVE CleanupHasRow'
  BY <1>5 DEF Held, RunHasRow, CleanupHasRow, Processes, Cleaning, NoClick
<1>6. ASSUME ~overtaken' PROVE CacheIsFresh'
  BY <1>6 DEF Held, CacheIsFresh, RunHasRow, Processes
<1>7. ASSUME ~overtaken' PROVE AgentIsFresh'
  BY <1>7, AgentMoves DEF Held, AgentIsFresh, CacheIsFresh, RunHasRow, Processes, Attends
<1>8. ASSUME ~overtaken' PROVE ReadyIsRebuilt'
  BY <1>8, AgentMoves DEF Held, ReadyIsRebuilt, AgentIsFresh, CacheIsFresh, RunHasRow, Processes
<1> QED  BY <1>1, <1>2, <1>3, <1>4, <1>5, <1>6, <1>7, <1>8 DEF Held

\* The run has left its row before it is forgotten.
LEMMA DeregistersStep == ASSUME SchemaInv, Deregisters PROVE SchemaInv'
<1> USE DEF Deregisters, project, stores, run, bounds, WorkerFrame
<1>1. Typed'
  BY AgentMoves DEF Typed, Attends
<1>2. Processes'
  BY AgentMoves DEF Processes, NoClick, Attends
<1>3. ReadIsAllowed'
  BY DEF ReadIsAllowed, NoClick
<1>4. ASSUME ~overtaken' PROVE RunHasRow'
  BY <1>4 DEF Held, RunHasRow, CleanupHasRow, Processes, Cleaning, NoClick
<1>5. ASSUME ~overtaken' PROVE CleanupHasRow'
  BY <1>5 DEF Held, RunHasRow, CleanupHasRow, Processes, Cleaning, NoClick
<1>6. ASSUME ~overtaken' PROVE CacheIsFresh'
  BY <1>6 DEF Held, CacheIsFresh, RunHasRow, Processes
<1>7. ASSUME ~overtaken' PROVE AgentIsFresh'
  BY <1>7, AgentMoves DEF Held, AgentIsFresh, CacheIsFresh, RunHasRow, Processes, Attends
<1>8. ASSUME ~overtaken' PROVE ReadyIsRebuilt'
  BY <1>8 DEF Held, ReadyIsRebuilt, AgentIsFresh, CacheIsFresh, RunHasRow, Processes
<1> QED  BY <1>1, <1>2, <1>3, <1>4, <1>5, <1>6, <1>7, <1>8 DEF Held

\* What every step of an agent leaves alone.
AgentRest == UNCHANGED <<project, asked, click, up, worker, cancelled>>

\* A stray that writes where it is not in the way writes what the last re-index
\* asked for, into a project that no agent and no reader relies on.
LEMMA StrayMoves ==
  ASSUME SchemaInv, AgentRest, NEW w \in Agents \ {Attended}, Attends(agent[Attended]),
         cache' \in Nat, faults' \in Nat, faults # 0 => faults' # 0, overtaken' \in BOOLEAN,
         \/ UNCHANGED <<stores, overtaken>>
         \/ Writes(w) /\ cache' \in {cache, agent[w].catalog}
  PROVE  SchemaInv'
<1> USE DEF AgentRest, project, stores, Attends
<1>1. Typed'
  BY DEF Typed
<1>2. Processes' /\ ReadIsAllowed'
  BY DEF Processes, ReadIsAllowed
<1>3. ASSUME ~overtaken' PROVE Held'
  <2>1. Held
    BY <1>3 DEF Writes
  <2>2. RunHasRow'
    BY <2>1 DEF Held, RunHasRow, Cleaning
  <2>3. CASE UNCHANGED <<stores, overtaken>>
    <3>1. CleanupHasRow' /\ CacheIsFresh'
      BY <2>1, <2>3 DEF Held, CleanupHasRow, CacheIsFresh, Cleaning
    <3>2. AgentIsFresh' /\ ReadyIsRebuilt'
      BY <2>1, <2>3 DEF Held, AgentIsFresh, ReadyIsRebuilt, Typed
    <3> QED  BY <2>2, <3>1, <3>2 DEF Held
  <2>4. CASE Writes(w) /\ cache' \in {cache, agent[w].catalog}
    <3>1. /\ status # "ready" /\ agent[Attended] = NoAgent
          /\ agent[w].catalog = asked
      BY <1>3, <2>4 DEF Writes, InTheWay
    <3>2. cache' \in {cache, asked}
      BY <2>4, <3>1
    <3>3. CleanupHasRow' /\ CacheIsFresh'
      BY <2>1, <3>2 DEF Held, CleanupHasRow, CacheIsFresh, Cleaning
    <3>4. AgentIsFresh' /\ ReadyIsRebuilt'
      BY <3>1 DEF AgentIsFresh, ReadyIsRebuilt, NoAgent
    <3> QED  BY <2>2, <3>3, <3>4 DEF Held
  <2> QED  BY <2>3, <2>4
<1> QED  BY <1>1, <1>2, <1>3

\* The attended agent finds the row its run has, and no catalog older than the
\* last re-index.
LEMMA AttendedFinds ==
  ASSUME SchemaInv, agent[Attended].at # "none", ~overtaken
  PROVE  /\ worker \in {"running", "exited"} /\ status = "indexing" /\ ~marker
         /\ asked # 0 /\ cache \in {0, asked}
         /\ \A c \in Clicks : ~Cleaning(c)
<1>1. worker \in {"running", "exited"}
  BY DEF Processes, NoAgent
<1>2. status = "indexing" /\ ~marker /\ \A c \in Clicks : ~Cleaning(c)
  BY <1>1 DEF Held, RunHasRow, Cleaning
<1> QED  BY <1>1, <1>2 DEF Held, CacheIsFresh

\* What is left to show of a step of the attended agent.
LEMMA AttendedMoves ==
  ASSUME SchemaInv, AgentRest, agent[Attended].at # "none",
         NEW p \in Stages, NEW n \in Nat, Attends([at |-> p, catalog |-> n]),
         cache' \in Nat, faults' \in Nat, UNCHANGED overtaken,
         ~overtaken => cache' \in {0, asked} /\ AgentIsFresh'
  PROVE  SchemaInv'
<1> USE DEF AgentRest, project
<1>1. Typed'
  BY DEF Typed, Attends
<1>2. Processes' /\ ReadIsAllowed'
  BY DEF Processes, ReadIsAllowed, NoAgent
<1>3. ASSUME ~overtaken' PROVE Held'
  <2>1. Held /\ ~overtaken
    BY <1>3
  <2>2. RunHasRow'
    BY <2>1 DEF Held, RunHasRow, Cleaning
  <2>3. status' = "indexing" /\ asked' # 0 /\ cache' \in {0, asked'}
        /\ \A c \in Clicks : ~Cleaning(c)'
    BY <2>1, AttendedFinds DEF Cleaning
  <2>4. CleanupHasRow' /\ CacheIsFresh' /\ ReadyIsRebuilt'
    BY <2>3 DEF CleanupHasRow, CacheIsFresh, ReadyIsRebuilt
  <2> QED  BY <2>1, <2>2, <2>4 DEF Held
<1> QED  BY <1>1, <1>2, <1>3

\* An agent reads the cached catalog, which for the attended one is of the last
\* re-index, or sets out to make a new one.
LEMMA ResolvesStep == ASSUME SchemaInv, NEW w \in Agents, Resolves(w) PROVE SchemaInv'
<1> USE DEF Resolves, AgentFrame, Fault, NoFault, stores
<1>1. AgentRest /\ UNCHANGED <<stores, overtaken>> /\ cache' \in Nat /\ faults' \in Nat
      /\ (faults # 0 => faults' # 0) /\ overtaken' \in BOOLEAN
  BY DEF AgentRest, Typed
<1>2. PICK p \in {"resolved", "discovered"}, n \in {cache, asked} :
        /\ Becomes(w, p, n)
        /\ p = "resolved" => n = cache /\ cache # 0
        /\ p = "discovered" => n = asked
  OBVIOUS
<1>3. p \in Stages /\ n \in Nat
  BY DEF Stages, Typed
<1>4. CASE w # Attended
  <2>1. Attends(agent[Attended])
    BY <1>2, <1>3, <1>4, AgentMoves
  <2> QED  BY <1>1, <1>4, <2>1, StrayMoves
<1>5. CASE w = Attended
  <2>1. Attends([at |-> p, catalog |-> n])
    BY <1>2, <1>3, <1>5, AgentMoves
  <2>2. ASSUME ~overtaken PROVE cache' \in {0, asked} /\ AgentIsFresh'
    <3>1. asked # 0 /\ cache \in {0, asked}
      BY <1>5, <2>2, AttendedFinds
    <3> QED  BY <1>1, <1>2, <2>1, <3>1 DEF AgentIsFresh, Attends, AgentRest
  <2> QED  BY <1>1, <1>3, <1>5, <2>1, <2>2, AttendedMoves
<1> QED  BY <1>4, <1>5

\* What the attended agent caches is of the last re-index.
LEMMA CachesStep == ASSUME SchemaInv, NEW w \in Agents, Caches(w) PROVE SchemaInv'
<1> USE DEF Caches, AgentFrame, Fault, NoFault, stores
<1>0. agent[w].catalog \in Nat
  BY DEF Typed, AgentType
<1>1. /\ AgentRest /\ cache' \in Nat /\ faults' \in Nat
      /\ faults # 0 => faults' # 0
  BY <1>0 DEF AgentRest, Typed
<1>2. Becomes(w, "resolved", agent[w].catalog) /\ "resolved" \in Stages
  BY DEF Stages
<1>3. CASE w # Attended
  <2>1. Attends(agent[Attended])
    BY <1>0, <1>2, <1>3, AgentMoves
  <2>2. \/ UNCHANGED <<stores, overtaken>>
        \/ Writes(w) /\ cache' \in {cache, agent[w].catalog}
    OBVIOUS
  <2>3. overtaken' \in BOOLEAN
    BY DEF Writes, InTheWay, Typed
  <2> QED  BY <1>1, <1>3, <2>1, <2>2, <2>3, StrayMoves
<1>4. CASE w = Attended
  <2>1. Attends([at |-> "resolved", catalog |-> agent[w].catalog])
    BY <1>0, <1>2, <1>4, AgentMoves
  <2>2. UNCHANGED overtaken
    BY <1>4 DEF Writes, InTheWay, Typed
  <2>3. ASSUME ~overtaken PROVE cache' \in {0, asked} /\ AgentIsFresh'
    <3>1. asked # 0 /\ cache \in {0, asked} /\ agent[w].catalog = asked
      BY <1>4, <2>3, AttendedFinds DEF Held, AgentIsFresh
    <3>2. cache' = asked \/ (cache' = cache /\ faults' # 0)
      BY <3>1 DEF Typed
    <3> QED  BY <1>1, <2>1, <3>1, <3>2 DEF AgentIsFresh, Attends, AgentRest
  <2> QED  BY <1>0, <1>1, <1>2, <1>4, <2>1, <2>2, <2>3, AttendedMoves
<1> QED  BY <1>3, <1>4

\* The points go first, and the attended agent's are not among them.
LEMMA DeletesPointsStep == ASSUME SchemaInv, NEW w \in Agents, DeletesPoints(w) PROVE SchemaInv'
<1> USE DEF DeletesPoints, AgentFrame, stores
<1>0. agent[w].catalog \in Nat
  BY DEF Typed, AgentType
<1>1. AgentRest /\ UNCHANGED <<cache, faults>> /\ cache' \in Nat /\ faults' \in Nat
  BY DEF AgentRest, Typed
<1>2. Becomes(w, "cleared", agent[w].catalog) /\ "cleared" \in Stages
  BY DEF Stages
<1>3. CASE w # Attended
  <2>1. Attends(agent[Attended])
    BY <1>0, <1>2, <1>3, AgentMoves
  <2>2. Writes(w) /\ cache' \in {cache, agent[w].catalog}
    OBVIOUS
  <2>3. overtaken' \in BOOLEAN
    BY DEF Writes, InTheWay, Typed
  <2> QED  BY <1>1, <1>3, <2>1, <2>2, <2>3, StrayMoves
<1>4. CASE w = Attended
  <2>1. Attends([at |-> "cleared", catalog |-> agent[w].catalog])
    BY <1>0, <1>2, <1>4, AgentMoves
  <2>2. UNCHANGED overtaken
    BY <1>4 DEF Writes, InTheWay, Typed
  <2>3. ASSUME ~overtaken PROVE cache' \in {0, asked} /\ AgentIsFresh'
    <3>1. /\ cache \in {0, asked} /\ agent[w].catalog = asked
          /\ cache = asked \/ (cache = 0 /\ faults # 0)
      BY <1>4, <2>3, AttendedFinds DEF Held, AgentIsFresh
    <3> QED  BY <1>1, <2>1, <3>1 DEF AgentIsFresh, Attends, AgentRest
  <2> QED  BY <1>0, <1>1, <1>2, <1>4, <2>1, <2>2, <2>3, AttendedMoves
<1> QED  BY <1>3, <1>4

\* What the attended agent upserts is of the last re-index.
LEMMA UpsertsStep == ASSUME SchemaInv, NEW w \in Agents, Upserts(w) PROVE SchemaInv'
<1> USE DEF Upserts, AgentFrame, stores
<1>0. agent[w].catalog \in Nat
  BY DEF Typed, AgentType
<1>1. AgentRest /\ UNCHANGED <<cache, faults>> /\ cache' \in Nat /\ faults' \in Nat
  BY DEF AgentRest, Typed
<1>2. Becomes(w, "done", agent[w].catalog) /\ "done" \in Stages
  BY DEF Stages
<1>3. CASE w # Attended
  <2>1. Attends(agent[Attended])
    BY <1>0, <1>2, <1>3, AgentMoves
  <2>2. Writes(w) /\ cache' \in {cache, agent[w].catalog}
    OBVIOUS
  <2>3. overtaken' \in BOOLEAN
    BY DEF Writes, InTheWay, Typed
  <2> QED  BY <1>1, <1>3, <2>1, <2>2, <2>3, StrayMoves
<1>4. CASE w = Attended
  <2>1. Attends([at |-> "done", catalog |-> agent[w].catalog])
    BY <1>0, <1>2, <1>4, AgentMoves
  <2>2. UNCHANGED overtaken
    BY <1>4 DEF Writes, InTheWay, Typed
  <2>3. ASSUME ~overtaken PROVE cache' \in {0, asked} /\ AgentIsFresh'
    <3>1. /\ cache \in {0, asked} /\ agent[w].catalog = asked
          /\ cache = asked \/ (cache = 0 /\ faults # 0)
      BY <1>4, <2>3, AttendedFinds DEF Held, AgentIsFresh
    <3> QED  BY <1>1, <2>1, <3>1 DEF AgentIsFresh, Attends, AgentRest
  <2> QED  BY <1>0, <1>1, <1>2, <1>4, <2>1, <2>2, <2>3, AttendedMoves
<1> QED  BY <1>3, <1>4

\* An agent that fails leaves the stores alone.
LEMMA FailsStep == ASSUME SchemaInv, NEW w \in Agents, Fails(w) PROVE SchemaInv'
<1> USE DEF Fails, AgentFrame, stores
<1>0. agent[w].catalog \in Nat
  BY DEF Typed, AgentType
<1>1. /\ AgentRest /\ UNCHANGED <<stores, faults, overtaken>>
      /\ cache' \in Nat /\ faults' \in Nat /\ overtaken' \in BOOLEAN
  BY DEF AgentRest, Typed
<1>2. Becomes(w, "failed", agent[w].catalog) /\ "failed" \in Stages
  BY DEF Stages
<1>3. CASE w # Attended
  <2>1. Attends(agent[Attended])
    BY <1>0, <1>2, <1>3, AgentMoves
  <2> QED  BY <1>1, <1>3, <2>1, StrayMoves
<1>4. CASE w = Attended
  <2>1. Attends([at |-> "failed", catalog |-> agent[w].catalog])
    BY <1>0, <1>2, <1>4, AgentMoves
  <2>2. agent[Attended].at # "none"
    BY <1>4 DEF AtWork
  <2>3. ASSUME ~overtaken PROVE cache' \in {0, asked} /\ AgentIsFresh'
    BY <1>1, <2>1, <2>2, <2>3, AttendedFinds DEF AgentIsFresh, Attends
  <2> QED  BY <1>0, <1>1, <1>2, <2>1, <2>2, <2>3, AttendedMoves
<1> QED  BY <1>3, <1>4

\* The row gets old only where no re-index and no claim is under way.
LEMMA AgesStep == ASSUME SchemaInv, Ages PROVE SchemaInv'
<1> USE DEF Ages, project, stores, run, bounds
<1>1. Typed'
  <2>1. status' \in Statuses /\ marker' \in BOOLEAN
    BY PlaceNames DEF Typed
  <2>2. age' \in Nat /\ asked' \in Nat /\ faults' \in Nat /\ click' \in [Clicks -> ClickType]
    BY DEF Typed
  <2>3. /\ cancelled' \in BOOLEAN /\ overtaken' \in BOOLEAN /\ up' \in BOOLEAN
        /\ worker' \in {"idle", "claimed", "running", "exited", "settled"}
        /\ agent' \in [Agents -> AgentType] /\ cache' \in Nat
    BY AgentMoves DEF Typed, Attends
  <2> QED  BY <2>1, <2>2, <2>3 DEF Typed
<1>2. Processes'
  BY AgentMoves DEF Processes, NoClick, Attends
<1>3. ReadIsAllowed'
  BY DEF ReadIsAllowed, NoClick
<1>4. ASSUME ~overtaken' PROVE RunHasRow'
  BY <1>4 DEF Held, RunHasRow, CleanupHasRow, Processes, Cleaning, NoClick
<1>5. ASSUME ~overtaken' PROVE CleanupHasRow'
  BY <1>5 DEF Held, RunHasRow, CleanupHasRow, Processes, Cleaning, NoClick
<1>6. ASSUME ~overtaken' PROVE CacheIsFresh'
  BY <1>6 DEF Held, CacheIsFresh, RunHasRow, Processes
<1>7. ASSUME ~overtaken' PROVE AgentIsFresh'
  BY <1>7, AgentMoves DEF Held, AgentIsFresh, CacheIsFresh, RunHasRow, Processes, Attends
<1>8. ASSUME ~overtaken' PROVE ReadyIsRebuilt'
  BY <1>8 DEF Held, ReadyIsRebuilt, AgentIsFresh, CacheIsFresh, RunHasRow, Processes
<1> QED  BY <1>1, <1>2, <1>3, <1>4, <1>5, <1>6, <1>7, <1>8 DEF Held

\* Nothing of the process survives it, and no row changes.
LEMMA CrashesStep == ASSUME SchemaInv, Crashes PROVE SchemaInv'
<1> USE DEF Crashes, project, stores, run, bounds
<1>1. Typed'
  <2>1. status' \in Statuses /\ marker' \in BOOLEAN
    BY PlaceNames DEF Typed
  <2>2. age' \in Nat /\ asked' \in Nat /\ faults' \in Nat /\ click' \in [Clicks -> ClickType]
    BY DEF Typed, ClickType, NoClick, Places
  <2>3. /\ cancelled' \in BOOLEAN /\ overtaken' \in BOOLEAN /\ up' \in BOOLEAN
        /\ worker' \in {"idle", "claimed", "running", "exited", "settled"}
        /\ agent' \in [Agents -> AgentType] /\ cache' \in Nat
    BY AgentMoves DEF Typed, Attends
  <2> QED  BY <2>1, <2>2, <2>3 DEF Typed
<1>2. Processes'
  BY AgentMoves DEF Processes, NoClick, Attends
<1>3. ReadIsAllowed'
  BY DEF ReadIsAllowed, NoClick
<1>4. ASSUME ~overtaken' PROVE RunHasRow'
  BY <1>4 DEF Held, RunHasRow, CleanupHasRow, Processes, Cleaning, NoClick
<1>5. ASSUME ~overtaken' PROVE CleanupHasRow'
  BY <1>5 DEF Held, RunHasRow, CleanupHasRow, Processes, Cleaning, NoClick
<1>6. ASSUME ~overtaken' PROVE CacheIsFresh'
  BY <1>6 DEF Held, CacheIsFresh, RunHasRow, Processes
<1>7. ASSUME ~overtaken' PROVE AgentIsFresh'
  BY <1>7, AgentMoves DEF Held, AgentIsFresh, CacheIsFresh, RunHasRow, Processes, Attends
<1>8. ASSUME ~overtaken' PROVE ReadyIsRebuilt'
  BY <1>8 DEF Held, ReadyIsRebuilt, AgentIsFresh, CacheIsFresh, RunHasRow, Processes
<1> QED  BY <1>1, <1>2, <1>3, <1>4, <1>5, <1>6, <1>7, <1>8 DEF Held

\* A row is parked or handed back while no process works on it.
LEMMA BootsStep == ASSUME SchemaInv, Boots PROVE SchemaInv'
<1> USE DEF Boots, project, stores, run, bounds, SetStatus, IsCleanupLock
<1>1. Typed'
  <2>1. status' \in Statuses /\ marker' \in BOOLEAN
    BY PlaceNames DEF Typed
  <2>2. age' \in Nat /\ asked' \in Nat /\ faults' \in Nat /\ click' \in [Clicks -> ClickType]
    BY DEF Typed
  <2>3. /\ cancelled' \in BOOLEAN /\ overtaken' \in BOOLEAN /\ up' \in BOOLEAN
        /\ worker' \in {"idle", "claimed", "running", "exited", "settled"}
        /\ agent' \in [Agents -> AgentType] /\ cache' \in Nat
    BY AgentMoves DEF Typed, Attends
  <2> QED  BY <2>1, <2>2, <2>3 DEF Typed
<1>2. Processes'
  BY AgentMoves DEF Processes, NoClick, Attends
<1>3. ReadIsAllowed'
  BY DEF ReadIsAllowed, NoClick
<1>4. ASSUME ~overtaken' PROVE RunHasRow'
  BY <1>4 DEF Held, RunHasRow, CleanupHasRow, Processes, Cleaning, NoClick
<1>5. ASSUME ~overtaken' PROVE CleanupHasRow'
  BY <1>5 DEF Held, RunHasRow, CleanupHasRow, Processes, Cleaning, NoClick
<1>6. ASSUME ~overtaken' PROVE CacheIsFresh'
  BY <1>6 DEF Held, CacheIsFresh, RunHasRow, Processes
<1>7. ASSUME ~overtaken' PROVE AgentIsFresh'
  BY <1>7, AgentMoves DEF Held, AgentIsFresh, CacheIsFresh, RunHasRow, Processes, Attends
<1>8. ASSUME ~overtaken' PROVE ReadyIsRebuilt'
  BY <1>8 DEF Held, ReadyIsRebuilt, AgentIsFresh, CacheIsFresh, RunHasRow, Processes
<1> QED  BY <1>1, <1>2, <1>3, <1>4, <1>5, <1>6, <1>7, <1>8 DEF Held

-----------------------------------------------------------------------------
(* The invariant, and what follows from it.                                *)

\* No request, no worker and no agent: a project nobody indexed, or a ready one.
LEMMA InitInv == ASSUME Init PROVE SchemaInv
<1> USE DEF Init
<1>0. agent[Attended] = NoAgent
  BY DEF NoAgents
<1>1. Typed
  <2>1. NoClick \in ClickType
    BY DEF NoClick, ClickType, Places
  <2>2. click \in [Clicks -> ClickType]
    BY <2>1
  <2>3. status \in Statuses
    BY Zenon DEF Statuses
  <2>4. marker \in BOOLEAN /\ age \in Nat
    OBVIOUS
  <2>5. asked \in Nat
    <3>1. asked = 0 \/ asked = 1
      OBVIOUS
    <3> QED  BY <3>1
  <2>6. worker \in {"idle", "claimed", "running", "exited", "settled"}
    OBVIOUS
  <2>7. cancelled \in BOOLEAN /\ overtaken \in BOOLEAN /\ up \in BOOLEAN /\ faults \in Nat
    OBVIOUS
  <2>8. agent \in [Agents -> AgentType] /\ cache \in Nat
    BY <1>0 DEF AgentType, Stages, NoAgent, NoAgents
  <2> QED  BY <2>2, <2>3, <2>4, <2>5, <2>6, <2>7, <2>8 DEF Typed
<1>2. Processes /\ ReadIsAllowed
  BY <1>0 DEF Processes, ReadIsAllowed, NoClick
<1>3. Held
  <2>1. \A c \in Clicks : ~Cleaning(c)
    BY DEF Cleaning, NoClick
  <2>2. RunHasRow /\ CleanupHasRow
    BY <2>1 DEF RunHasRow, CleanupHasRow
  <2>3. CacheIsFresh /\ ReadyIsRebuilt
    BY DEF CacheIsFresh, ReadyIsRebuilt
  <2>4. AgentIsFresh
    BY <1>0 DEF AgentIsFresh, NoAgent
  <2> QED  BY <2>2, <2>3, <2>4 DEF Held
<1> QED  BY <1>1, <1>2, <1>3

\* SchemaInv is kept by every step.
LEMMA NextInv == ASSUME SchemaInv, [Next]_vars PROVE SchemaInv'
<1>1. ASSUME NEW c \in Clicks, Arrives(c) \/ ClickStep(c) \/ ClickDies(c) PROVE SchemaInv'
  BY <1>1, ArrivesStep, LocksStep, InvalidatesStep, DropsStep, HandsOverStep, ParksStep,
     RetriesStep, ClearsStep, CancelsStep, ClickDiesStep DEF ClickStep
<1>2. CASE WorkerStep
  BY <1>2, ClaimsStep, RegistersStep, AgentExitsStep, SettlesStep, DeregistersStep DEF WorkerStep
<1>3. ASSUME NEW w \in Agents, AgentStep(w) PROVE SchemaInv'
  BY <1>3, ResolvesStep, CachesStep, DeletesPointsStep, UpsertsStep, FailsStep DEF AgentStep
<1>4. CASE Ages \/ Crashes \/ Boots
  BY <1>4, AgesStep, CrashesStep, BootsStep
<1>5. CASE UNCHANGED vars
  <2> USE <1>5 DEF vars, project, stores, run, bounds
  <2>1. Typed' /\ Processes' /\ ReadIsAllowed'
    BY DEF Typed, Processes, ReadIsAllowed
  <2>2. ASSUME ~overtaken' PROVE Held'
    BY <2>2 DEF Held, RunHasRow, CleanupHasRow, CacheIsFresh, AgentIsFresh, ReadyIsRebuilt, Cleaning
  <2> QED  BY <2>1, <2>2
<1> QED  BY <1>1, <1>2, <1>3, <1>4, <1>5 DEF Next

\* SchemaInv holds in every behaviour.
THEOREM Invariant == Spec => []SchemaInv
<1>1. Init => SchemaInv
  BY InitInv
<1>2. SchemaInv /\ [Next]_vars => SchemaInv'
  BY NextInv
<1> QED  BY <1>1, <1>2, PTL DEF Spec

\* CleanupIsAlone: the clean-up of a re-index runs beside no agent the worker
\* waits for and no other clean-up, whatever the number of requests, crashes,
\* failed calls and agents that outlived their run, while no Retry, Clear or
\* stray has overwritten what was not its own (worker.IsRunning before
\* BeginReindex, and the lock's age filter).
THEOREM CleanupAlone == Spec => []CleanupIsAlone
<1>1. SchemaInv => CleanupIsAlone
  BY DEF Held, CleanupHasRow, Processes, CleanupIsAlone
<1> QED  BY <1>1, Invariant, PTL

\* ReadyIsRebuilt: a ready project has the index of the catalog read after its
\* last re-index, cancelled runs whose agents went on included, unless one of
\* these wrote while the project was ready, beside another agent, or from before
\* the last re-index (SetSchemaIndexStatus(ready) in the worker).
THEOREM ReadyRebuilt == Spec => []ReadyIsRebuilt
<1>1. SchemaInv => ReadyIsRebuilt
  BY DEF Held, ReadyIsRebuilt
<1> QED  BY <1>1, Invariant, PTL
=============================================================================
