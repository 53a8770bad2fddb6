------------------------------- MODULE AskPool -------------------------------
(***************************************************************************)
(* The ask server's pool of project runtimes:                              *)
(* services/agent/internal/askserve/pool.go.                               *)
(*                                                                         *)
(* A turn finds or creates its project's entry in one section under p.mu   *)
(* and reserves it in a second one; capacity eviction, the janitor and     *)
(* other turns can come in between.  Every such section is one action.     *)
(* The map p.entries is a set of entries no two of which are of one        *)
(* project.  Time is left open: the janitor may find any idle entry past   *)
(* its TTL, and eviction may take any idle entry for the oldest.           *)
(***************************************************************************)
EXTENDS Integers, FiniteSets

CONSTANTS ProjectIDs,   \* the keys of p.entries
          Callers,      \* goroutines that run turns, each one after another
          MaxBuilds,    \* runtimes built for one project
          MaxProjects,  \* PoolMaxProjects
          IdleEviction, \* PoolIdleTTL is set, so the janitor runs
          GiveUps       \* whether a turn's wall clock may run out

ASSUME AskPoolAssumption ==
  /\ IsFiniteSet(Callers)
  /\ MaxBuilds \in Nat
  /\ MaxProjects \in Nat
  /\ IdleEviction \in BOOLEAN
  /\ GiveUps \in BOOLEAN

\* A poolEntry: the n-th one made for its project.
Entries == [project : ProjectIDs, n : 1..MaxBuilds]

VARIABLES
  entries,   \* p.entries
  runtime,   \* runtime[e]: "none", "building", "ok" or "failed"
  inUse,     \* inUse[e]
  building,  \* <<t, e>>: turn t is in buildEntry for e
  found,     \* <<t, e>>: turn t has e and has not reserved it
  waiting,   \* <<t, e>>: turn t has reserved e and is in the select
  holding,   \* <<t, e>>: turn t runs on e's runtime
  closing,   \* evicted entries whose closeRuntime has not run
  closed,    \* entries whose runtime has been closed
  stopped    \* closeAll has run

turnVars == <<building, found, waiting, holding>>
poolVars == <<entries, runtime, inUse, turnVars, closing, closed, stopped>>

Ready(e) == runtime[e] \in {"ok", "failed"}

Reservers(e) == {t \in Callers : <<t, e>> \in waiting \cup holding}
OnEntry(e) == {t \in Callers :
                 <<t, e>> \in building \cup found \cup waiting \cup holding}
Idle(t) == \A e \in Entries : t \notin OnEntry(e)

Evictable == {e \in entries : inUse[e] <= 0 /\ Ready(e)}

-----------------------------------------------------------------------------
(* acquire.                                                                *)

Finds(t, e) ==
  /\ Idle(t)
  /\ e \in entries
  /\ found' = found \cup {<<t, e>>}
  /\ UNCHANGED <<entries, runtime, inUse, building, waiting, holding, closing,
                 closed, stopped>>

FreshIgnoresMap(e) ==
  /\ runtime[e] = "none"
  /\ \A f \in Entries :
       f.project = e.project /\ f.n < e.n => runtime[f] # "none"

\* The next entry of its project, where the map has none.
Fresh(e) == /\ runtime[e] = "none"
            /\ \A f \in Entries :
                 f.project = e.project /\ f.n < e.n => runtime[f] # "none"
            /\ \A f \in entries : f.project # e.project

\* evictForCapacityLocked drops one idle entry, if there is one, however far
\* over capacity the pool is; the new entry is exempt.
OverCapacity(e) == MaxProjects > 0 /\ Cardinality(entries \cup {e}) > MaxProjects

Victims(e) == IF OverCapacity(e) /\ Evictable # {} THEN {{v} : v \in Evictable}
                                                   ELSE {{}}

Creates(t, e) ==
  /\ Idle(t)
  /\ Fresh(e)
  /\ runtime' = [runtime EXCEPT ![e] = "building"]
  /\ building' = building \cup {<<t, e>>}
  /\ \E evicted \in Victims(e) :
       /\ entries' = (entries \ evicted) \cup {e}
       /\ closing' = closing \cup evicted
  /\ UNCHANGED <<inUse, found, waiting, holding, closed, stopped>>

\* buildEntry, in the turn that created the entry; its context is detached
\* from the turn's and bounded.
BuildEntry(t, e) ==
  /\ <<t, e>> \in building
  /\ building' = building \ {<<t, e>>}
  /\ found' = found \cup {<<t, e>>}
  /\ \E result \in {"ok", "failed"} : runtime' = [runtime EXCEPT ![e] = result]
  /\ UNCHANGED <<entries, inUse, waiting, holding, closing, closed, stopped>>

Reserve(t, e) ==
  /\ <<t, e>> \in found
  /\ found' = found \ {<<t, e>>}
  /\ waiting' = waiting \cup {<<t, e>>}
  /\ inUse' = [inUse EXCEPT ![e] = @ + 1]
  /\ UNCHANGED <<entries, runtime, building, holding, closing, closed, stopped>>

Served(t, e) ==
  /\ <<t, e>> \in waiting
  /\ runtime[e] = "ok"
  /\ waiting' = waiting \ {<<t, e>>}
  /\ holding' = holding \cup {<<t, e>>}
  /\ UNCHANGED <<entries, runtime, inUse, building, found, closing, closed,
                 stopped>>

BuildFailedUncounted(t, e) ==
  /\ <<t, e>> \in waiting
  /\ runtime[e] = "failed"
  /\ waiting' = waiting \ {<<t, e>>}
  /\ entries' = IF inUse[e] = 0 THEN entries \ {e} ELSE entries
  /\ UNCHANGED <<runtime, inUse, building, found, holding, closing, closed,
                 stopped>>

\* The error path: the last turn to leave a failed entry drops it.
BuildFailed(t, e) ==
  /\ <<t, e>> \in waiting
  /\ runtime[e] = "failed"
  /\ waiting' = waiting \ {<<t, e>>}
  /\ inUse' = [inUse EXCEPT ![e] = @ - 1]
  /\ entries' = IF inUse'[e] = 0 THEN entries \ {e} ELSE entries
  /\ UNCHANGED <<runtime, building, found, holding, closing, closed, stopped>>

-----------------------------------------------------------------------------
(* release finds the entry by project, whichever entry that is by then.    *)

Released(project) ==
  [e \in Entries |-> IF e \in entries /\ e.project = project /\ inUse[e] > 0
                     THEN inUse[e] - 1 ELSE inUse[e]]

Release(t, e) ==
  /\ <<t, e>> \in holding
  /\ holding' = holding \ {<<t, e>>}
  /\ inUse' = Released(e.project)
  /\ UNCHANGED <<entries, runtime, building, found, waiting, closing, closed,
                 stopped>>

\* The turn's context ends while it waits for another turn's build.
GivesUp(t, e) ==
  /\ GiveUps
  /\ <<t, e>> \in waiting
  /\ waiting' = waiting \ {<<t, e>>}
  /\ inUse' = Released(e.project)
  /\ UNCHANGED <<entries, runtime, building, found, holding, closing, closed,
                 stopped>>

-----------------------------------------------------------------------------
(* Eviction, shutdown, and the closing of what they drop.                  *)

EvictIdleUnbuilt ==
  /\ IdleEviction
  /\ \E evicted \in SUBSET {e \in entries : inUse[e] <= 0} \ {{}} :
       /\ entries' = entries \ evicted
       /\ closing' = closing \cup evicted
  /\ UNCHANGED <<runtime, inUse, turnVars, closed, stopped>>

\* One tick of the janitor: the entries idle for longer than the TTL.  A tick
\* may still be taken after closeAll.
EvictIdle ==
  /\ IdleEviction
  /\ \E evicted \in SUBSET Evictable \ {{}} :
       /\ entries' = entries \ evicted
       /\ closing' = closing \cup evicted
  /\ UNCHANGED <<runtime, inUse, turnVars, closed, stopped>>

\* closeAll, called once, at shutdown: turns that outlive the grace period may
\* still be running.
CloseAll ==
  /\ ~stopped
  /\ stopped' = TRUE
  /\ entries' = {}
  /\ closing' = closing \cup entries
  /\ UNCHANGED <<runtime, inUse, turnVars, closed>>

\* closeRuntime: what never finished building has nothing to close.
CloseRuntime(e) ==
  /\ e \in closing
  /\ closing' = closing \ {e}
  /\ closed' = IF runtime[e] = "ok" THEN closed \cup {e} ELSE closed
  /\ UNCHANGED <<entries, runtime, inUse, turnVars, stopped>>

-----------------------------------------------------------------------------

PoolInit ==
  /\ entries = {} /\ closing = {} /\ closed = {}
  /\ building = {} /\ found = {} /\ waiting = {} /\ holding = {}
  /\ runtime = [e \in Entries |-> "none"]
  /\ inUse = [e \in Entries |-> 0]
  /\ stopped = FALSE

TurnStep(t, e) ==
  \/ Finds(t, e) \/ Creates(t, e) \/ BuildEntry(t, e) \/ Reserve(t, e)
  \/ Served(t, e) \/ BuildFailed(t, e) \/ Release(t, e) \/ GivesUp(t, e)

PoolNext == \/ \E t \in Callers, e \in Entries : TurnStep(t, e)
        \/ \E e \in Entries : CloseRuntime(e)
        \/ EvictIdle \/ CloseAll

PoolSpec == PoolInit /\ [][PoolNext]_poolVars

-----------------------------------------------------------------------------
(* Properties.                                                             *)

\* The type invariant; the map has one entry per project, and a turn is on one
\* entry at a time, in one place of acquire.
PoolTypeOK ==
  /\ entries \subseteq Entries
  /\ runtime \in [Entries -> {"none", "building", "ok", "failed"}]
  /\ inUse \in [Entries -> Int]
  /\ building \subseteq Callers \X Entries
  /\ found \subseteq Callers \X Entries
  /\ waiting \subseteq Callers \X Entries
  /\ holding \subseteq Callers \X Entries
  /\ closing \subseteq Entries
  /\ closed \subseteq Entries
  /\ stopped \in BOOLEAN
  /\ \A e, f \in entries : e.project = f.project => e = f
  /\ \A p, q \in building \cup found \cup waiting \cup holding :
       p[1] = q[1] => p = q
  /\ building \cap (found \cup waiting \cup holding) = {}
  /\ found \cap (waiting \cup holding) = {}
  /\ waiting \cap holding = {}

\* Until shutdown, a runtime that was built is in the pool, on its way out or
\* closed, and one being built is in the pool: none is evicted before there is
\* something to close.
NoRuntimeLeaks ==
  ~stopped => \A e \in Entries :
                /\ runtime[e] = "building" => e \in entries
                /\ runtime[e] = "ok" => e \in entries \cup closing \cup closed

\* No pooled entry is counted in use by more turns than have reserved it, so
\* none is pinned for ever, whoever's release hit whichever entry.
NothingIsPinned ==
  \A e \in entries : inUse[e] <= Cardinality(Reservers(e))

-----------------------------------------------------------------------------
(* What the comments say and the code does not do.                         *)

\* "Entries are reference-counted so an idle/LRU eviction never closes a
\* runtime with an in-flight turn."
HeldRuntimeIsOpen == ~stopped => \A p \in holding : p[2] \notin closing \cup closed

\* "Drop a failed entry so the next turn retries the build instead of
\* inheriting the cached error forever": the only turn on a failed entry takes
\* it out of the pool.
FailedEntryIsDropped ==
  [][\A t \in Callers, e \in Entries :
       /\ BuildFailed(t, e)
       /\ OnEntry(e) = {t}
       /\ ~stopped
       => e \notin entries']_poolVars

=============================================================================
