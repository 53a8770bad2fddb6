------------------------------ MODULE ConnCache ------------------------------
(***************************************************************************)
(* The warm warehouse connections of one project runtime of the ask        *)
(* server: services/agent/internal/askserve/runtime.go.                    *)
(*                                                                         *)
(* A hop (one query of a turn) acquires a datasource's connection, builds  *)
(* it if there is none, and releases it by the datasource's id.  Every     *)
(* section under r.mu is one action; a connection is built and closed by   *)
(* goroutines of their own.  The map r.warm is a set of entries no two of  *)
(* which are of one datasource.  Which idle entry is the least recently    *)
(* used is left open: eviction takes any.                                  *)
(***************************************************************************)
EXTENDS Integers, FiniteSets

CONSTANTS Datasources,
          Hops,        \* goroutines that run queries
          MaxBuilds,   \* connections built for one datasource
          MaxWarm      \* the capacity

ASSUME ConnCacheAssumption ==
  /\ IsFiniteSet(Hops)
  /\ MaxBuilds \in Nat
  /\ MaxWarm \in Nat \ {0}

\* A connEntry: the n-th one made for its datasource.
Entries == [ds : Datasources, n : 1..MaxBuilds]

VARIABLES
  warm,     \* r.warm
  build,    \* build[e]: "none", "running", "ok" or "failed"
  inUse,    \* inUse[e]
  waiting,  \* <<h, e>>: hop h is in acquireConn's select on entry e
  holding,  \* <<h, e>>: hop h has e's connection and a release function
  closing,  \* entries a goroutine is to close when they are built
  closed,   \* entries whose connection has been closed
  retired,  \* Close has run: "no", "unused" (on a runtime no turn has) or
            \* "in_use" (under running turns, as at shutdown)
  abandoned \* history: entries a hop gave up on while they were being built

hopVars == <<waiting, holding>>
vars == <<warm, build, inUse, hopVars, closing, closed, retired, abandoned>>

Ready(e) == build[e] \in {"ok", "failed"}

OnEntry(e) == {h \in Hops : <<h, e>> \in waiting \cup holding}
Idle(h) == \A e \in Entries : h \notin OnEntry(e)

-----------------------------------------------------------------------------
(* evictForCapacityLocked: idle entries go until the map is at capacity or  *)
(* none is idle.  uses is inUse at that point, keep the exempt entries.     *)

Evictable(entries, uses, keep) ==
  {e \in entries \ keep : uses[e] <= 0 /\ Ready(e)}

Victims(entries, uses, keep) ==
  {v \in SUBSET Evictable(entries, uses, keep) :
     \/ Cardinality(entries \ v) = MaxWarm
     \/ Cardinality(entries) < MaxWarm /\ v = {}
     \/ /\ v = Evictable(entries, uses, keep)
        /\ Cardinality(entries \ v) > MaxWarm}

\* Whatever is evicted is closed; a failed build has nothing to close.
Evict(entries, uses, keep) ==
  \E v \in Victims(entries, uses, keep) :
    /\ warm' = entries \ v
    /\ closing' = closing \cup {e \in v : build[e] = "ok"}

-----------------------------------------------------------------------------
(* acquireConn.                                                            *)

\* A runtime that was closed because no turn had it is handed out to nobody;
\* one that was closed under running turns they still have.
MayAcquire(h) == Idle(h) /\ retired # "unused"

AcquireWarm(h, e) ==
  /\ MayAcquire(h)
  /\ e \in warm
  /\ inUse' = [inUse EXCEPT ![e] = @ + 1]
  /\ waiting' = waiting \cup {<<h, e>>}
  /\ UNCHANGED <<warm, build, holding, closing, closed, retired, abandoned>>

FreshIgnoresMap(e) ==
  /\ build[e] = "none"
  /\ \A f \in Entries : f.ds = e.ds /\ f.n < e.n => build[f] # "none"

\* The next entry of its datasource, where the map has none.
Fresh(e) == /\ build[e] = "none"
            /\ \A f \in Entries : f.ds = e.ds /\ f.n < e.n => build[f] # "none"
            /\ \A f \in warm : f.ds # e.ds

AcquireColdUnreserved(h, e) ==
  /\ MayAcquire(h)
  /\ Fresh(e)
  /\ build' = [build EXCEPT ![e] = "running"]
  /\ waiting' = waiting \cup {<<h, e>>}
  /\ Evict(warm \cup {e}, inUse, {e})
  /\ UNCHANGED <<inUse, holding, closed, retired, abandoned>>

AcquireCold(h, e) ==
  /\ MayAcquire(h)
  /\ Fresh(e)
  /\ build' = [build EXCEPT ![e] = "running"]
  /\ inUse' = [inUse EXCEPT ![e] = 1]
  /\ waiting' = waiting \cup {<<h, e>>}
  /\ Evict(warm \cup {e}, inUse', {e})
  /\ UNCHANGED <<holding, closed, retired, abandoned>>

\* buildConn.
BuildEnds(e) ==
  /\ build[e] = "running"
  /\ \E result \in {"ok", "failed"} : build' = [build EXCEPT ![e] = result]
  /\ UNCHANGED <<warm, inUse, hopVars, closing, closed, retired, abandoned>>

Served(h, e) ==
  /\ <<h, e>> \in waiting
  /\ build[e] = "ok"
  /\ waiting' = waiting \ {<<h, e>>}
  /\ holding' = holding \cup {<<h, e>>}
  /\ UNCHANGED <<warm, build, inUse, closing, closed, retired, abandoned>>

BuildFailedUncounted(h, e) ==
  /\ <<h, e>> \in waiting
  /\ build[e] = "failed"
  /\ waiting' = waiting \ {<<h, e>>}
  /\ warm' = IF inUse[e] = 0 THEN warm \ {e} ELSE warm
  /\ UNCHANGED <<inUse, build, holding, closing, closed, retired, abandoned>>

\* The error path: the last hop to leave a failed entry drops it.
BuildFailed(h, e) ==
  /\ <<h, e>> \in waiting
  /\ build[e] = "failed"
  /\ waiting' = waiting \ {<<h, e>>}
  /\ inUse' = [inUse EXCEPT ![e] = @ - 1]
  /\ warm' = IF inUse'[e] = 0 THEN warm \ {e} ELSE warm
  /\ UNCHANGED <<build, holding, closing, closed, retired, abandoned>>

-----------------------------------------------------------------------------
(* releaseConn finds the entry by datasource, then trims to capacity.      *)

Released(id) == [e \in Entries |-> IF e \in warm /\ e.ds = id /\ inUse[e] > 0
                                   THEN inUse[e] - 1 ELSE inUse[e]]

ReleaseConnUntrimmed(id) == inUse' = Released(id) /\ UNCHANGED <<warm, closing>>
ReleaseConn(id) == inUse' = Released(id) /\ Evict(warm, inUse', {})

Release(h, e) ==
  /\ <<h, e>> \in holding
  /\ holding' = holding \ {<<h, e>>}
  /\ ReleaseConn(e.ds)
  /\ UNCHANGED <<build, waiting, closed, retired, abandoned>>

\* The hop's context ends while it waits: the turn's wall clock, the query's
\* deadline, or the server's shutdown.
GivesUp(h, e) ==
  /\ <<h, e>> \in waiting
  /\ waiting' = waiting \ {<<h, e>>}
  /\ ReleaseConn(e.ds)
  /\ abandoned' = IF Ready(e) THEN abandoned ELSE abandoned \cup {e}
  /\ UNCHANGED <<build, holding, closed, retired>>

-----------------------------------------------------------------------------
(* Close and closeConn.                                                    *)

CloseSkipsInFlight(use) ==
  /\ retired = "no"
  /\ use = "unused" => \A h \in Hops : Idle(h)
  /\ retired' = use
  /\ warm' = {}
  /\ closing' = closing \cup {e \in warm : build[e] = "ok"}
  /\ UNCHANGED <<build, inUse, hopVars, closed, abandoned>>

\* An entry still being built is waited for.
Close(use) ==
  /\ retired = "no"
  /\ use = "unused" => \A h \in Hops : Idle(h)
  /\ retired' = use
  /\ warm' = {}
  /\ closing' = closing \cup {e \in warm : build[e] # "failed"}
  /\ UNCHANGED <<build, inUse, hopVars, closed, abandoned>>

CloseConn(e) ==
  /\ e \in closing
  /\ Ready(e)
  /\ closing' = closing \ {e}
  /\ closed' = IF build[e] = "ok" THEN closed \cup {e} ELSE closed
  /\ UNCHANGED <<warm, build, inUse, hopVars, retired, abandoned>>

-----------------------------------------------------------------------------

Init ==
  /\ warm = {} /\ closing = {} /\ closed = {}
  /\ waiting = {} /\ holding = {}
  /\ build = [e \in Entries |-> "none"]
  /\ inUse = [e \in Entries |-> 0]
  /\ retired = "no"
  /\ abandoned = {}

HopStep(h, e) == \/ AcquireWarm(h, e) \/ AcquireCold(h, e) \/ Served(h, e)
                 \/ BuildFailed(h, e) \/ Release(h, e) \/ GivesUp(h, e)

Next == \/ \E h \in Hops, e \in Entries : HopStep(h, e)
        \/ \E e \in Entries : BuildEnds(e) \/ CloseConn(e)
        \/ \E use \in {"unused", "in_use"} : Close(use)

Spec == Init /\ [][Next]_vars

-----------------------------------------------------------------------------
(* Properties.                                                             *)

\* The type invariant; the map has one entry per datasource, and a hop is on
\* one entry at a time, waiting for it or holding its connection.
TypeOK ==
  /\ warm \subseteq Entries
  /\ build \in [Entries -> {"none", "running", "ok", "failed"}]
  /\ inUse \in [Entries -> Int]
  /\ waiting \subseteq Hops \X Entries
  /\ holding \subseteq Hops \X Entries
  /\ closing \subseteq Entries
  /\ closed \subseteq Entries
  /\ retired \in {"no", "unused", "in_use"}
  /\ abandoned \subseteq Entries
  /\ \A e, f \in warm : e.ds = f.ds => e = f
  /\ \A p, q \in waiting \cup holding : p[1] = q[1] => p = q
  /\ waiting \cap holding = {}

\* Unless the runtime was closed under running turns, a hop's connection is
\* open from the moment it gets it until it releases it: no eviction, by
\* whichever hop and whenever its build ended, closes it.
HeldIsOpen ==
  retired # "in_use" => \A p \in holding : /\ build[p[2]] = "ok"
                                          /\ p[2] \notin closing \cup closed

\* The reference count of a warm entry is the number of hops on it: releasing
\* by datasource id, giving up and failing all hit the entry they reserved,
\* so nothing is evicted in use and nothing is pinned for ever.
CountsAreReservations ==
  retired = "no" => \A e \in warm : inUse[e] = Cardinality(OnEntry(e))

\* A connection that was opened, or is about to be, is in the map, on its way
\* out, or closed: neither eviction nor a Close in the middle of a build, under
\* running hops or after all gave up, loses it.
OpenIsOwned ==
  \A e \in Entries : build[e] \in {"running", "ok"}
                       => e \in warm \cup closing \cup closed

\* When no hop and no build is in progress the cache is back at its capacity,
\* although eviction skips what is in use; what its hops gave up on while it
\* was being built comes on top.
AtRest == /\ \A h \in Hops : Idle(h)
          /\ \A e \in warm : Ready(e)

WarmIsBounded ==
  AtRest /\ retired = "no" => Cardinality(warm \ abandoned) <= MaxWarm

\* The cache is one of shared handles.
Handles == INSTANCE SharedHandles
  WITH Users <- Hops, Handles <- Entries, held <- holding,
       down <- (retired = "in_use"),
       handle <- [e \in Entries |-> IF e \in closed THEN "closed"
                                    ELSE IF build[e] = "ok" THEN "open"
                                    ELSE "unopened"]

ImplementsSharedHandles == Handles!HandlesSpec

-----------------------------------------------------------------------------
(* What the comments say and the code does not do.                         *)

\* "Now that this one is idle again, reclaim any idle LRU entries back down to
\* the cap", so that a project "must not pin N live connections indefinitely".
CacheReturnsToCapacity ==
  AtRest /\ retired = "no" => Cardinality(warm) <= MaxWarm

=============================================================================
