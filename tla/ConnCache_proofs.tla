-------------------------- MODULE ConnCache_proofs --------------------------
(***************************************************************************)
(* For any number of hops, datasources and builds, and any capacity: a hop *)
(* holds an open connection (HeldIsOpen), the reference counts are the     *)
(* numbers of hops on the entries (CountsAreReservations), and a cache at  *)
(* rest is back at its capacity (WarmIsBounded).                           *)
(*                                                                         *)
(* The argument: an entry that a hop is on is in the map (Placed), an      *)
(* entry in the map is neither closing nor closed (Apart), and the only    *)
(* way out of the map is eviction, which wants a count of zero, and the    *)
(* count is the number of hops on the entry (CountsAreReservations).  The  *)
(* capacity rests on it: over it, nothing is left that could be evicted    *)
(* (Trimmed), and a build that ends is still waited for (BuildsAreAwaited).*)
(***************************************************************************)
EXTENDS ConnCache, FiniteSetTheorems, TLAPS

Placed == \A p \in waiting \cup holding : /\ retired = "no" => p[2] \in warm
                                          /\ retired # "unused"

Apart == /\ \A e \in warm : e \notin closing \cup closed
         /\ \A e \in warm \cup closing : build[e] # "none"
         /\ \A e \in closed : build[e] = "ok" /\ e \notin closing

HeldIsBuilt == \A p \in holding : build[p[2]] = "ok"

CacheInv == /\ TypeOK
            /\ Placed
            /\ Apart
            /\ HeldIsBuilt
            /\ CountsAreReservations

USE DEF Ready

-----------------------------------------------------------------------------
(* How a step changes the hops on each entry.                              *)

\* Cardinality means something for the hops on an entry.
LEMMA OnEntryFinite ==
  ASSUME NEW e
  PROVE  /\ IsFiniteSet(OnEntry(e))
         /\ Cardinality(OnEntry(e)) \in Nat
         /\ OnEntry(e) # {} => Cardinality(OnEntry(e)) > 0
<1>1. OnEntry(e) \in SUBSET Hops
  BY DEF OnEntry
<1>2. IsFiniteSet(OnEntry(e))
  BY <1>1, FS_Subset, ConnCacheAssumption
<1> QED  BY <1>2, FS_CardinalityType, FS_EmptySet

\* An idle hop that reserves an entry is one hop more on it, and on no other.
LEMMA HopJoins ==
  ASSUME TypeOK, NEW h \in Hops, NEW e \in Entries, Idle(h),
         waiting' = waiting \cup {<<h, e>>}, holding' = holding
  PROVE  /\ Cardinality(OnEntry(e))' = Cardinality(OnEntry(e)) + 1
         /\ \A f \in Entries : f # e => OnEntry(f)' = OnEntry(f)
<1>1. h \notin OnEntry(e)
  BY DEF Idle
<1>2. OnEntry(e)' = OnEntry(e) \cup {h}
  BY DEF OnEntry
<1>3. \A f \in Entries : f # e => OnEntry(f)' = OnEntry(f)
  BY DEF OnEntry
<1> QED  BY <1>1, <1>2, <1>3, OnEntryFinite, FS_AddElement

\* A hop that leaves an entry is one hop fewer on it, and on no other.
LEMMA HopLeaves ==
  ASSUME TypeOK, NEW h \in Hops, NEW e \in Entries,
         <<h, e>> \in waiting \cup holding,
         (waiting \cup holding)' = (waiting \cup holding) \ {<<h, e>>}
  PROVE  /\ Cardinality(OnEntry(e))' = Cardinality(OnEntry(e)) - 1
         /\ Cardinality(OnEntry(e)) > 0
         /\ \A f \in Entries : f # e => OnEntry(f)' = OnEntry(f)
<1>1. h \in OnEntry(e)
  BY DEF OnEntry
<1>2. OnEntry(e)' = OnEntry(e) \ {h}
  BY DEF OnEntry
<1>3. \A f \in Entries : f # e => OnEntry(f)' = OnEntry(f)
  BY DEF OnEntry
<1> QED  BY <1>1, <1>2, <1>3, OnEntryFinite, FS_RemoveElement

\* Whatever capacity asks for, eviction takes idle entries that are built.
LEMMA EvictShape ==
  ASSUME NEW S, NEW uses, NEW keep, Evict(S, uses, keep)
  PROVE  \E v \in SUBSET Evictable(S, uses, keep) :
           /\ warm' = S \ v
           /\ closing' = closing \cup {e \in v : build[e] = "ok"}
BY DEF Evict, Victims

\* releaseConn decrements the entry a hop is leaving, and no other.
LEMMA ReleasedShape ==
  ASSUME TypeOK, NEW e \in warm, inUse[e] > 0
  PROVE  /\ Released(e.ds)[e] = inUse[e] - 1
         /\ \A f \in warm : f # e => Released(e.ds)[f] = inUse[f]
BY DEF TypeOK, Released

\* A release keeps counts integers.
LEMMA ReleasedType ==
  ASSUME TypeOK, NEW id
  PROVE  Released(id) \in [Entries -> Int]
BY DEF TypeOK, Released

-----------------------------------------------------------------------------
(* Types.                                                                  *)

\* The empty cache satisfies the invariant.
LEMMA InitInv == ASSUME Init PROVE CacheInv
<1>1. TypeOK
  <2>1. build \in [Entries -> {"none", "running", "ok", "failed"}]
    BY DEF Init
  <2>2. inUse \in [Entries -> Int]
    BY DEF Init
  <2>3. /\ warm = {} /\ closing = {} /\ closed = {}
        /\ waiting = {} /\ holding = {}
        /\ retired = "no" /\ abandoned = {}
    BY DEF Init
  <2> QED  BY <2>1, <2>2, <2>3 DEF TypeOK
<1>2. Placed /\ Apart /\ HeldIsBuilt /\ CountsAreReservations
  BY DEF Init, Placed, Apart, HeldIsBuilt, CountsAreReservations
<1> QED  BY <1>1, <1>2 DEF CacheInv

\* Every step keeps the types, one entry per datasource and one place per hop.
LEMMA TypeStep == ASSUME TypeOK, [Next]_vars PROVE TypeOK'
<1> USE DEF TypeOK
<1>1. ASSUME NEW h \in Hops, NEW e \in Entries, AcquireWarm(h, e) PROVE TypeOK'
  <2>1. \A p \in waiting \cup holding : p[1] # h
    BY <1>1 DEF AcquireWarm, MayAcquire, Idle, OnEntry
  <2> QED  BY <1>1, <2>1 DEF AcquireWarm
<1>2. ASSUME NEW h \in Hops, NEW e \in Entries, AcquireCold(h, e) PROVE TypeOK'
  <2>1. \A p \in waiting \cup holding : p[1] # h
    BY <1>2 DEF AcquireCold, MayAcquire, Idle, OnEntry
  <2>2. PICK v \in SUBSET Evictable(warm \cup {e}, inUse', {e}) :
          /\ warm' = (warm \cup {e}) \ v
          /\ closing' = closing \cup {f \in v : build[f] = "ok"}
    BY <1>2, EvictShape DEF AcquireCold
  <2>3. warm' \subseteq Entries /\ closing' \subseteq Entries
    BY <2>2 DEF Evictable
  <2>4. \A f, g \in warm' : f.ds = g.ds => f = g
    BY <1>2, <2>2 DEF AcquireCold, Fresh
  <2>5. /\ build' \in [Entries -> {"none", "running", "ok", "failed"}]
        /\ inUse' \in [Entries -> Int]
    BY <1>2 DEF AcquireCold
  <2> QED  BY <1>2, <2>1, <2>3, <2>4, <2>5 DEF AcquireCold
<1>3. ASSUME NEW h \in Hops, NEW e \in Entries, Served(h, e) PROVE TypeOK'
  BY <1>3 DEF Served
<1>4. ASSUME NEW h \in Hops, NEW e \in Entries, BuildFailed(h, e) PROVE TypeOK'
  BY <1>4 DEF BuildFailed
<1>5. ASSUME NEW id, ReleaseConn(id)
      PROVE  /\ inUse' \in [Entries -> Int]
             /\ warm' \subseteq warm
             /\ closing' \subseteq Entries
  BY <1>5, EvictShape, ReleasedType DEF ReleaseConn, Evictable
<1>6. ASSUME NEW h \in Hops, NEW e \in Entries, Release(h, e) PROVE TypeOK'
  BY <1>5, <1>6 DEF Release
<1>7. ASSUME NEW h \in Hops, NEW e \in Entries, GivesUp(h, e) PROVE TypeOK'
  BY <1>5, <1>7 DEF GivesUp
<1>8. ASSUME NEW e \in Entries, BuildEnds(e) \/ CloseConn(e) PROVE TypeOK'
  BY <1>8 DEF BuildEnds, CloseConn, hopVars
<1>9. ASSUME NEW use \in {"unused", "in_use"}, Close(use) PROVE TypeOK'
  BY <1>9 DEF Close, hopVars
<1>10. CASE UNCHANGED vars
  BY <1>10 DEF vars, hopVars
<1> QED  BY <1>1, <1>2, <1>3, <1>4, <1>6, <1>7, <1>8, <1>9, <1>10 DEF Next, HopStep

\* The map never has two entries of one datasource, and no hop is in two
\* places, however many goroutines share the runtime.
THEOREM CacheTypeCorrect == Spec => []TypeOK
<1>1. Init => TypeOK
  BY InitInv DEF CacheInv
<1>2. TypeOK /\ [Next]_vars => TypeOK'
  BY TypeStep
<1> QED  BY <1>1, <1>2, PTL DEF Spec

-----------------------------------------------------------------------------
(* The invariant.  Each conjunct is kept by each action that disturbs it.  *)

\* What eviction takes away was idle: no hop is on it, and the entries that
\* stay keep their place.
LEMMA EvictedIsIdle ==
  ASSUME NEW uses, NEW S, NEW keep, NEW v \in SUBSET Evictable(S, uses, keep)
  PROVE  \A e \in v : e \in S \ keep /\ uses[e] <= 0 /\ Ready(e)
BY DEF Evictable

\* Sharing a warm entry counts the hop on the entry it found.
LEMMA AcquireWarmKeeps ==
  ASSUME CacheInv, NEW h \in Hops, NEW e \in Entries, AcquireWarm(h, e)
  PROVE  Placed' /\ Apart' /\ HeldIsBuilt' /\ CountsAreReservations'
<1> USE DEF AcquireWarm
<1>1. Placed' /\ Apart' /\ HeldIsBuilt'
  BY DEF CacheInv, TypeOK, Placed, Apart, HeldIsBuilt, MayAcquire
<1>2. CountsAreReservations'
  <2>1. /\ Cardinality(OnEntry(e))' = Cardinality(OnEntry(e)) + 1
        /\ \A f \in Entries : f # e => OnEntry(f)' = OnEntry(f)
    BY HopJoins DEF CacheInv, MayAcquire
  <2> QED  BY <2>1, OnEntryFinite DEF CacheInv, TypeOK, CountsAreReservations
<1> QED  BY <1>1, <1>2

\* A first touch, with the evictions that make room for it, evicts nothing in use.
LEMMA AcquireColdKeeps ==
  ASSUME CacheInv, NEW h \in Hops, NEW e \in Entries, AcquireCold(h, e)
  PROVE  Placed' /\ Apart' /\ HeldIsBuilt' /\ CountsAreReservations'
<1>1. PICK v \in SUBSET Evictable(warm \cup {e}, inUse', {e}) :
        /\ warm' = (warm \cup {e}) \ v
        /\ closing' = closing \cup {f \in v : build[f] = "ok"}
  BY EvictShape DEF AcquireCold
<1>2. \A f \in v : f \in warm /\ f # e /\ inUse'[f] <= 0 /\ Ready(f)
  BY <1>1, EvictedIsIdle
<1>3. /\ inUse' = [inUse EXCEPT ![e] = 1]
      /\ build' = [build EXCEPT ![e] = "running"]
      /\ waiting' = waiting \cup {<<h, e>>} /\ holding' = holding
      /\ closed' = closed /\ retired' = retired
      /\ Idle(h) /\ retired # "unused" /\ build[e] = "none"
  BY DEF AcquireCold, MayAcquire, Fresh
<1>4. e \notin warm /\ e \notin closing /\ e \notin closed
  BY <1>3 DEF CacheInv, Apart
<1>5. OnEntry(e) = {} \/ retired # "no"
  BY <1>4 DEF CacheInv, Placed, OnEntry
<1>6. /\ Cardinality(OnEntry(e))' = Cardinality(OnEntry(e)) + 1
      /\ \A f \in Entries : f # e => OnEntry(f)' = OnEntry(f)
  BY <1>3, HopJoins DEF CacheInv
<1>7. retired = "no" => \A f \in v : OnEntry(f) = {}
  BY <1>2, <1>3, OnEntryFinite DEF CacheInv, TypeOK, CountsAreReservations
<1>8. Placed'
  BY <1>1, <1>2, <1>3, <1>7 DEF CacheInv, TypeOK, Placed, OnEntry
<1>9. Apart'
  BY <1>1, <1>2, <1>3, <1>4 DEF CacheInv, TypeOK, Apart
<1>10. HeldIsBuilt'
  BY <1>3 DEF CacheInv, TypeOK, HeldIsBuilt
<1>11. CountsAreReservations'
  <2>1. retired = "no" => Cardinality(OnEntry(e))' = 1
    BY <1>5, <1>6, FS_EmptySet
  <2> QED  BY <1>1, <1>3, <1>6, <2>1 DEF CacheInv, TypeOK, CountsAreReservations
<1> QED  BY <1>8, <1>9, <1>10, <1>11

\* The error path drops a failed entry with the last hop on it.
LEMMA BuildFailedKeeps ==
  ASSUME CacheInv, NEW h \in Hops, NEW e \in Entries, BuildFailed(h, e)
  PROVE  Placed' /\ Apart' /\ HeldIsBuilt' /\ CountsAreReservations'
<1> USE DEF BuildFailed
<1>1. (waiting \cup holding)' = (waiting \cup holding) \ {<<h, e>>}
  BY DEF CacheInv, TypeOK
<1>2. /\ Cardinality(OnEntry(e))' = Cardinality(OnEntry(e)) - 1
      /\ Cardinality(OnEntry(e)) > 0
      /\ \A f \in Entries : f # e => OnEntry(f)' = OnEntry(f)
  BY <1>1, HopLeaves DEF CacheInv
<1>3. CountsAreReservations'
  BY <1>2, OnEntryFinite DEF CacheInv, TypeOK, CountsAreReservations
<1>4. retired = "no" => e \in warm /\ inUse'[e] = Cardinality(OnEntry(e))'
  BY <1>2, OnEntryFinite DEF CacheInv, TypeOK, Placed, CountsAreReservations
<1>5. retired = "no" /\ inUse'[e] = 0 => OnEntry(e)' = {}
  <2>1. OnEntry(e)' \subseteq OnEntry(e)
    BY <1>1 DEF OnEntry
  <2>2. IsFiniteSet(OnEntry(e)')
    BY <2>1, OnEntryFinite, FS_Subset
  <2> QED  BY <1>4, <2>2, FS_EmptySet
<1>6. Placed'
  BY <1>1, <1>5 DEF CacheInv, TypeOK, Placed, OnEntry
<1>7. Apart' /\ HeldIsBuilt'
  BY DEF CacheInv, Apart, HeldIsBuilt
<1> QED  BY <1>3, <1>6, <1>7

\* Release and GivesUp: a hop leaves its entry by releaseConn.
LEMMA ReleaseKeeps ==
  ASSUME CacheInv, NEW h \in Hops, NEW e \in Entries,
         <<h, e>> \in waiting \cup holding,
         (waiting \cup holding)' = (waiting \cup holding) \ {<<h, e>>},
         holding' \subseteq holding,
         ReleaseConn(e.ds), UNCHANGED <<build, closed, retired>>
  PROVE  Placed' /\ Apart' /\ HeldIsBuilt' /\ CountsAreReservations'
<1>1. PICK v \in SUBSET Evictable(warm, inUse', {}) :
        /\ warm' = warm \ v
        /\ closing' = closing \cup {f \in v : build[f] = "ok"}
  BY EvictShape DEF ReleaseConn
<1>2. \A f \in v : f \in warm /\ inUse'[f] <= 0
  BY <1>1, EvictedIsIdle
<1>3. /\ Cardinality(OnEntry(e))' = Cardinality(OnEntry(e)) - 1
      /\ Cardinality(OnEntry(e)) > 0
      /\ \A f \in Entries : f # e => OnEntry(f)' = OnEntry(f)
  BY HopLeaves DEF CacheInv
<1>4. retired = "no" => \A f \in warm : inUse'[f] = Cardinality(OnEntry(f))'
  <2> SUFFICES ASSUME retired = "no" PROVE \A f \in warm : inUse'[f] = Cardinality(OnEntry(f))'
    OBVIOUS
  <2>1. e \in warm /\ inUse[e] = Cardinality(OnEntry(e))
    BY DEF CacheInv, Placed, CountsAreReservations
  <2>2. /\ inUse'[e] = inUse[e] - 1
        /\ \A f \in warm : f # e => inUse'[f] = inUse[f]
    BY <2>1, <1>3, ReleasedShape DEF CacheInv, ReleaseConn
  <2> QED  BY <1>3, <2>1, <2>2 DEF CacheInv, TypeOK, CountsAreReservations
<1>5. retired = "no" => \A f \in v : OnEntry(f)' = {}
  <2>1. ASSUME NEW f \in v, retired = "no" PROVE OnEntry(f)' = {}
    <3>1. OnEntry(f)' \subseteq OnEntry(f)
      BY DEF OnEntry
    <3>2. IsFiniteSet(OnEntry(f)') /\ Cardinality(OnEntry(f)') \in Nat
      BY <3>1, OnEntryFinite, FS_Subset, FS_CardinalityType
    <3> QED  BY <1>2, <1>4, <2>1, <3>2, FS_EmptySet
  <2> QED  BY <2>1
<1>6. Placed'
  BY <1>1, <1>5 DEF CacheInv, TypeOK, Placed, OnEntry
<1>7. Apart'
  BY <1>1, <1>2 DEF CacheInv, Apart
<1>8. HeldIsBuilt'
  BY DEF CacheInv, HeldIsBuilt
<1>9. CountsAreReservations'
  BY <1>1, <1>4 DEF CountsAreReservations
<1> QED  BY <1>6, <1>7, <1>8, <1>9

\* The invariant is inductive.
LEMMA CacheInvStep == ASSUME CacheInv, [Next]_vars PROVE CacheInv'
<1>1. TypeOK'
  BY TypeStep DEF CacheInv
<1>2. ASSUME NEW h \in Hops, NEW e \in Entries, HopStep(h, e)
      PROVE  Placed' /\ Apart' /\ HeldIsBuilt' /\ CountsAreReservations'
  <2>1. CASE Served(h, e)
    <3>1. (waiting \cup holding)' = waiting \cup holding
      BY <2>1 DEF Served
    <3>2. \A f : OnEntry(f)' = OnEntry(f)
      BY <3>1 DEF OnEntry
    <3> QED  BY <2>1, <3>1, <3>2
             DEF Served, CacheInv, Placed, Apart, HeldIsBuilt, CountsAreReservations
  <2>2. CASE Release(h, e)
    BY <2>2, ReleaseKeeps DEF Release, CacheInv, TypeOK
  <2>3. CASE GivesUp(h, e)
    BY <2>3, ReleaseKeeps DEF GivesUp, CacheInv, TypeOK
  <2> QED  BY <1>2, <2>1, <2>2, <2>3, AcquireWarmKeeps, AcquireColdKeeps,
              BuildFailedKeeps DEF HopStep
<1>3. ASSUME NEW e \in Entries, BuildEnds(e) \/ CloseConn(e)
      PROVE  Placed' /\ Apart' /\ HeldIsBuilt' /\ CountsAreReservations'
  <2>1. \A f : OnEntry(f)' = OnEntry(f)
    BY <1>3 DEF BuildEnds, CloseConn, hopVars, OnEntry
  <2> QED  BY <1>3, <2>1 DEF BuildEnds, CloseConn, hopVars, CacheInv, TypeOK,
              Placed, Apart, HeldIsBuilt, CountsAreReservations
<1>4. ASSUME NEW use \in {"unused", "in_use"}, Close(use)
      PROVE  Placed' /\ Apart' /\ HeldIsBuilt' /\ CountsAreReservations'
  <2>1. use = "unused" => waiting \cup holding = {}
    BY <1>4 DEF Close, Idle, OnEntry, CacheInv, TypeOK
  <2> QED  BY <1>4, <2>1 DEF Close, hopVars, CacheInv, TypeOK, Placed, Apart,
              HeldIsBuilt, CountsAreReservations
<1>5. CASE UNCHANGED vars
  <2>1. \A f : OnEntry(f)' = OnEntry(f)
    BY <1>5 DEF vars, hopVars, OnEntry
  <2>2. Placed' /\ Apart' /\ HeldIsBuilt'
    BY <1>5 DEF vars, hopVars, CacheInv, Placed, Apart, HeldIsBuilt
  <2>3. CountsAreReservations'
    BY <1>5, <2>1 DEF vars, hopVars, CacheInv, TypeOK, CountsAreReservations
  <2> QED  BY <1>1, <2>2, <2>3 DEF CacheInv
<1> QED  BY <1>1, <1>2, <1>3, <1>4, <1>5 DEF Next, CacheInv

\* The inductive invariant the theorems below rest on.
THEOREM CacheInvariant == Spec => []CacheInv
<1>1. Init => CacheInv
  BY InitInv
<1>2. CacheInv /\ [Next]_vars => CacheInv'
  BY CacheInvStep
<1> QED  BY <1>1, <1>2, PTL DEF Spec

\* However hops, builds and evictions interleave, no hop's connection is closed
\* while it runs its query (acquireConn, evictForCapacityLocked, Close).
THEOREM HeldStaysOpen == Spec => []HeldIsOpen
<1>1. CacheInv => HeldIsOpen
  BY DEF CacheInv, TypeOK, Placed, Apart, HeldIsBuilt, HeldIsOpen
<1> QED  BY <1>1, CacheInvariant, PTL

\* The reference count of every warm entry is the number of hops on it, however
\* they leave it: served, given up or failed (releaseConn, the error path).
THEOREM CountsExact == Spec => []CountsAreReservations
<1>1. CacheInv => CountsAreReservations
  BY DEF CacheInv
<1> QED  BY <1>1, CacheInvariant, PTL

-----------------------------------------------------------------------------
(* No connection is lost.                                                  *)

\* Eviction, the error path and Close take out of the map what they hand to a
\* closer, or what there is nothing to close of.
LEMMA OwnedStep ==
  ASSUME TypeOK, OpenIsOwned, [Next]_vars
  PROVE  OpenIsOwned'
<1> USE DEF TypeOK, OpenIsOwned
<1>1. ASSUME NEW h \in Hops, NEW e \in Entries, HopStep(h, e) PROVE OpenIsOwned'
  <2>1. CASE AcquireWarm(h, e) \/ Served(h, e)
    BY <2>1 DEF AcquireWarm, Served
  <2>2. CASE AcquireCold(h, e)
    <3>1. PICK v \in SUBSET Evictable(warm \cup {e}, inUse', {e}) :
            /\ warm' = (warm \cup {e}) \ v
            /\ closing' = closing \cup {f \in v : build[f] = "ok"}
      BY <2>2, EvictShape DEF AcquireCold
    <3>2. \A f \in v : f # e /\ Ready(f)
      BY <3>1, EvictedIsIdle
    <3> QED  BY <2>2, <3>1, <3>2 DEF AcquireCold
  <2>3. CASE BuildFailed(h, e)
    BY <2>3 DEF BuildFailed
  <2>4. CASE Release(h, e) \/ GivesUp(h, e)
    <3>1. PICK v \in SUBSET Evictable(warm, inUse', {}) :
            /\ warm' = warm \ v
            /\ closing' = closing \cup {f \in v : build[f] = "ok"}
      BY <2>4, EvictShape DEF Release, GivesUp, ReleaseConn
    <3>2. \A f \in v : Ready(f)
      BY <3>1, EvictedIsIdle
    <3>3. build' = build /\ closed' = closed
      BY <2>4 DEF Release, GivesUp
    <3> QED  BY <3>1, <3>2, <3>3
  <2> QED  BY <1>1, <2>1, <2>2, <2>3, <2>4 DEF HopStep
<1>2. ASSUME NEW e \in Entries, BuildEnds(e) \/ CloseConn(e) PROVE OpenIsOwned'
  BY <1>2 DEF BuildEnds, CloseConn
<1>3. ASSUME NEW use \in {"unused", "in_use"}, Close(use) PROVE OpenIsOwned'
  BY <1>3 DEF Close
<1>4. CASE UNCHANGED vars
  BY <1>4 DEF vars
<1> QED  BY <1>1, <1>2, <1>3, <1>4 DEF Next

\* OpenIsOwned: whatever is evicted, retired or given up on while it is being
\* built, a connection that was opened is in the map, on its way out, or closed
\* (evictForCapacityLocked, Close, closeConn).
THEOREM OpenOwned == Spec => []OpenIsOwned
<1>1. Init => OpenIsOwned
  BY DEF Init, OpenIsOwned
<1>2. TypeOK /\ OpenIsOwned /\ [Next]_vars => OpenIsOwned'
  BY OwnedStep
<1> QED  BY <1>1, <1>2, CacheTypeCorrect, PTL DEF Spec

-----------------------------------------------------------------------------
(* The map goes back to its capacity.                                      *)

\* An entry that is being built is waited for, unless a hop gave up on it.
BuildsAreAwaited ==
  retired = "no" => \A e \in warm \ abandoned : build[e] = "running" => OnEntry(e) # {}

\* Over its capacity, the map has nothing that eviction could take, except what
\* was given up on while it was being built.
Trimmed ==
  retired = "no" /\ Cardinality(warm \ abandoned) > MaxWarm =>
    \A e \in warm \ abandoned : inUse[e] > 0 \/ ~Ready(e)

BoundInv == IsFiniteSet(warm) /\ BuildsAreAwaited /\ Trimmed

\* Eviction stops at the capacity, or when it has taken whatever it may.
LEMMA EvictTrims ==
  ASSUME NEW S, IsFiniteSet(S), NEW uses \in [Entries -> Int], S \subseteq Entries,
         NEW keep, NEW gone, Evict(S, uses, keep)
  PROVE  /\ IsFiniteSet(warm')
         /\ Cardinality(warm' \ gone) > MaxWarm =>
              \A e \in warm' \ keep : uses[e] > 0 \/ ~Ready(e)
<1>1. PICK v \in Victims(S, uses, keep) : warm' = S \ v
  BY DEF Evict
<1>2. IsFiniteSet(warm') /\ Cardinality(warm') \in Nat
  BY <1>1, FS_Subset, FS_CardinalityType
<1>3. /\ warm' \ gone \subseteq warm'
      /\ Cardinality(warm' \ gone) \in Nat
      /\ Cardinality(warm' \ gone) <= Cardinality(warm')
  BY <1>2, FS_Subset, FS_CardinalityType
<1>4. Cardinality(warm' \ gone) > MaxWarm => Cardinality(S \ v) > MaxWarm
  BY <1>1, <1>2, <1>3, ConnCacheAssumption
<1>5. Cardinality(S \ v) > MaxWarm => v = Evictable(S, uses, keep)
  <2>1. CASE Cardinality(S) < MaxWarm /\ v = {}
    <3>1. S \ v = S
      BY <2>1
    <3> QED  BY <1>1, <1>2, <2>1, <3>1, ConnCacheAssumption
  <2>2. CASE Cardinality(S \ v) = MaxWarm
    BY <2>2, ConnCacheAssumption
  <2> QED  BY <1>1, <2>1, <2>2 DEF Victims
<1>6. v = Evictable(S, uses, keep) => \A e \in warm' \ keep : uses[e] > 0 \/ ~Ready(e)
  BY <1>1 DEF Evictable
<1> QED  BY <1>2, <1>4, <1>5, <1>6

\* A hop that leaves by releaseConn trims the map.
LEMMA ReleaseTrims ==
  ASSUME CacheInv, BoundInv, NEW e \in Entries, ReleaseConn(e.ds), UNCHANGED <<build, retired>>,
         abandoned \subseteq abandoned'
  PROVE  IsFiniteSet(warm') /\ Trimmed'
<1>1. inUse' \in [Entries -> Int] /\ inUse' = Released(e.ds)
  BY ReleasedType DEF ReleaseConn, CacheInv
<1>2. warm \subseteq Entries /\ IsFiniteSet(warm) /\ Evict(warm, inUse', {})
  BY DEF ReleaseConn, CacheInv, TypeOK, BoundInv
<1>3. /\ IsFiniteSet(warm')
      /\ Cardinality(warm' \ abandoned') > MaxWarm =>
           \A f \in warm' \ {} : inUse'[f] > 0 \/ ~Ready(f)
  BY <1>1, <1>2, EvictTrims
<1> QED  BY <1>3 DEF Trimmed

\* A smaller map that keeps its counts and its builds stays trimmed.
LEMMA SmallerIsTrimmed ==
  ASSUME BoundInv, retired' = "no" => retired = "no", warm' \subseteq warm,
         abandoned' = abandoned,
         \A e \in warm' \ abandoned : inUse[e] > 0 \/ ~Ready(e)
                                       => inUse'[e] > 0 \/ ~Ready(e)'
  PROVE  IsFiniteSet(warm') /\ Trimmed'
<1>1. IsFiniteSet(warm') /\ IsFiniteSet(warm \ abandoned)
  BY FS_Subset DEF BoundInv
<1>2. warm' \ abandoned' \subseteq warm \ abandoned
  OBVIOUS
<1>3. /\ Cardinality(warm' \ abandoned') <= Cardinality(warm \ abandoned)
      /\ Cardinality(warm \ abandoned) \in Nat
      /\ Cardinality(warm' \ abandoned') \in Nat
  BY <1>1, <1>2, FS_Subset, FS_CardinalityType
<1>4. Cardinality(warm' \ abandoned') > MaxWarm => Cardinality(warm \ abandoned) > MaxWarm
  BY <1>3, ConnCacheAssumption
<1> QED  BY <1>1, <1>2, <1>4 DEF BoundInv, Trimmed

\* The bound is kept by every step, under the counts that CacheInv has exact.
LEMMA BoundStep == ASSUME CacheInv, CacheInv', BoundInv, [Next]_vars PROVE BoundInv'
<1>0. /\ inUse \in [Entries -> Int] /\ warm \subseteq Entries
      /\ build \in [Entries -> {"none", "running", "ok", "failed"}]
  BY DEF CacheInv, TypeOK
<1>1. ASSUME NEW h \in Hops, NEW e \in Entries, AcquireWarm(h, e) PROVE BoundInv'
  <2>1. IsFiniteSet(warm') /\ Trimmed'
    BY <1>0, <1>1, SmallerIsTrimmed DEF AcquireWarm
  <2>2. BuildsAreAwaited'
    BY <1>1 DEF AcquireWarm, BoundInv, BuildsAreAwaited, OnEntry
  <2> QED  BY <2>1, <2>2 DEF BoundInv
<1>2. ASSUME NEW h \in Hops, NEW e \in Entries, AcquireCold(h, e) PROVE BoundInv'
  <2>1. /\ inUse' \in [Entries -> Int] /\ warm \cup {e} \subseteq Entries
        /\ IsFiniteSet(warm \cup {e}) /\ Evict(warm \cup {e}, inUse', {e})
    BY <1>0, <1>2, FS_AddElement DEF AcquireCold, BoundInv
  <2>2. /\ IsFiniteSet(warm')
        /\ Cardinality(warm' \ abandoned') > MaxWarm =>
             \A f \in warm' \ {e} : inUse'[f] > 0 \/ ~Ready(f)
    BY <2>1, EvictTrims
  <2>3. warm' \subseteq warm \cup {e} /\ build' = [build EXCEPT ![e] = "running"]
    BY <1>2, EvictShape DEF AcquireCold
  <2>4. Trimmed'
    BY <1>0, <2>2, <2>3 DEF Trimmed
  <2>5. BuildsAreAwaited'
    BY <1>0, <1>2, <2>3 DEF AcquireCold, BoundInv, BuildsAreAwaited, OnEntry
  <2> QED  BY <2>2, <2>4, <2>5 DEF BoundInv
<1>3. ASSUME NEW h \in Hops, NEW e \in Entries, Served(h, e) PROVE BoundInv'
  <2>1. IsFiniteSet(warm') /\ Trimmed'
    BY <1>3, SmallerIsTrimmed DEF Served
  <2>2. BuildsAreAwaited'
    BY <1>3 DEF Served, BoundInv, BuildsAreAwaited, OnEntry
  <2> QED  BY <2>1, <2>2 DEF BoundInv
<1>4. ASSUME NEW h \in Hops, NEW e \in Entries, BuildFailed(h, e) PROVE BoundInv'
  <2>1. CASE retired = "no"
    <3>1. e \in warm
      BY <1>4, <2>1 DEF BuildFailed, CacheInv, Placed
    <3>2. inUse[e] = Cardinality(OnEntry(e)) /\ OnEntry(e) # {}
      BY <1>4, <2>1, <3>1 DEF BuildFailed, CacheInv, CountsAreReservations, OnEntry
    <3>3. inUse[e] > 0
      BY <3>2, OnEntryFinite
    <3>4. \A f \in warm' \ abandoned : inUse[f] > 0 \/ ~Ready(f)
                                       => inUse'[f] > 0 \/ ~Ready(f)'
      BY <1>0, <1>4, <3>3 DEF BuildFailed
    <3>5. IsFiniteSet(warm') /\ Trimmed'
      BY <1>4, <3>4, SmallerIsTrimmed DEF BuildFailed
    <3>6. BuildsAreAwaited'
      BY <1>4 DEF BuildFailed, BoundInv, BuildsAreAwaited, OnEntry
    <3> QED  BY <3>5, <3>6 DEF BoundInv
  <2>2. CASE retired # "no"
    <3>1. IsFiniteSet(warm') /\ retired' # "no"
      BY <1>4, <2>2, FS_Subset DEF BuildFailed, BoundInv
    <3> QED  BY <3>1 DEF BoundInv, BuildsAreAwaited, Trimmed
  <2> QED  BY <2>1, <2>2
<1>5. ASSUME NEW h \in Hops, NEW e \in Entries, Release(h, e) \/ GivesUp(h, e) PROVE BoundInv'
  <2>1. /\ ReleaseConn(e.ds) /\ UNCHANGED <<build, retired>> /\ abandoned \subseteq abandoned'
        /\ warm' \subseteq warm
    BY <1>5, EvictShape DEF Release, GivesUp, ReleaseConn
  <2>2. IsFiniteSet(warm') /\ Trimmed'
    BY <2>1, ReleaseTrims
  <2>3. BuildsAreAwaited'
    <3> SUFFICES ASSUME retired = "no", NEW f \in warm' \ abandoned', build[f] = "running"
                 PROVE  OnEntry(f)' # {}
      BY <2>1 DEF BuildsAreAwaited
    <3>1. OnEntry(f) # {}
      BY <2>1 DEF BoundInv, BuildsAreAwaited
    <3>2. f # e
      BY <1>5 DEF Release, GivesUp, CacheInv, HeldIsBuilt
    <3> QED  BY <1>5, <3>1, <3>2 DEF Release, GivesUp, OnEntry
  <2> QED  BY <2>2, <2>3 DEF BoundInv
<1>6. ASSUME NEW e \in Entries, BuildEnds(e) PROVE BoundInv'
  <2>1. e \in warm \ abandoned /\ retired = "no" => inUse[e] > 0
    BY <1>6, OnEntryFinite DEF BuildEnds, BoundInv, BuildsAreAwaited, CacheInv, CountsAreReservations
  <2>2. \A f \in Entries : f # e => build'[f] = build[f]
    BY <1>0, <1>6 DEF BuildEnds
  <2>3. UNCHANGED <<warm, inUse, waiting, holding, retired, abandoned>> /\ build'[e] # "running"
    BY <1>0, <1>6 DEF BuildEnds, hopVars
  <2>4. Trimmed'
    BY <1>0, <2>1, <2>2, <2>3 DEF BoundInv, Trimmed
  <2>5. BuildsAreAwaited'
    BY <1>0, <2>2, <2>3 DEF BoundInv, BuildsAreAwaited, OnEntry
  <2> QED  BY <2>3, <2>4, <2>5 DEF BoundInv
<1>7. ASSUME NEW e \in Entries, CloseConn(e) PROVE BoundInv'
  <2>1. IsFiniteSet(warm') /\ Trimmed'
    BY <1>7, SmallerIsTrimmed DEF CloseConn
  <2>2. BuildsAreAwaited'
    BY <1>7 DEF CloseConn, hopVars, BoundInv, BuildsAreAwaited, OnEntry
  <2> QED  BY <2>1, <2>2 DEF BoundInv
<1>8. ASSUME NEW use \in {"unused", "in_use"}, Close(use) PROVE BoundInv'
  BY <1>8, FS_EmptySet DEF Close, BoundInv, BuildsAreAwaited, Trimmed
<1>9. CASE UNCHANGED vars
  <2>1. IsFiniteSet(warm') /\ Trimmed'
    BY <1>9, SmallerIsTrimmed DEF vars
  <2>2. BuildsAreAwaited'
    BY <1>9 DEF vars, hopVars, BoundInv, BuildsAreAwaited, OnEntry
  <2> QED  BY <2>1, <2>2 DEF BoundInv
<1> QED
  BY <1>1, <1>2, <1>3, <1>4, <1>5, <1>6, <1>7, <1>8, <1>9 DEF Next, HopStep

\* WarmIsBounded: whatever hops, builds and evictions did, a cache at rest is
\* back at its capacity, but for the builds its hops gave up on (releaseConn,
\* evictForCapacityLocked).
THEOREM CacheIsBounded == Spec => []WarmIsBounded
<1>1. Init => BoundInv
  BY FS_EmptySet DEF Init, BoundInv, BuildsAreAwaited, Trimmed
<1>2. CacheInv /\ CacheInv' /\ BoundInv /\ [Next]_vars => BoundInv'
  BY BoundStep
<1>3. CacheInv /\ BoundInv => WarmIsBounded
  <2> SUFFICES ASSUME CacheInv, BoundInv, AtRest, retired = "no",
                      ~(Cardinality(warm \ abandoned) <= MaxWarm)
               PROVE  FALSE
    BY DEF WarmIsBounded
  <2>1. IsFiniteSet(warm \ abandoned) /\ Cardinality(warm \ abandoned) \in Nat
    BY FS_Subset, FS_CardinalityType DEF BoundInv
  <2>2. Cardinality(warm \ abandoned) > MaxWarm /\ MaxWarm > 0
    BY <2>1, ConnCacheAssumption
  <2>3. PICK e \in warm \ abandoned : TRUE
    <3>1. warm \ abandoned # {}
      BY <2>1, <2>2, FS_EmptySet, ConnCacheAssumption
    <3> QED  BY <3>1
  <2>4. inUse[e] > 0
    BY <2>2 DEF BoundInv, Trimmed, AtRest
  <2>5. e \in Entries /\ inUse[e] = Cardinality(OnEntry(e))
    BY DEF CacheInv, TypeOK, CountsAreReservations
  <2>6. OnEntry(e) = {}
    BY <2>5 DEF AtRest, Idle, OnEntry
  <2> QED  BY <2>4, <2>5, <2>6, FS_EmptySet
<1> QED  BY <1>1, <1>2, <1>3, CacheInvariant, PTL DEF Spec

-----------------------------------------------------------------------------
(* The cache implements SharedHandles.                                     *)

handleBar == [e \in Entries |-> IF e \in closed THEN "closed"
                                ELSE IF build[e] = "ok" THEN "open"
                                ELSE "unopened"]

\* Every step of the cache is one of SharedHandles, or a stutter.
LEMMA HandlesStep ==
  ASSUME CacheInv, [Next]_vars
  PROVE  [Handles!HandlesNext]_(Handles!handleVars)
<1> USE DEF Handles!HandlesNext, Handles!handleVars, CacheInv, TypeOK
<1> SUFFICES ASSUME ~UNCHANGED <<handleBar, holding, retired = "in_use">>
             PROVE  Handles!HandlesNext
  BY DEF handleBar
<1>1. ASSUME NEW h \in Hops, NEW e \in Entries, HopStep(h, e)
      PROVE  Handles!HandlesNext
  <2>1. CASE AcquireWarm(h, e)
    BY <2>1 DEF AcquireWarm, handleBar
  <2>2. CASE AcquireCold(h, e)
    <3>1. build' = [build EXCEPT ![e] = "running"] /\ build[e] = "none"
      BY <2>2 DEF AcquireCold, Fresh
    <3> QED  BY <2>2, <3>1 DEF AcquireCold, handleBar
  <2>3. CASE BuildFailed(h, e)
    BY <2>3 DEF BuildFailed, handleBar
  <2>4. CASE GivesUp(h, e)
    BY <2>4 DEF GivesUp, handleBar
  <2>5. CASE Served(h, e)
    <3>1. build[e] = "ok" /\ (retired = "in_use" \/ e \notin closed)
      BY <2>5 DEF Served, Placed, Apart
    <3>2. Handles!Takes(h, e)
      BY <2>5, <3>1 DEF Served, Handles!Takes
    <3> QED  BY <3>2
  <2>6. CASE Release(h, e)
    <3>1. Handles!Returns(h, e)
      BY <2>6 DEF Release, Handles!Returns
    <3> QED  BY <3>1
  <2> QED  BY <1>1, <2>1, <2>2, <2>3, <2>4, <2>5, <2>6 DEF HopStep
<1>2. ASSUME NEW e \in Entries, BuildEnds(e) PROVE Handles!HandlesNext
  <2>1. e \notin closed /\ build[e] = "running"
    BY <1>2 DEF BuildEnds, Apart
  <2>2. PICK result \in {"ok", "failed"} : build' = [build EXCEPT ![e] = result]
    BY <1>2 DEF BuildEnds
  <2>3. CASE result = "failed"
    BY <1>2, <2>1, <2>2, <2>3 DEF BuildEnds, hopVars, handleBar
  <2>4. CASE result = "ok"
    <3>1. handleBar' = [handleBar EXCEPT ![e] = "open"]
      BY <1>2, <2>1, <2>2, <2>4 DEF BuildEnds, hopVars, handleBar
    <3>2. Handles!Opens(e)
      BY <1>2, <2>1, <3>1 DEF BuildEnds, hopVars, handleBar, Handles!Opens
    <3> QED  BY <3>2
  <2> QED  BY <2>3, <2>4
<1>3. ASSUME NEW e \in Entries, CloseConn(e) PROVE Handles!HandlesNext
  <2>1. /\ e \notin closed /\ e \notin warm
        /\ UNCHANGED <<holding, build, retired>>
    BY <1>3 DEF CloseConn, hopVars, Apart
  <2>2. build[e] = "ok" /\ closed' = closed \cup {e}
    BY <1>3, <2>1 DEF CloseConn, handleBar
  <2>3. retired = "in_use" \/ \A u \in Hops : <<u, e>> \notin holding
    BY <2>1 DEF Placed
  <2>4. handleBar' = [handleBar EXCEPT ![e] = "closed"]
    BY <2>1, <2>2 DEF handleBar
  <2>5. Handles!Closes(e)
    BY <2>1, <2>2, <2>3, <2>4 DEF handleBar, Handles!Closes
  <2> QED  BY <2>5
<1>4. ASSUME NEW use \in {"unused", "in_use"}, Close(use)
      PROVE  Handles!HandlesNext
  <2>1. Handles!ShutsDown
    BY <1>4 DEF Close, hopVars, handleBar, Handles!ShutsDown
  <2> QED  BY <2>1
<1>5. CASE UNCHANGED vars
  BY <1>5 DEF vars, hopVars, handleBar
<1> QED  BY <1>1, <1>2, <1>3, <1>4, <1>5 DEF Next

\* A runtime's connections are shared handles: each is opened once, taken only
\* while it is open, and closed once, when no hop has it, unless the runtime
\* itself is closed under running turns.
THEOREM CacheImplementsHandles == Spec => ImplementsSharedHandles
<1>1. Init => Handles!HandlesInit
  BY DEF Init, Handles!HandlesInit
<1>2. CacheInv /\ [Next]_vars => [Handles!HandlesNext]_(Handles!handleVars)
  BY HandlesStep
<1> QED  BY <1>1, <1>2, CacheInvariant, PTL
         DEF Spec, ImplementsSharedHandles, Handles!HandlesSpec

=============================================================================
