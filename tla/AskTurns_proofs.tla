--------------------------- MODULE AskTurns_proofs ---------------------------
(***************************************************************************)
(* For any number of requests, turns, slots and failed round trips: the    *)
(* slots taken are those of the requests that have them (SlotsAreTaken), a *)
(* turn keeps its one outcome (TerminalIsFinal), and has at most one       *)
(* message, none after a sweep (MessageIsTheOutcomes).                     *)
(*                                                                         *)
(* The last two rest on who may append: a request that is about to is the  *)
(* only one for its turn, has claimed it, and nothing has been appended    *)
(* yet (Claimants).                                                        *)
(*                                                                         *)
(* At the end, of the pool of runtimes those requests share (AskPool):     *)
(* until shutdown no runtime built is lost, and no entry is counted in use *)
(* by more turns than have it.  That a turn's runtime stays open cannot be *)
(* proved: it may be evicted between being found and being reserved        *)
(* (pool.go:65).                                                           *)
(***************************************************************************)
EXTENDS AskTurns, AskPool, FiniteSetTheorems, TLAPS

USE AskTurnsAssumption, AskPoolAssumption

Unended == \A t \in Turns : status[t] = "ended" <=> endedBy[t] # "none"

Claimants ==
  \A j \in Requests : At(j, "appending") =>
    /\ endedBy[turn[j]] = "request"
    /\ messages[turn[j]] = 0
    /\ \A i \in Requests : At(i, "appending") /\ turn[i] = turn[j] => i = j

-----------------------------------------------------------------------------
(* Requests and their turns.                                               *)

\* A request in the server has a turn.
LEMMA HasTurn ==
  ASSUME TypeOK, NEW j \in Requests, ~At(j, "none")
  PROVE  turn[j] \in Turns
BY DEF TypeOK

\* An idle request's place is not a turn.
LEMMA NoTurnIsNoTurn == NoTurn \notin Turns
BY NoTurnIsNone DEF NoTurn, Turns

\* A request that moves on keeps its turn, if it had one.
LEMMA MoveTypes ==
  ASSUME TypeOK, NEW j \in Requests, ~At(j, "none"),
         NEW place \in Places, place # "none", Moves(j, place), turn' = turn
  PROVE  /\ pc' \in [Requests -> Places]
         /\ turn' \in [Requests -> Turns \cup {NoTurn}]
         /\ \A i \in Requests : turn'[i] = NoTurn <=> At(i, "none")'
BY DEF TypeOK, Moves, At

\* A request that leaves has none.
LEMMA LeaveTypes ==
  ASSUME TypeOK, NEW j \in Requests, Leaves(j)
  PROVE  /\ pc' \in [Requests -> Places]
         /\ turn' \in [Requests -> Turns \cup {NoTurn}]
         /\ \A i \in Requests : turn'[i] = NoTurn <=> At(i, "none")'
<1>1. /\ pc' = [pc EXCEPT ![j] = "none"]
      /\ turn' = [turn EXCEPT ![j] = NoTurn]
  BY DEF Leaves, Moves
<1>2. "none" \in Places
  BY DEF Places
<1> QED  BY <1>1, <1>2 DEF TypeOK, At

-----------------------------------------------------------------------------
(* Slots.                                                                  *)

GlobalHolders == {j \in Requests : HoldsGlobal(j)}
ProjectHolders(p) == {j \in Requests : HoldsProject(j, p)}

\* Cardinality means something for sets of requests, and counts.
LEMMA Counts ==
  ASSUME NEW S \in SUBSET Requests, NEW j \in Requests
  PROVE  /\ Cardinality(S) \in Nat
         /\ j \notin S => Cardinality(S \cup {j}) = Cardinality(S) + 1
         /\ j \in S => /\ Cardinality(S \ {j}) = Cardinality(S) - 1
                       /\ Cardinality(S) > 0
<1>1. IsFiniteSet(S)
  BY FS_Subset
<1>2. Cardinality(S) \in Nat
  BY <1>1, FS_CardinalityType
<1>3. j \notin S => Cardinality(S \cup {j}) = Cardinality(S) + 1
  BY <1>1, FS_AddElement
<1>4. j \in S => Cardinality(S \ {j}) = Cardinality(S) - 1
  BY <1>1, FS_RemoveElement
<1>5. j \in S => Cardinality(S) # 0
  BY <1>1, FS_EmptySet
<1> QED  BY <1>2, <1>3, <1>4, <1>5

Has == {"accepted", "working", "appending", "unreserving"}

\* A step of one request between places that have the same slots.
LEMMA SlotsKept ==
  ASSUME TypeOK, SlotsAreTaken, NEW j \in Requests,
         NEW place \in Places, place # "none", ~At(j, "none"),
         Moves(j, place), UNCHANGED <<turn, slots>>,
         pc[j] \in Has <=> place \in Has
  PROVE  SlotsAreTaken'
<1>1. GlobalHolders' = GlobalHolders
  BY DEF TypeOK, Moves, At, GlobalHolders, HoldsGlobal
<1>2. \A p \in Projects : ProjectHolders(p)' = ProjectHolders(p)
  BY DEF TypeOK, Moves, At, ProjectHolders, HoldsProject, Has
<1> QED  BY <1>1, <1>2 DEF SlotsAreTaken, GlobalHolders, ProjectHolders, slots

\* Every step of a request leaves the slots taken by those that have them.
LEMMA RequestSlots ==
  ASSUME TypeOK, SlotsAreTaken, NEW j \in Requests, RequestStep(j)
  PROVE  SlotsAreTaken'
<1> USE DEF At
<1>1. CASE Accepted(j)
  <2>1. /\ pc' = [pc EXCEPT ![j] = "accepted"] /\ pc[j] = "reserving"
        /\ UNCHANGED <<turn, globalSem>>
        /\ projSem' = [projSem EXCEPT ![turn[j].project] = @ + 1]
    BY <1>1 DEF Accepted, Moves
  <2>2. turn[j].project \in Projects
    BY <2>1, HasTurn DEF Turns
  <2>3. GlobalHolders' = GlobalHolders
    BY <2>1 DEF TypeOK, GlobalHolders, HoldsGlobal
  <2>4. ProjectHolders(turn[j].project)' = ProjectHolders(turn[j].project) \cup {j}
    BY <2>1, <2>2 DEF TypeOK, ProjectHolders, HoldsProject
  <2>5. j \notin ProjectHolders(turn[j].project)
    BY <2>1 DEF ProjectHolders, HoldsProject
  <2>6. \A p \in Projects : p # turn[j].project
                               => ProjectHolders(p)' = ProjectHolders(p)
    BY <2>1 DEF TypeOK, ProjectHolders, HoldsProject
  <2>7. ProjectHolders(turn[j].project) \in SUBSET Requests
    BY DEF ProjectHolders
  <2>8. projSem'[turn[j].project] = Cardinality(ProjectHolders(turn[j].project)')
    BY <2>1, <2>2, <2>4, <2>5, <2>7, Counts
       DEF TypeOK, SlotsAreTaken, ProjectHolders
  <2> QED  BY <2>1, <2>2, <2>3, <2>6, <2>8
           DEF TypeOK, SlotsAreTaken, GlobalHolders, ProjectHolders
<1>2. CASE ProjectFull(j)
  <2>1. pc[j] = "reserving" /\ Moves(j, "refusing") /\ UNCHANGED <<turn, slots>>
    BY <1>2 DEF ProjectFull
  <2> QED  BY <2>1, SlotsKept DEF Has, Places
<1>3. CASE Refused(j)
  <2>1. /\ pc' = [pc EXCEPT ![j] = "none"] /\ pc[j] = "refusing"
        /\ turn' = [turn EXCEPT ![j] = NoTurn]
        /\ globalSem' = globalSem - 1 /\ projSem' = projSem
    BY <1>3 DEF Refused, Leaves, Moves
  <2>2. GlobalHolders' = GlobalHolders \ {j} /\ j \in GlobalHolders
    BY <2>1 DEF TypeOK, GlobalHolders, HoldsGlobal
  <2>3. \A p \in Projects : ProjectHolders(p)' = ProjectHolders(p)
    BY <2>1 DEF TypeOK, ProjectHolders, HoldsProject
  <2>4. GlobalHolders \in SUBSET Requests
    BY DEF GlobalHolders
  <2>5. globalSem' = Cardinality(GlobalHolders')
    BY <2>1, <2>2, <2>4, Counts DEF SlotsAreTaken, GlobalHolders
  <2> QED  BY <2>1, <2>3, <2>5 DEF SlotsAreTaken, GlobalHolders, ProjectHolders
<1>4. CASE EnsureTurn(j)
  <2>1. pc[j] = "accepted" /\ Moves(j, "working") /\ UNCHANGED <<turn, slots>>
    BY <1>4 DEF EnsureTurn
  <2> QED  BY <2>1, SlotsKept DEF Has, Places
<1>5. CASE Finalize(j)
  <2>1. /\ pc[j] = "working" /\ UNCHANGED <<turn, slots>>
        /\ Moves(j, "appending") \/ Moves(j, "unreserving")
    BY <1>5 DEF Finalize
  <2> QED  BY <2>1, SlotsKept DEF Has, Places
<1>6. CASE AppendMessage(j)
  <2>1. /\ pc[j] = "appending" /\ Moves(j, "unreserving")
        /\ UNCHANGED <<turn, slots>>
    BY <1>6 DEF AppendMessage
  <2> QED  BY <2>1, SlotsKept DEF Has, Places
<1>7. CASE UnreserveProject(j)
  <2>1. /\ pc' = [pc EXCEPT ![j] = "unreserved"] /\ pc[j] = "unreserving"
        /\ UNCHANGED <<turn, globalSem>>
        /\ projSem' = [projSem EXCEPT ![turn[j].project] = @ - 1]
    BY <1>7 DEF UnreserveProject, Moves
  <2>2. turn[j].project \in Projects
    BY <2>1, HasTurn DEF Turns
  <2>3. GlobalHolders' = GlobalHolders
    BY <2>1 DEF TypeOK, GlobalHolders, HoldsGlobal
  <2>4. /\ ProjectHolders(turn[j].project)'
            = ProjectHolders(turn[j].project) \ {j}
        /\ j \in ProjectHolders(turn[j].project)
    BY <2>1, <2>2 DEF TypeOK, ProjectHolders, HoldsProject
  <2>5. \A p \in Projects : p # turn[j].project
                               => ProjectHolders(p)' = ProjectHolders(p)
    BY <2>1 DEF TypeOK, ProjectHolders, HoldsProject
  <2>6. ProjectHolders(turn[j].project) \in SUBSET Requests
    BY DEF ProjectHolders
  <2>7. projSem'[turn[j].project] = Cardinality(ProjectHolders(turn[j].project)')
    BY <2>1, <2>2, <2>4, <2>6, Counts DEF TypeOK, SlotsAreTaken, ProjectHolders
  <2> QED  BY <2>1, <2>2, <2>3, <2>5, <2>7
           DEF TypeOK, SlotsAreTaken, GlobalHolders, ProjectHolders
<1>8. CASE UnreserveGlobal(j)
  <2>1. /\ pc' = [pc EXCEPT ![j] = "none"] /\ pc[j] = "unreserved"
        /\ turn' = [turn EXCEPT ![j] = NoTurn]
        /\ globalSem' = globalSem - 1 /\ projSem' = projSem
    BY <1>8 DEF UnreserveGlobal, Leaves, Moves
  <2>2. GlobalHolders' = GlobalHolders \ {j} /\ j \in GlobalHolders
    BY <2>1 DEF TypeOK, GlobalHolders, HoldsGlobal
  <2>3. \A p \in Projects : ProjectHolders(p)' = ProjectHolders(p)
    BY <2>1 DEF TypeOK, ProjectHolders, HoldsProject
  <2>4. GlobalHolders \in SUBSET Requests
    BY DEF GlobalHolders
  <2>5. globalSem' = Cardinality(GlobalHolders')
    BY <2>1, <2>2, <2>4, Counts DEF SlotsAreTaken, GlobalHolders
  <2> QED  BY <2>1, <2>3, <2>5 DEF SlotsAreTaken, GlobalHolders, ProjectHolders
<1> QED  BY <1>1, <1>2, <1>3, <1>4, <1>5, <1>6, <1>7, <1>8 DEF RequestStep

\* An arrival takes a global slot.
LEMMA ArrivalSlots ==
  ASSUME TypeOK, SlotsAreTaken, NEW j \in Requests, NEW t \in Turns, Arrives(j, t)
  PROVE  SlotsAreTaken'
<1>1. /\ pc' = [pc EXCEPT ![j] = "reserving"] /\ pc[j] = "none"
      /\ turn' = [turn EXCEPT ![j] = t]
      /\ globalSem' = globalSem + 1 /\ projSem' = projSem
  BY DEF Arrives, Moves, At
<1>2. GlobalHolders' = GlobalHolders \cup {j} /\ j \notin GlobalHolders
  BY <1>1 DEF TypeOK, GlobalHolders, HoldsGlobal, At
<1>3. \A p \in Projects : ProjectHolders(p)' = ProjectHolders(p)
  BY <1>1 DEF TypeOK, ProjectHolders, HoldsProject
<1>4. GlobalHolders \in SUBSET Requests
  BY DEF GlobalHolders
<1>5. globalSem' = Cardinality(GlobalHolders')
  BY <1>1, <1>2, <1>4, Counts DEF SlotsAreTaken, GlobalHolders
<1> QED  BY <1>1, <1>3, <1>5 DEF SlotsAreTaken, GlobalHolders, ProjectHolders

\* A process that is gone has no requests and no slots taken.
LEMMA GoneSlots == ASSUME Gone PROVE SlotsAreTaken'
<1>1. GlobalHolders' = {}
  BY DEF Gone, GlobalHolders, HoldsGlobal, At
<1>2. \A p \in Projects : ProjectHolders(p)' = {}
  BY DEF Gone, ProjectHolders, HoldsProject
<1>3. Cardinality({}) = 0
  BY FS_EmptySet
<1> QED  BY <1>1, <1>2, <1>3
         DEF Gone, SlotsAreTaken, GlobalHolders, ProjectHolders

\* Every step leaves the slots taken by those that have them.
LEMMA SlotsStep ==
  ASSUME TypeOK, SlotsAreTaken, [Next]_vars PROVE SlotsAreTaken'
<1>1. ASSUME UNCHANGED <<pc, turn, slots>> PROVE SlotsAreTaken'
  BY <1>1 DEF SlotsAreTaken, HoldsGlobal, HoldsProject, At, slots
<1>2. CASE \E t \in Turns : CallerCreates(t)
  BY <1>1, <1>2 DEF CallerCreates
<1>3. CASE Boots \/ Terminates \/ CancelsTurns \/ ShutdownSweeps
  BY <1>1, <1>3 DEF Boots, Terminates, CancelsTurns, ShutdownSweeps
<1>4. CASE Exits \/ Crashes
  BY <1>4, GoneSlots DEF Exits, Crashes
<1>5. CASE UNCHANGED vars
  BY <1>1, <1>5 DEF vars
<1>6. CASE \E j \in Requests : RequestStep(j)
  BY <1>6, RequestSlots
<1>7. CASE \E j \in Requests, t \in Turns : Arrives(j, t)
  BY <1>7, ArrivalSlots
<1> QED  BY <1>2, <1>3, <1>4, <1>5, <1>6, <1>7 DEF Next

-----------------------------------------------------------------------------
(* Types.                                                                  *)

\* What is left of the type invariant for a step that leaves some of it alone.
DocumentTypes == /\ status \in [Turns -> {"absent", "running", "ended"}]
                 /\ endedBy \in [Turns -> {"none", "request", "sweep"}]
                 /\ messages \in [Turns -> Nat]

RequestTypes ==
  /\ pc \in [Requests -> Places]
  /\ turn \in [Requests -> Turns \cup {NoTurn}]
  /\ \A j \in Requests : turn[j] = NoTurn <=> At(j, "none")

SlotTypes == /\ globalSem \in 0..MaxConcurrentTurns
             /\ projSem \in [Projects -> 0..MaxConcurrentPerProject]

ServerTypes == /\ server \in {"down", "up", "draining", "cancelled", "swept"}
               /\ faults \in 0..MaxFaults

\* The four make the type invariant.
LEMMA TypesSplit ==
  TypeOK <=> DocumentTypes /\ RequestTypes /\ SlotTypes /\ ServerTypes
BY DEF TypeOK, DocumentTypes, RequestTypes, SlotTypes, ServerTypes

\* The writes to a turn keep the documents' types.
LEMMA DocumentTypesStep ==
  ASSUME TypeOK, [Next]_vars PROVE DocumentTypes'
<1> USE DEF TypeOK, DocumentTypes, documents
<1>1. CASE \E t \in Turns : CallerCreates(t)
  BY <1>1 DEF CallerCreates
<1>2. CASE Boots \/ ShutdownSweeps
  <2>1. SweepOrphans /\ messages' = messages => DocumentTypes'
    BY DEF SweepOrphans
  <2> QED  BY <1>2, <2>1 DEF Boots, ShutdownSweeps, TriesSweep
<1>3. CASE Terminates \/ CancelsTurns \/ Exits \/ Crashes \/ UNCHANGED vars
  BY <1>3 DEF Terminates, CancelsTurns, Exits, Crashes, Gone, vars
<1>4. ASSUME NEW j \in Requests, RequestStep(j) PROVE DocumentTypes'
  <2>1. CASE Accepted(j) \/ ProjectFull(j) \/ Refused(j)
             \/ UnreserveProject(j) \/ UnreserveGlobal(j)
    BY <2>1 DEF Accepted, ProjectFull, Refused, UnreserveProject, UnreserveGlobal
  <2>2. CASE EnsureTurn(j)
    BY <2>2 DEF EnsureTurn, Ensured
  <2>3. CASE Finalize(j)
    BY <2>3 DEF Finalize, Claims
  <2>4. CASE AppendMessage(j)
    BY <2>4 DEF AppendMessage
  <2> QED  BY <1>4, <2>1, <2>2, <2>3, <2>4 DEF RequestStep
<1>5. CASE \E j \in Requests, t \in Turns : Arrives(j, t)
  BY <1>5 DEF Arrives
<1> QED  BY <1>1, <1>2, <1>3, <1>4, <1>5 DEF Next

\* Requests move from place to place and have a turn while they are in one.
LEMMA RequestTypesStep ==
  ASSUME TypeOK, [Next]_vars PROVE RequestTypes'
<1> USE DEF RequestTypes
<1>1. ASSUME UNCHANGED <<pc, turn>> PROVE RequestTypes'
  BY <1>1 DEF TypeOK, At
<1>2. CASE \E t \in Turns : CallerCreates(t)
  BY <1>1, <1>2 DEF CallerCreates
<1>3. CASE \/ Boots \/ Terminates \/ CancelsTurns \/ ShutdownSweeps
           \/ UNCHANGED vars
  BY <1>1, <1>3 DEF Boots, Terminates, CancelsTurns, ShutdownSweeps, vars
<1>4. CASE Exits \/ Crashes
  <2>1. /\ pc' = [j \in Requests |-> "none"]
        /\ turn' = [j \in Requests |-> NoTurn]
    BY <1>4 DEF Exits, Crashes, Gone
  <2> QED  BY <2>1 DEF At, Places
<1>5. ASSUME NEW j \in Requests, RequestStep(j) PROVE RequestTypes'
  <2>1. CASE Refused(j) \/ UnreserveGlobal(j)
    BY <2>1, LeaveTypes DEF Refused, UnreserveGlobal
  <2>2. CASE ~(Refused(j) \/ UnreserveGlobal(j))
    <3>1. /\ ~At(j, "none") /\ turn' = turn
          /\ \E place \in Places \ {"none"} : Moves(j, place)
      BY <1>5, <2>2 DEF RequestStep, Accepted, ProjectFull, EnsureTurn, Finalize,
                        AppendMessage, UnreserveProject, At, Places
    <3> QED  BY <3>1, MoveTypes
  <2> QED  BY <2>1, <2>2
<1>6. ASSUME NEW j \in Requests, NEW t \in Turns, Arrives(j, t)
      PROVE  RequestTypes'
  <2>1. /\ pc' = [pc EXCEPT ![j] = "reserving"]
        /\ turn' = [turn EXCEPT ![j] = t]
    BY <1>6 DEF Arrives, Moves
  <2>2. t # NoTurn /\ "reserving" \in Places
    BY NoTurnIsNoTurn DEF Places
  <2> QED  BY <2>1, <2>2 DEF TypeOK, At
<1> QED  BY <1>2, <1>3, <1>4, <1>5, <1>6 DEF Next

\* No more slots are taken than there are, and none is given back twice.
LEMMA SlotTypesStep ==
  ASSUME TypeOK, SlotsAreTaken, [Next]_vars PROVE SlotTypes'
<1> USE DEF SlotTypes
<1>1. /\ globalSem' \in Nat
      /\ \A p \in Projects : projSem'[p] \in Nat
  <2>1. SlotsAreTaken'
    BY SlotsStep
  <2>2. ASSUME NEW S \in SUBSET Requests PROVE Cardinality(S) \in Nat
    BY FS_Subset, FS_CardinalityType
  <2>3. {j \in Requests : HoldsGlobal(j)'} \in SUBSET Requests
    OBVIOUS
  <2>4. \A p \in Projects :
          {j \in Requests : HoldsProject(j, p)'} \in SUBSET Requests
    OBVIOUS
  <2> QED  BY <2>1, <2>2, <2>3, <2>4 DEF SlotsAreTaken
<1>2. ASSUME UNCHANGED slots PROVE SlotTypes'
  BY <1>2 DEF TypeOK, slots
<1>3. CASE \E t \in Turns : CallerCreates(t)
  BY <1>2, <1>3 DEF CallerCreates
<1>4. CASE \/ Boots \/ Terminates \/ CancelsTurns \/ ShutdownSweeps
           \/ UNCHANGED vars
  BY <1>2, <1>4 DEF Boots, Terminates, CancelsTurns, ShutdownSweeps, vars
<1>5. CASE Exits \/ Crashes
  BY <1>5 DEF Exits, Crashes, Gone
<1>6. ASSUME NEW j \in Requests, RequestStep(j) PROVE SlotTypes'
  <2>1. CASE ProjectFull(j) \/ EnsureTurn(j) \/ Finalize(j) \/ AppendMessage(j)
    BY <1>2, <2>1 DEF ProjectFull, EnsureTurn, Finalize, AppendMessage
  <2>2. CASE Refused(j) \/ UnreserveGlobal(j)
    BY <1>1, <2>2 DEF TypeOK, Refused, UnreserveGlobal
  <2>3. CASE Accepted(j) \/ UnreserveProject(j)
    <3>1. ~At(j, "none")
      BY <2>3 DEF Accepted, UnreserveProject, At
    <3>2. turn[j].project \in Projects
      BY <3>1, HasTurn DEF Turns
    <3> QED  BY <1>1, <2>3, <3>2 DEF TypeOK, Accepted, UnreserveProject
  <2> QED  BY <1>6, <2>1, <2>2, <2>3 DEF RequestStep
<1>7. CASE \E j \in Requests, t \in Turns : Arrives(j, t)
  BY <1>7 DEF TypeOK, Arrives
<1> QED  BY <1>3, <1>4, <1>5, <1>6, <1>7 DEF Next

\* The server's states and the count of faults.
LEMMA ServerTypesStep ==
  ASSUME TypeOK, [Next]_vars PROVE ServerTypes'
<1> USE DEF TypeOK, ServerTypes, Faulty
<1>1. CASE \E t \in Turns : CallerCreates(t)
  BY <1>1 DEF CallerCreates
<1>2. CASE Boots \/ Terminates \/ CancelsTurns \/ ShutdownSweeps
  BY <1>2 DEF Boots, Terminates, CancelsTurns, ShutdownSweeps, TriesSweep
<1>3. CASE Exits \/ Crashes \/ UNCHANGED vars
  BY <1>3 DEF Exits, Crashes, Gone, vars
<1>4. ASSUME NEW j \in Requests, RequestStep(j) PROVE ServerTypes'
  BY <1>4 DEF RequestStep, Accepted, ProjectFull, Refused, EnsureTurn, Finalize,
              AppendMessage, UnreserveProject, UnreserveGlobal
<1>5. CASE \E j \in Requests, t \in Turns : Arrives(j, t)
  BY <1>5 DEF Arrives
<1> QED  BY <1>1, <1>2, <1>3, <1>4, <1>5 DEF Next

-----------------------------------------------------------------------------
(* Outcomes and messages.                                                  *)

Outcomes == Unended /\ MessageIsTheOutcomes /\ Claimants

\* A step that leaves the outcomes alone and lets nobody append.
LEMMA OutcomesKept ==
  ASSUME TypeOK, Outcomes, UNCHANGED <<endedBy, messages>>,
         \A t \in Turns : status'[t] = "ended" <=> status[t] = "ended",
         \A i \in Requests : At(i, "appending")'
                             => At(i, "appending") /\ turn'[i] = turn[i]
  PROVE  Outcomes'
BY DEF Outcomes, Unended, MessageIsTheOutcomes, Claimants, At

\* A sweep ends no turn that a request has claimed.
LEMMA OutcomesSwept ==
  ASSUME TypeOK, Outcomes, SweepOrphans, UNCHANGED <<messages, pc, turn>>
  PROVE  Outcomes'
<1> USE DEF TypeOK, Outcomes
<1>1. Unended'
  BY DEF Unended, SweepOrphans
<1>2. MessageIsTheOutcomes'
  BY DEF MessageIsTheOutcomes, Unended, SweepOrphans
<1>3. ASSUME NEW j \in Requests, At(j, "appending")
      PROVE  endedBy'[turn[j]] = endedBy[turn[j]]
  <2>1. turn[j] \in Turns
    BY <1>3, HasTurn DEF At
  <2>2. status[turn[j]] = "ended"
    BY <1>3, <2>1 DEF Claimants, Unended
  <2> QED  BY <2>1, <2>2 DEF SweepOrphans
<1>4. Claimants'
  BY <1>3 DEF Claimants, At
<1> QED  BY <1>1, <1>2, <1>4

\* Only a turn nobody has ended is claimed, by a request that is then alone.
LEMMA OutcomesClaimed ==
  ASSUME TypeOK, Outcomes, NEW j \in Requests, At(j, "working"), Claims(j),
         NEW place \in Places, Moves(j, place), UNCHANGED <<messages, turn>>
  PROVE  Outcomes'
<1>1. turn[j] \in Turns
  BY HasTurn DEF At
<1>2. /\ status[turn[j]] = "running"
      /\ status' = [status EXCEPT ![turn[j]] = "ended"]
      /\ endedBy' = [endedBy EXCEPT ![turn[j]] = "request"]
      /\ pc' = [pc EXCEPT ![j] = place]
  BY DEF Claims, Moves
<1>3. endedBy[turn[j]] = "none" /\ messages[turn[j]] = 0
  BY <1>1, <1>2 DEF Outcomes, Unended, MessageIsTheOutcomes, TypeOK
<1>4. Unended' /\ MessageIsTheOutcomes'
  BY <1>1, <1>2, <1>3 DEF TypeOK, Outcomes, Unended, MessageIsTheOutcomes
<1>5. ASSUME NEW i \in Requests, i # j, At(i, "appending")'
      PROVE  At(i, "appending") /\ turn[i] # turn[j] /\ turn[i] \in Turns
  <2>1. At(i, "appending")
    BY <1>2, <1>5 DEF TypeOK, At
  <2>2. endedBy[turn[i]] = "request"
    BY <2>1 DEF Outcomes, Claimants
  <2> QED  BY <1>3, <2>1, <2>2, HasTurn DEF At
<1>6. Claimants'
  <2> SUFFICES ASSUME NEW i \in Requests, At(i, "appending")'
               PROVE  /\ endedBy'[turn[i]] = "request"
                      /\ messages[turn[i]] = 0
                      /\ \A k \in Requests :
                           At(k, "appending")' /\ turn[k] = turn[i] => k = i
    BY DEF Claimants
  <2>1. CASE i = j
    BY <1>1, <1>2, <1>3, <1>5, <2>1 DEF TypeOK
  <2>2. CASE i # j
    BY <1>1, <1>2, <1>5, <2>2 DEF TypeOK, Outcomes, Claimants
  <2> QED  BY <2>1, <2>2
<1> QED  BY <1>4, <1>6 DEF Outcomes

\* The one request that may append does, once.
LEMMA OutcomesAppended ==
  ASSUME TypeOK, Outcomes, NEW j \in Requests, AppendMessage(j)
  PROVE  Outcomes'
<1> USE DEF At
<1>1. /\ pc[j] = "appending" /\ pc' = [pc EXCEPT ![j] = "unreserving"]
      /\ \/ messages' = [messages EXCEPT ![turn[j]] = @ + 1]
         \/ messages' = messages
      /\ UNCHANGED <<status, endedBy, turn>>
  BY DEF AppendMessage, Moves
<1>2. turn[j] \in Turns
  BY <1>1, HasTurn
<1>3. /\ endedBy[turn[j]] = "request" /\ messages[turn[j]] = 0
      /\ \A i \in Requests : pc[i] = "appending" /\ i # j => turn[i] # turn[j]
  BY <1>1 DEF Outcomes, Claimants
<1>4. Unended' /\ MessageIsTheOutcomes'
  BY <1>1, <1>2, <1>3 DEF TypeOK, Outcomes, Unended, MessageIsTheOutcomes
<1>5. Claimants'
  <2>1. ASSUME NEW i \in Requests, pc'[i] = "appending"
        PROVE  pc[i] = "appending" /\ messages'[turn[i]] = messages[turn[i]]
    <3>1. pc[i] = "appending" /\ i # j
      BY <1>1, <2>1 DEF TypeOK
    <3>2. turn[i] \in Turns
      BY <3>1, HasTurn
    <3> QED  BY <1>1, <1>3, <3>1, <3>2 DEF TypeOK
  <2> QED  BY <1>1, <2>1 DEF Outcomes, Claimants
<1> QED  BY <1>4, <1>5 DEF Outcomes

\* Every step keeps one outcome and one message a turn.
LEMMA OutcomesStep ==
  ASSUME TypeOK, Outcomes, [Next]_vars PROVE Outcomes'
<1>1. CASE \E t \in Turns : CallerCreates(t)
  BY <1>1, OutcomesKept DEF TypeOK, CallerCreates, At
<1>2. CASE Boots \/ ShutdownSweeps
  <2>1. CASE SweepOrphans
    BY <1>2, <2>1, OutcomesSwept DEF Boots, ShutdownSweeps
  <2>2. CASE UNCHANGED <<status, endedBy>>
    BY <1>2, <2>2, OutcomesKept DEF Boots, ShutdownSweeps, At
  <2> QED  BY <1>2, <2>1, <2>2 DEF Boots, ShutdownSweeps, TriesSweep
<1>3. CASE Terminates \/ CancelsTurns \/ UNCHANGED vars
  BY <1>3, OutcomesKept DEF Terminates, CancelsTurns, documents, vars, At
<1>4. CASE Exits \/ Crashes
  BY <1>4, OutcomesKept DEF Exits, Crashes, Gone, documents, At
<1>5. ASSUME NEW j \in Requests, RequestStep(j) PROVE Outcomes'
  <2>1. CASE Accepted(j) \/ ProjectFull(j) \/ UnreserveProject(j)
    BY <2>1, OutcomesKept DEF TypeOK, Accepted, ProjectFull, UnreserveProject,
                              Moves, documents, At
  <2>2. CASE Refused(j) \/ UnreserveGlobal(j)
    BY <2>2, OutcomesKept DEF TypeOK, Refused, UnreserveGlobal, Leaves, Moves,
                              documents, At
  <2>3. CASE EnsureTurn(j)
    <3>1. \A t \in Turns : status'[t] = "ended" <=> status[t] = "ended"
      BY <2>3 DEF TypeOK, EnsureTurn, Ensured
    <3> QED  BY <2>3, <3>1, OutcomesKept DEF TypeOK, EnsureTurn, Moves, At
  <2>4. CASE Finalize(j)
    <3>1. CASE Claims(j)
      <4>1. PICK place \in Places : Moves(j, place)
        BY <2>4 DEF Finalize, Places
      <4> QED  BY <2>4, <3>1, <4>1, OutcomesClaimed DEF Finalize
    <3>2. CASE ~Claims(j)
      BY <2>4, <3>2, OutcomesKept DEF TypeOK, Finalize, Moves, At
    <3> QED  BY <3>1, <3>2
  <2>5. CASE AppendMessage(j)
    BY <2>5, OutcomesAppended
  <2> QED  BY <1>5, <2>1, <2>2, <2>3, <2>4, <2>5 DEF RequestStep
<1>6. CASE \E j \in Requests, t \in Turns : Arrives(j, t)
  BY <1>6, OutcomesKept DEF TypeOK, Arrives, Moves, documents, At
<1> QED  BY <1>1, <1>2, <1>3, <1>4, <1>5, <1>6 DEF Next

-----------------------------------------------------------------------------
(* The theorems.                                                           *)

\* The server before its first boot satisfies the invariant.
LEMMA InitInv == ASSUME Init PROVE TypeOK /\ SlotsAreTaken /\ Outcomes
<1>1. DocumentTypes
  BY DEF Init, DocumentTypes
<1>2. RequestTypes
  BY DEF Init, RequestTypes, Places, At
<1>3. SlotTypes /\ ServerTypes
  BY DEF Init, SlotTypes, ServerTypes
<1>4. Outcomes
  BY DEF Init, Outcomes, Unended, MessageIsTheOutcomes, Claimants, At
<1>5. /\ {j \in Requests : HoldsGlobal(j)} = {}
      /\ \A p \in Projects : {j \in Requests : HoldsProject(j, p)} = {}
  BY DEF Init, HoldsGlobal, HoldsProject, At
<1>6. SlotsAreTaken
  BY <1>5, FS_EmptySet DEF Init, SlotsAreTaken
<1> QED  BY <1>1, <1>2, <1>3, <1>4, <1>6, TypesSplit

\* Every step keeps the invariant.
LEMMA InvStep ==
  ASSUME TypeOK, SlotsAreTaken, Outcomes, [Next]_vars
  PROVE  (TypeOK /\ SlotsAreTaken /\ Outcomes)'
<1>1. TypeOK'
  BY DocumentTypesStep, RequestTypesStep, SlotTypesStep, ServerTypesStep
     DEF TypeOK, DocumentTypes, RequestTypes, SlotTypes, ServerTypes
<1> QED  BY <1>1, SlotsStep, OutcomesStep

\* The types, the slots and the outcomes, together.
LEMMA TurnInvariant == Spec => [](TypeOK /\ SlotsAreTaken /\ Outcomes)
BY InitInv, InvStep, PTL DEF Spec

\* Everything has its type; in particular no semaphore is over its capacity.
THEOREM TypeCorrect == Spec => []TypeOK
BY TurnInvariant, PTL

\* Refusals, outcomes, crashes and shutdowns give back exactly the slots that
\* were taken.
THEOREM SlotsExact == Spec => []SlotsAreTaken
BY TurnInvariant, PTL

\* A turn has at most one message in its session, and none if a sweep ended it.
THEOREM OneMessage == Spec => []MessageIsTheOutcomes
<1>1. Outcomes => MessageIsTheOutcomes
  BY DEF Outcomes
<1> QED  BY <1>1, TurnInvariant, PTL

\* The outcome of a turn is never replaced.
THEOREM OutcomeIsFinal == Spec => TerminalIsFinal
<1> DEFINE Final == \A t \in Turns : status[t] = "ended" =>
                      status'[t] = "ended" /\ endedBy'[t] = endedBy[t]
<1>1. TypeOK /\ [Next]_vars => Final
  <2> SUFFICES ASSUME TypeOK, [Next]_vars PROVE Final
    OBVIOUS
  <2> USE DEF TypeOK
  <2>1. CASE \E t \in Turns : CallerCreates(t)
    BY <2>1 DEF CallerCreates
  <2>2. CASE Boots \/ ShutdownSweeps
    BY <2>2 DEF Boots, ShutdownSweeps, TriesSweep, SweepOrphans
  <2>3. CASE Terminates \/ CancelsTurns \/ Exits \/ Crashes \/ UNCHANGED vars
    BY <2>3 DEF Terminates, CancelsTurns, Exits, Crashes, Gone, documents, vars
  <2>4. CASE \E j \in Requests, t \in Turns : Arrives(j, t)
    BY <2>4 DEF Arrives, documents
  <2>5. ASSUME NEW j \in Requests, RequestStep(j) PROVE Final
    BY <2>5 DEF RequestStep, Accepted, ProjectFull, Refused, EnsureTurn, Ensured,
                Finalize, Claims, AppendMessage, UnreserveProject,
                UnreserveGlobal, documents
  <2> QED  BY <2>1, <2>2, <2>3, <2>4, <2>5 DEF Next
<1> QED  BY <1>1, TypeCorrect, PTL DEF Spec, TerminalIsFinal

\* No sweep ends a turn that is being worked on, unless shutdown has cancelled
\* the turns: the server sweeps before it listens and after it cancels.
THEOREM LiveTurnsSpared == Spec => SweepSparesLiveTurns
<1> DEFINE Spared == \A j \in Requests :
                       /\ At(j, "working")
                       /\ server \in {"up", "draining"}
                       /\ status[turn[j]] = "running"
                       => endedBy'[turn[j]] # "sweep"
<1>1. TypeOK /\ Outcomes /\ [Next]_vars => Spared
  <2> SUFFICES ASSUME TypeOK, Outcomes, [Next]_vars, NEW j \in Requests,
                      At(j, "working"), server \in {"up", "draining"},
                      status[turn[j]] = "running"
               PROVE  endedBy'[turn[j]] # "sweep"
    OBVIOUS
  <2>1. turn[j] \in Turns
    BY HasTurn DEF At
  <2>2. endedBy[turn[j]] = "none"
    BY <2>1 DEF TypeOK, Outcomes, Unended
  <2>3. CASE \E t \in Turns : CallerCreates(t)
    BY <2>2, <2>3 DEF CallerCreates
  <2>4. CASE Boots \/ ShutdownSweeps
    BY <2>4 DEF Boots, ShutdownSweeps
  <2>5. CASE Terminates \/ CancelsTurns \/ Exits \/ Crashes \/ UNCHANGED vars
    BY <2>2, <2>5 DEF Terminates, CancelsTurns, Exits, Crashes, Gone, documents, vars
  <2>6. CASE \E i \in Requests, t \in Turns : Arrives(i, t)
    BY <2>2, <2>6 DEF Arrives, documents
  <2>7. ASSUME NEW i \in Requests, RequestStep(i)
        PROVE  endedBy'[turn[j]] # "sweep"
    <3>1. endedBy' = endedBy \/ endedBy' = [endedBy EXCEPT ![turn[i]] = "request"]
      BY <2>7 DEF RequestStep, Accepted, ProjectFull, Refused, EnsureTurn, Finalize,
                  Claims, AppendMessage, UnreserveProject, UnreserveGlobal, documents
    <3> QED  BY <2>1, <2>2, <3>1 DEF TypeOK
  <2> QED  BY <2>3, <2>4, <2>5, <2>6, <2>7 DEF Next
<1> QED  BY <1>1, TurnInvariant, PTL DEF Spec, SweepSparesLiveTurns

-----------------------------------------------------------------------------
(* The pool of runtimes.                                                   *)

\* An entry that does not exist yet is counted, pooled and used by nobody, and
\* the one turn that builds an entry finds it unbuilt.
Unborn == \A e \in Entries : runtime[e] = "none" => inUse[e] <= 0

OnBorn == /\ \A p \in found \cup waiting \cup holding : runtime[p[2]] # "none"
          /\ \A e \in entries : runtime[e] # "none"
          /\ \A p \in building : runtime[p[2]] = "building"
          /\ \A p, q \in building : p[2] = q[2] => p = q

PoolInv == /\ PoolTypeOK
           /\ Unborn
           /\ OnBorn
           /\ NoRuntimeLeaks
           /\ NothingIsPinned

USE DEF Ready

-----------------------------------------------------------------------------
(* How a step changes the turns that have reserved an entry.               *)

\* Cardinality means something for the turns that have reserved an entry.
LEMMA ReserversFinite ==
  ASSUME NEW e
  PROVE  /\ IsFiniteSet(Reservers(e))
         /\ Cardinality(Reservers(e)) \in Nat
         /\ Reservers(e) # {} => Cardinality(Reservers(e)) > 0
<1>1. Reservers(e) \in SUBSET Callers
  BY DEF Reservers
<1>2. IsFiniteSet(Reservers(e))
  BY <1>1, FS_Subset, AskPoolAssumption
<1> QED  BY <1>2, FS_CardinalityType, FS_EmptySet

\* An entry's reservers change only with the turns waiting for it or running on it.
LEMMA ReserversSame ==
  ASSUME (waiting \cup holding)' = waiting \cup holding
  PROVE  \A e : Cardinality(Reservers(e))' = Cardinality(Reservers(e))
BY DEF Reservers

\* A turn that reserves an entry is one reserver more.
LEMMA TurnReserves ==
  ASSUME PoolTypeOK, NEW t \in Callers, NEW e \in Entries, <<t, e>> \in found,
         waiting' = waiting \cup {<<t, e>>}, holding' = holding
  PROVE  /\ Cardinality(Reservers(e))' = Cardinality(Reservers(e)) + 1
         /\ \A f \in Entries : f # e => Reservers(f)' = Reservers(f)
<1>1. t \notin Reservers(e)
  BY DEF PoolTypeOK, Reservers
<1>2. Reservers(e)' = Reservers(e) \cup {t}
  BY DEF Reservers
<1>3. \A f \in Entries : f # e => Reservers(f)' = Reservers(f)
  BY DEF Reservers
<1> QED  BY <1>1, <1>2, <1>3, ReserversFinite, FS_AddElement

\* A turn that leaves an entry is one reserver fewer, and the others' are the same.
LEMMA TurnLeaves ==
  ASSUME PoolTypeOK, NEW t \in Callers, NEW e \in Entries,
         <<t, e>> \in waiting \cup holding,
         (waiting \cup holding)' = (waiting \cup holding) \ {<<t, e>>}
  PROVE  /\ Cardinality(Reservers(e))' = Cardinality(Reservers(e)) - 1
         /\ Cardinality(Reservers(e)) > 0
         /\ \A f \in Entries : f # e => Reservers(f)' = Reservers(f)
<1>1. t \in Reservers(e)
  BY DEF Reservers
<1>2. Reservers(e)' = Reservers(e) \ {t}
  BY DEF Reservers
<1>3. \A f \in Entries : f # e => Reservers(f)' = Reservers(f)
  BY DEF Reservers
<1>4. Cardinality(Reservers(e) \ {t}) = Cardinality(Reservers(e)) - 1
  BY <1>1, ReserversFinite, FS_RemoveElement
<1>5. Cardinality(Reservers(e)) > 0
  BY <1>1, ReserversFinite
<1> QED  BY <1>2, <1>3, <1>4, <1>5

-----------------------------------------------------------------------------
(* Types.                                                                  *)

\* The empty pool satisfies the invariant.
LEMMA InitPoolInv == ASSUME PoolInit PROVE PoolInv
<1>1. PoolTypeOK
  <2>1. runtime \in [Entries -> {"none", "building", "ok", "failed"}]
    BY DEF PoolInit
  <2>2. inUse \in [Entries -> Int]
    BY DEF PoolInit
  <2>3. /\ entries = {} /\ closing = {} /\ closed = {} /\ stopped \in BOOLEAN
        /\ building = {} /\ found = {} /\ waiting = {} /\ holding = {}
    BY DEF PoolInit
  <2> QED  BY <2>1, <2>2, <2>3 DEF PoolTypeOK
<1>2. Unborn /\ OnBorn /\ NoRuntimeLeaks /\ NothingIsPinned
  BY DEF PoolInit, Unborn, OnBorn, NoRuntimeLeaks,
     NothingIsPinned
<1> QED  BY <1>1, <1>2 DEF PoolInv

\* A release keeps counts integers, whichever entry it hits.
LEMMA ReleasedType ==
  ASSUME PoolTypeOK, NEW project
  PROVE  /\ Released(project) \in [Entries -> Int]
         /\ \A e \in Entries : Released(project)[e] <= inUse[e]
BY DEF PoolTypeOK, Released

\* Every step keeps the types, one entry per project and one place per turn.
LEMMA PoolTypes == ASSUME PoolTypeOK, [PoolNext]_(poolVars) PROVE PoolTypeOK'
<1> USE DEF PoolTypeOK, turnVars
<1>1. ASSUME NEW t \in Callers, NEW e \in Entries, Finds(t, e)
      PROVE  PoolTypeOK'
  <2>1. \A p \in building \cup found \cup waiting \cup holding : p[1] # t
    BY <1>1 DEF Finds, Idle, OnEntry
  <2> QED  BY <1>1, <2>1 DEF Finds
<1>2. ASSUME NEW t \in Callers, NEW e \in Entries, Creates(t, e)
      PROVE  PoolTypeOK'
  <2>1. \A p \in building \cup found \cup waiting \cup holding : p[1] # t
    BY <1>2 DEF Creates, Idle, OnEntry
  <2>2. PICK evicted \in Victims(e) : /\ entries' = (entries \ evicted) \cup {e}
                                      /\ closing' = closing \cup evicted
    BY <1>2 DEF Creates
  <2>3. evicted \subseteq entries
    BY <2>2 DEF Victims, Evictable
  <2>4. \A f, g \in entries' : f.project = g.project => f = g
    BY <1>2, <2>2 DEF Creates, Fresh
  <2>5. runtime' \in [Entries -> {"none", "building", "ok", "failed"}]
    BY <1>2 DEF Creates
  <2> QED  BY <1>2, <2>1, <2>2, <2>3, <2>4, <2>5 DEF Creates
<1>3. ASSUME NEW t \in Callers, NEW e \in Entries, BuildEntry(t, e)
      PROVE  PoolTypeOK'
  BY <1>3 DEF BuildEntry
<1>4. ASSUME NEW t \in Callers, NEW e \in Entries, Reserve(t, e)
      PROVE  PoolTypeOK'
  BY <1>4 DEF Reserve
<1>5. ASSUME NEW t \in Callers, NEW e \in Entries, Served(t, e)
      PROVE  PoolTypeOK'
  BY <1>5 DEF Served
<1>6. ASSUME NEW t \in Callers, NEW e \in Entries, BuildFailed(t, e)
      PROVE  PoolTypeOK'
  BY <1>6 DEF BuildFailed
<1>7. ASSUME NEW t \in Callers, NEW e \in Entries, Release(t, e)
      PROVE  PoolTypeOK'
  BY <1>7, ReleasedType DEF Release
<1>8. ASSUME NEW t \in Callers, NEW e \in Entries, GivesUp(t, e)
      PROVE  PoolTypeOK'
  BY <1>8, ReleasedType DEF GivesUp
<1>9. ASSUME NEW e \in Entries, CloseRuntime(e) PROVE PoolTypeOK'
  BY <1>9 DEF CloseRuntime
<1>10. CASE EvictIdle
  BY <1>10 DEF EvictIdle, Evictable
<1>11. CASE CloseAll
  BY <1>11 DEF CloseAll
<1>12. CASE UNCHANGED poolVars
  BY <1>12 DEF poolVars
<1> QED  BY <1>1, <1>2, <1>3, <1>4, <1>5, <1>6, <1>7, <1>8, <1>9, <1>10, <1>11,
            <1>12 DEF PoolNext, TurnStep

-----------------------------------------------------------------------------
(* The invariant.                                                          *)

\* Steps that leave the counts and the reservations alone, and keep entries
\* that are pooled or drop them.
LEMMA CountsKept ==
  ASSUME PoolInv, (waiting \cup holding)' = waiting \cup holding,
         inUse' = inUse, entries' \subseteq entries
  PROVE  NothingIsPinned'
<1>1. \A f : Cardinality(Reservers(f))' = Cardinality(Reservers(f))
  BY ReserversSame
<1> QED  BY <1>1 DEF PoolInv, PoolTypeOK, NothingIsPinned

\* Creating an entry, with the eviction that makes room for it, loses no runtime.
LEMMA CreatesKeeps ==
  ASSUME PoolInv, NEW t \in Callers, NEW e \in Entries, Creates(t, e)
  PROVE  Unborn' /\ OnBorn' /\ NoRuntimeLeaks' /\ NothingIsPinned'
<1>1. PICK evicted \in Victims(e) : /\ entries' = (entries \ evicted) \cup {e}
                                    /\ closing' = closing \cup evicted
  BY DEF Creates
<1>2. \A f \in evicted : f \in entries /\ Ready(f)
  BY <1>1 DEF Victims, Evictable
<1>3. /\ runtime[e] = "none" /\ runtime' = [runtime EXCEPT ![e] = "building"]
      /\ inUse' = inUse /\ building' = building \cup {<<t, e>>}
      /\ found' = found /\ waiting' = waiting /\ holding' = holding
      /\ closed' = closed /\ stopped' = stopped
  BY DEF Creates, Fresh
<1>4. Unborn'
  BY <1>3 DEF PoolInv, PoolTypeOK, Unborn
<1>5. OnBorn'
  <2>1. \A p \in building \cup found \cup waiting \cup holding : p[2] # e
    BY <1>3 DEF PoolInv, OnBorn
  <2>2. \A f \in Entries : f # e => runtime'[f] = runtime[f]
    BY <1>3 DEF PoolInv, PoolTypeOK
  <2>3. runtime'[e] = "building" /\ \A f \in entries : f # e
    BY <1>3 DEF PoolInv, PoolTypeOK, OnBorn
  <2>4. /\ \A p \in (found \cup waiting \cup holding)' : runtime'[p[2]] # "none"
        /\ \A p \in building' : runtime'[p[2]] = "building"
    BY <1>3, <2>1, <2>2, <2>3 DEF PoolInv, PoolTypeOK, OnBorn
  <2>5. \A f \in entries' : runtime'[f] # "none"
    BY <1>1, <2>2, <2>3 DEF PoolInv, PoolTypeOK, OnBorn
  <2>6. \A p, q \in building' : p[2] = q[2] => p = q
    BY <1>3, <2>1 DEF PoolInv, OnBorn
  <2> QED  BY <2>4, <2>5, <2>6 DEF OnBorn
<1>6. NoRuntimeLeaks'
  BY <1>1, <1>2, <1>3 DEF PoolInv, PoolTypeOK, NoRuntimeLeaks
<1>7. NothingIsPinned'
  <2>1. \A f : Cardinality(Reservers(f))' = Cardinality(Reservers(f))
    BY <1>3, ReserversSame
  <2>2. inUse[e] <= Cardinality(Reservers(e))
    BY <1>3, ReserversFinite DEF PoolInv, PoolTypeOK, Unborn
  <2> QED  BY <1>1, <1>3, <2>1, <2>2 DEF PoolInv, PoolTypeOK,
              NothingIsPinned
<1> QED  BY <1>4, <1>5, <1>6, <1>7

\* Reserving counts the reserver, also on an entry that has been evicted.
LEMMA ReserveKeeps ==
  ASSUME PoolInv, NEW t \in Callers, NEW e \in Entries, Reserve(t, e)
  PROVE  Unborn' /\ OnBorn' /\ NoRuntimeLeaks' /\ NothingIsPinned'
<1> USE DEF Reserve
<1>1. Unborn' /\ OnBorn' /\ NoRuntimeLeaks'
  BY DEF PoolInv, PoolTypeOK, Unborn, OnBorn, NoRuntimeLeaks
<1>2. /\ Cardinality(Reservers(e))' = Cardinality(Reservers(e)) + 1
      /\ \A f \in Entries : f # e => Reservers(f)' = Reservers(f)
  BY TurnReserves DEF PoolInv
<1>3. NothingIsPinned'
  BY <1>2, ReserversFinite DEF PoolInv, PoolTypeOK,
     NothingIsPinned
<1> QED  BY <1>1, <1>3

\* The error path drops an entry only when its last reserver leaves it.
LEMMA BuildFailedKeeps ==
  ASSUME PoolInv, NEW t \in Callers, NEW e \in Entries, BuildFailed(t, e)
  PROVE  Unborn' /\ OnBorn' /\ NoRuntimeLeaks' /\ NothingIsPinned'
<1> USE DEF BuildFailed
<1>1. Unborn' /\ OnBorn' /\ NoRuntimeLeaks'
  BY DEF PoolInv, PoolTypeOK, Unborn, OnBorn, NoRuntimeLeaks
<1>2. (waiting \cup holding)' = (waiting \cup holding) \ {<<t, e>>}
  BY DEF PoolInv, PoolTypeOK
<1>3. /\ Cardinality(Reservers(e))' = Cardinality(Reservers(e)) - 1
      /\ \A f \in Entries : f # e => Reservers(f)' = Reservers(f)
  BY <1>2, TurnLeaves DEF PoolInv
<1>4. NothingIsPinned'
  BY <1>3, ReserversFinite DEF PoolInv, PoolTypeOK,
     NothingIsPinned
<1> QED  BY <1>1, <1>4

\* Release and GivesUp: whichever entry of the project is pooled by now, its
\* count goes down, and if it is the turn's own it stays at or below what is
\* left of its reservations.
LEMMA ReleaseKeeps ==
  ASSUME PoolInv, NEW t \in Callers, NEW e \in Entries,
         <<t, e>> \in waiting \cup holding,
         (waiting \cup holding)' = (waiting \cup holding) \ {<<t, e>>},
         inUse' = Released(e.project),
         UNCHANGED <<entries, runtime, building, found, closing, closed, stopped>>
  PROVE  Unborn' /\ OnBorn' /\ NoRuntimeLeaks' /\ NothingIsPinned'
<1>1. /\ inUse' \in [Entries -> Int]
      /\ \A f \in Entries : inUse'[f] <= inUse[f]
  BY ReleasedType DEF PoolInv
<1>2. Unborn' /\ OnBorn' /\ NoRuntimeLeaks'
  BY <1>1 DEF PoolInv, PoolTypeOK, Unborn, OnBorn, NoRuntimeLeaks
<1>3. /\ Cardinality(Reservers(e))' = Cardinality(Reservers(e)) - 1
      /\ Cardinality(Reservers(e)) > 0
      /\ \A f \in Entries : f # e => Reservers(f)' = Reservers(f)
  BY TurnLeaves DEF PoolInv
<1>4. e \in entries => inUse'[e] <= Cardinality(Reservers(e))'
  <2>1. inUse'[e] = IF e \in entries /\ inUse[e] > 0 THEN inUse[e] - 1 ELSE inUse[e]
    BY DEF Released
  <2> QED  BY <1>3, <2>1, ReserversFinite DEF PoolInv, PoolTypeOK,
              NothingIsPinned
<1>5. NothingIsPinned'
  BY <1>1, <1>3, <1>4, ReserversFinite DEF PoolInv, PoolTypeOK,
     NothingIsPinned
<1> QED  BY <1>2, <1>5

\* The invariant is inductive.
LEMMA PoolInvStep == ASSUME PoolInv, [PoolNext]_(poolVars) PROVE PoolInv'
<1> DEFINE Kept == Unborn' /\ OnBorn' /\ NoRuntimeLeaks' /\ NothingIsPinned'
<1>1. PoolTypeOK'
  BY PoolTypes DEF PoolInv
<1>2. ASSUME NEW t \in Callers, NEW e \in Entries, TurnStep(t, e) PROVE Kept
  <2>1. CASE Finds(t, e)
    BY <2>1, CountsKept DEF Finds, PoolInv, PoolTypeOK, Unborn, OnBorn,
       NoRuntimeLeaks
  <2>2. CASE BuildEntry(t, e)
    BY <2>2, CountsKept DEF BuildEntry, PoolInv, PoolTypeOK, Unborn, OnBorn,
       NoRuntimeLeaks
  <2>3. CASE Served(t, e)
    BY <2>3, CountsKept DEF Served, PoolInv, PoolTypeOK, Unborn, OnBorn,
       NoRuntimeLeaks
  <2>4. CASE Release(t, e)
    BY <2>4, ReleaseKeeps DEF Release, PoolInv, PoolTypeOK
  <2>5. CASE GivesUp(t, e)
    BY <2>5, ReleaseKeeps DEF GivesUp, PoolInv, PoolTypeOK
  <2> QED  BY <1>2, <2>1, <2>2, <2>3, <2>4, <2>5, CreatesKeeps, ReserveKeeps,
              BuildFailedKeeps DEF TurnStep
<1>3. ASSUME NEW e \in Entries, CloseRuntime(e) PROVE Kept
  BY <1>3, CountsKept DEF CloseRuntime, turnVars, PoolInv, PoolTypeOK,
     Unborn, OnBorn, NoRuntimeLeaks
<1>4. CASE EvictIdle
  BY <1>4, CountsKept DEF EvictIdle, Evictable, turnVars, PoolInv,
     PoolTypeOK, Unborn, OnBorn, NoRuntimeLeaks
<1>5. CASE CloseAll
  BY <1>5, CountsKept DEF CloseAll, turnVars, PoolInv, PoolTypeOK,
     Unborn, OnBorn, NoRuntimeLeaks
<1>6. CASE UNCHANGED poolVars
  BY <1>6, CountsKept DEF poolVars, turnVars, PoolInv, PoolTypeOK, Unborn,
     OnBorn, NoRuntimeLeaks
<1> QED  BY <1>1, <1>2, <1>3, <1>4, <1>5, <1>6 DEF PoolNext, PoolInv

\* The inductive invariant the theorems below rest on.
THEOREM PoolInvariant == PoolSpec => []PoolInv
<1>1. PoolInit => PoolInv
  BY InitPoolInv
<1>2. PoolInv /\ [PoolNext]_(poolVars) => PoolInv'
  BY PoolInvStep
<1> QED  BY <1>1, <1>2, PTL DEF PoolSpec

\* Until shutdown no runtime is dropped without being closed, and none while it
\* is being built (evictForCapacityLocked, evictIdle, the error path).
THEOREM NoRuntimeLost == PoolSpec => []NoRuntimeLeaks
<1>1. PoolInv => NoRuntimeLeaks
  BY DEF PoolInv
<1> QED  BY <1>1, PoolInvariant, PTL

\* No pooled entry is counted in use by more turns than have reserved it,
\* although release decrements whichever entry the project has by then.
THEOREM NothingPinned == PoolSpec => []NothingIsPinned
<1>1. PoolInv => NothingIsPinned
  BY DEF PoolInv
<1> QED  BY <1>1, PoolInvariant, PTL

=============================================================================
