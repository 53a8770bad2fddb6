------------------------------- MODULE AskTurns -------------------------------
(***************************************************************************)
(* The turns of the ask server: services/agent/internal/askserve/server.go *)
(* and turnstore.go, with finalize of loop.go.                             *)
(*                                                                         *)
(* A request that gets a global and a project slot is acknowledged and run *)
(* by a goroutine, which ensures the turn's document, works, claims the    *)
(* turn with its outcome, appends the message to the session and returns   *)
(* the slots.  Every database round trip and every channel operation is    *)
(* one action.  The process may crash anywhere or shut down on SIGTERM; at *)
(* boot and at shutdown it sweeps the turns that are still running.        *)
(* Whatever the outcome (answer, decline, timeout, error) is one status,   *)
(* "ended", and what the turn does while it works is left open.            *)
(***************************************************************************)
EXTENDS Integers, FiniteSets

CONSTANTS Projects,
          TurnsPerProject,
          Requests,                \* requests in the server at one time
          MaxConcurrentTurns,      \* the capacity of globalSem
          MaxConcurrentPerProject, \* the capacity of each projSem
          MaxFaults                \* failed database round trips

ASSUME AskTurnsAssumption ==
  /\ IsFiniteSet(Requests)
  /\ TurnsPerProject \in Nat
  /\ MaxConcurrentTurns \in Nat \ {0}
  /\ MaxConcurrentPerProject \in Nat \ {0}
  /\ MaxFaults \in Nat

Turns == [project : Projects, n : 1..TurnsPerProject]

NoTurn == [project |-> "none", n |-> 0]

ASSUME NoTurnIsNone == "none" \notin Projects

VARIABLES
  status,      \* status[t] of the ask_turns document: "absent", "running", "ended"
  endedBy,     \* endedBy[t]: what it records: a request's outcome or a sweep
  messages,    \* messages[t]: how many session messages carry the turn
  pc,          \* pc[j]: where request j is
  turn,        \* turn[j]: the turn it asks for
  globalSem,   \* slots taken
  projSem,     \* slots taken, by project
  server,      \* "down", "up", or how far shutdown has come
  faults

documents == <<status, endedBy, messages>>
slots == <<globalSem, projSem>>
vars == <<documents, pc, turn, slots, server, faults>>

At(j, place) == pc[j] = place
Moves(j, place) == pc' = [pc EXCEPT ![j] = place]
Leaves(j) == Moves(j, "none") /\ turn' = [turn EXCEPT ![j] = NoTurn]
Faulty == faults < MaxFaults /\ faults' = faults + 1

\* The process is there to run its requests.
Alive == server # "down"

-----------------------------------------------------------------------------
(* handleStartTurn and reserve.                                            *)

\* The turn's document may be there already: whoever asks usually creates it.
CallerCreates(t) ==
  /\ status[t] = "absent"
  /\ status' = [status EXCEPT ![t] = "running"]
  /\ UNCHANGED <<endedBy, messages, pc, turn, slots, server, faults>>

\* A request, perhaps repeated, that gets a global slot; another is refused.
Arrives(j, t) ==
  /\ server = "up"
  /\ At(j, "none")
  /\ globalSem < MaxConcurrentTurns
  /\ globalSem' = globalSem + 1
  /\ turn' = [turn EXCEPT ![j] = t]
  /\ Moves(j, "reserving")
  /\ UNCHANGED <<documents, projSem, server, faults>>

AcceptedOverCapacity(j) ==
  /\ Alive /\ At(j, "reserving")
  /\ projSem' = [projSem EXCEPT ![turn[j].project] = @ + 1]
  /\ Moves(j, "accepted")
  /\ UNCHANGED <<documents, turn, globalSem, server, faults>>

\* A project slot: the request is acknowledged and its goroutine starts.
Accepted(j) ==
  /\ Alive /\ At(j, "reserving")
  /\ projSem[turn[j].project] < MaxConcurrentPerProject
  /\ projSem' = [projSem EXCEPT ![turn[j].project] = @ + 1]
  /\ Moves(j, "accepted")
  /\ UNCHANGED <<documents, turn, globalSem, server, faults>>

ProjectFull(j) ==
  /\ Alive /\ At(j, "reserving")
  /\ projSem[turn[j].project] = MaxConcurrentPerProject
  /\ Moves(j, "refusing")
  /\ UNCHANGED <<documents, turn, slots, server, faults>>

RefusedKeepsSlot(j) ==
  /\ Alive /\ At(j, "refusing")
  /\ Leaves(j)
  /\ UNCHANGED <<documents, slots, server, faults>>

Refused(j) ==
  /\ Alive /\ At(j, "refusing")
  /\ globalSem' = globalSem - 1
  /\ Leaves(j)
  /\ UNCHANGED <<documents, projSem, server, faults>>

-----------------------------------------------------------------------------
(* runTurn.                                                                *)

Ensured(t) == IF status[t] = "absent" THEN [status EXCEPT ![t] = "running"]
                                      ELSE status

\* A failed write is logged, and the turn runs all the same.
EnsureTurn(j) ==
  /\ Alive /\ At(j, "accepted")
  /\ Moves(j, "working")
  /\ \/ status' = Ensured(turn[j]) /\ UNCHANGED faults
     \/ Faulty /\ status' \in {status, Ensured(turn[j])}
  /\ UNCHANGED <<endedBy, messages, turn, slots, server>>

\* Finalize's first write: it claims a running turn, and no other.
ClaimsAnyTurn(j) ==
  /\ status' = [status EXCEPT ![turn[j]] = "ended"]
  /\ endedBy' = [endedBy EXCEPT ![turn[j]] = "request"]

Claims(j) ==
  /\ status[turn[j]] = "running"
  /\ status' = [status EXCEPT ![turn[j]] = "ended"]
  /\ endedBy' = [endedBy EXCEPT ![turn[j]] = "request"]

FinalizeAppendsAlways(j) ==
  /\ Alive /\ At(j, "working")
  /\ Moves(j, "appending")
  /\ Claims(j) \/ (status[turn[j]] # "running" /\ UNCHANGED <<status, endedBy>>)
  /\ UNCHANGED <<messages, turn, slots, server, faults>>

\* The outcome of the turn: the answering loop's, the wall clock's, or a failed
\* acquire's.  A turn without a session has no message to append.
Finalize(j) ==
  /\ Alive /\ At(j, "working")
  /\ \/ Claims(j) /\ (Moves(j, "appending") \/ Moves(j, "unreserving"))
        /\ UNCHANGED faults
     \/ /\ status[turn[j]] # "running"
        /\ Moves(j, "unreserving")
        /\ UNCHANGED <<status, endedBy, faults>>
     \/ /\ Faulty
        /\ Moves(j, "unreserving")
        /\ Claims(j) \/ UNCHANGED <<status, endedBy>>
  /\ UNCHANGED <<messages, turn, slots, server>>

\* Its second write, to the session.
AppendMessage(j) ==
  /\ Alive /\ At(j, "appending")
  /\ Moves(j, "unreserving")
  /\ LET appended == [messages EXCEPT ![turn[j]] = @ + 1]
     IN \/ messages' = appended /\ UNCHANGED faults
        \/ Faulty /\ messages' \in {messages, appended}
  /\ UNCHANGED <<status, endedBy, turn, slots, server>>

UnreserveProject(j) ==
  /\ Alive /\ At(j, "unreserving")
  /\ projSem' = [projSem EXCEPT ![turn[j].project] = @ - 1]
  /\ Moves(j, "unreserved")
  /\ UNCHANGED <<documents, turn, globalSem, server, faults>>

UnreserveGlobal(j) ==
  /\ Alive /\ At(j, "unreserved")
  /\ globalSem' = globalSem - 1
  /\ Leaves(j)
  /\ UNCHANGED <<documents, projSem, server, faults>>

-----------------------------------------------------------------------------
(* The process.                                                            *)

\* SweepOrphans ends every running turn, whoever runs it.
SweepOrphans ==
  /\ status' = [t \in Turns |-> IF status[t] = "running" THEN "ended"
                                                         ELSE status[t]]
  /\ endedBy' = [t \in Turns |-> IF status[t] = "running" THEN "sweep"
                                                          ELSE endedBy[t]]

\* A sweep that fails is logged, and the server goes on.
TriesSweep == \/ SweepOrphans /\ UNCHANGED faults
              \/ Faulty /\ (SweepOrphans \/ UNCHANGED <<status, endedBy>>)

BootsUnswept ==
  /\ server = "down"
  /\ server' = "up"
  /\ UNCHANGED <<documents, pc, turn, slots, faults>>

\* The server sweeps before it listens.
Boots ==
  /\ server = "down"
  /\ server' = "up"
  /\ TriesSweep
  /\ UNCHANGED <<messages, pc, turn, slots>>

\* SIGTERM: no new connection is accepted, and the requests that are in a
\* handler have five seconds to be acknowledged.
Terminates ==
  /\ server = "up"
  /\ server' = "draining"
  /\ UNCHANGED <<documents, pc, turn, slots, faults>>

CancelsTurns ==
  /\ server = "draining"
  /\ server' = "cancelled"
  /\ UNCHANGED <<documents, pc, turn, slots, faults>>

ShutdownSweepsFirst ==
  /\ server = "draining"
  /\ server' = "swept"
  /\ TriesSweep
  /\ UNCHANGED <<messages, pc, turn, slots>>

\* All turns are done, or the grace period has passed.
ShutdownSweeps ==
  /\ server = "cancelled"
  /\ server' = "swept"
  /\ TriesSweep
  /\ UNCHANGED <<messages, pc, turn, slots>>

Gone == /\ server' = "down"
        /\ pc' = [j \in Requests |-> "none"]
        /\ globalSem' = 0
        /\ projSem' = [p \in Projects |-> 0]
        /\ turn' = [j \in Requests |-> NoTurn]
        /\ UNCHANGED <<documents, faults>>

Exits == server = "swept" /\ Gone
Crashes == server \in {"up", "draining", "cancelled"} /\ Gone

-----------------------------------------------------------------------------

Init ==
  /\ status = [t \in Turns |-> "absent"]
  /\ endedBy = [t \in Turns |-> "none"]
  /\ messages = [t \in Turns |-> 0]
  /\ pc = [j \in Requests |-> "none"]
  /\ turn = [j \in Requests |-> NoTurn]
  /\ globalSem = 0
  /\ projSem = [p \in Projects |-> 0]
  /\ server = "down"
  /\ faults = 0

RequestStep(j) == \/ Accepted(j) \/ ProjectFull(j) \/ Refused(j)
                  \/ EnsureTurn(j) \/ Finalize(j) \/ AppendMessage(j)
                  \/ UnreserveProject(j) \/ UnreserveGlobal(j)

Next == \/ \E t \in Turns : CallerCreates(t)
        \/ \E j \in Requests : RequestStep(j) \/ \E t \in Turns : Arrives(j, t)
        \/ Boots \/ Terminates \/ CancelsTurns \/ ShutdownSweeps \/ Exits
        \/ Crashes

Spec == Init /\ [][Next]_vars

\* The process is restarted, and every goroutine goes on: a turn's work is
\* bounded by its wall clock.
FairSpec == /\ Spec
            /\ WF_vars(Boots)
            /\ \A j \in Requests : WF_vars(RequestStep(j))

-----------------------------------------------------------------------------
(* Properties.                                                             *)

Places == {"none", "reserving", "refusing", "accepted", "working", "appending",
           "unreserving", "unreserved"}

\* The type invariant.
TypeOK ==
  /\ status \in [Turns -> {"absent", "running", "ended"}]
  /\ endedBy \in [Turns -> {"none", "request", "sweep"}]
  /\ messages \in [Turns -> Nat]
  /\ pc \in [Requests -> Places]
  /\ turn \in [Requests -> Turns \cup {NoTurn}]
  /\ \A j \in Requests : turn[j] = NoTurn <=> At(j, "none")
  /\ globalSem \in 0..MaxConcurrentTurns
  /\ projSem \in [Projects -> 0..MaxConcurrentPerProject]
  /\ server \in {"down", "up", "draining", "cancelled", "swept"}
  /\ faults \in 0..MaxFaults

HoldsGlobal(j) == ~At(j, "none")
HoldsProject(j, p) ==
  /\ pc[j] \in {"accepted", "working", "appending", "unreserving"}
  /\ turn[j].project = p

\* Refusals, outcomes and shutdowns give back exactly the slots that were
\* taken: capacity neither leaks nor grows.
SlotsAreTaken ==
  /\ globalSem = Cardinality({j \in Requests : HoldsGlobal(j)})
  /\ \A p \in Projects :
       projSem[p] = Cardinality({j \in Requests : HoldsProject(j, p)})

\* However often a turn is asked for, swept and finalized, at most one message
\* of it is in its session, and none if its outcome is a sweep's.
MessageIsTheOutcomes ==
  \A t \in Turns : messages[t] <= IF endedBy[t] = "request" THEN 1 ELSE 0

\* A turn reaches one terminal status and keeps it: neither a sweep, nor a
\* request that was swept or repeated, replaces an outcome.
TerminalIsFinal ==
  [][\A t \in Turns : status[t] = "ended" =>
       status'[t] = "ended" /\ endedBy'[t] = endedBy[t]]_vars

\* A turn someone works on is not swept from under it, unless shutdown has
\* cancelled all turns.
SweepSparesLiveTurns ==
  [][\A j \in Requests :
       /\ At(j, "working")
       /\ server \in {"up", "draining"}
       /\ status[turn[j]] = "running"
       => endedBy'[turn[j]] # "sweep"]_vars

\* A turn that was accepted and is running ends, by its own outcome or by the
\* next sweep, unless a database round trip has failed.
AcceptedTurnEnds ==
  \A t \in Turns :
    ((\E j \in Requests : At(j, "working") /\ turn[j] = t) /\ status[t] = "running")
      ~> (status[t] = "ended" \/ faults > 0)

=============================================================================
