----------------------------- MODULE RunDispatch -----------------------------
(***************************************************************************)
(* Several runs of one project: what keeps two of them from working at the *)
(* same time, and the plan reservation each of them may hold.              *)
(*                                                                         *)
(* StartRun, ResumeRun and CancelRun are sequences of round trips, to      *)
(* MongoDB and to the policy checker; so are the failure callback of a     *)
(* start and the tick of the confirmer.  RunLifecycle has what one run's   *)
(* document goes through; here it is cut down to what other runs and       *)
(* reservations depend on, and a request that dies half way leaves its     *)
(* place for good.                                                         *)
(*                                                                         *)
(* Time: the moment attempt a stopped is 2a, the moment a resume made      *)
(* attempt a is 2a - 1, and 0 is an absent field.                          *)
(*                                                                         *)
(* EvenPending, NeverFailed, AnyRun, EvenUnconfirmed, OfTheRun and         *)
(* WithoutStamp are the definition after them with a bug; no specification *)
(* uses them.                                                              *)
(***************************************************************************)
EXTENDS Naturals, FiniteSets

CONSTANTS Runs,        \* runs of the project
          MaxAttempt,  \* attempts of a run
          MaxRequests, \* resumes and cancels that arrive
          MaxRestarts, \* API replicas that start, and sweep
          MaxFaults,   \* failed round trips, spawns and requests
          Metered,     \* a checker that reserves is registered, not the Noop one
          Overlap      \* starts under it that set SkipIfRunning

ASSUME DispatchAssumption ==
  /\ IsFiniteSet(Runs)
  /\ MaxAttempt \in Nat \ {0}
  /\ MaxRequests \in Nat /\ MaxRestarts \in Nat /\ MaxFaults \in Nat
  /\ Metered \in BOOLEAN
  /\ Overlap \subseteq BOOLEAN /\ Overlap # {}

Attempts == 1..MaxAttempt
Moments  == 0..(2 * MaxAttempt)
Stopped(a) == 2 * a
Resumed(a) == 2 * a - 1

VARIABLES
  doc,       \* doc[r]: the run document
  slot,      \* slot[r]: the checker's reservation: none, open or closed
  closing,   \* closing[r]: the outcome it was first closed with
  start,     \* start[r]: where the request that starts r is
  resume,    \* resume[r]: where a request that resumes r is, and what it read
  cancel,    \* cancel[r]: the same of a request that cancels r
  alive,     \* alive[r]: attempts whose agents are working
  watch,     \* watch[r]: attempts whose agents somebody watches
  callback,  \* runs whose failure callback has its confirm left to do
  listed,    \* listed[r]: the outcome the confirmer has for r, or NoOutcome
  clearing,  \* the runs the confirmer has confirmed and not cleared
  requests, restarts, faults,
  stored     \* history: the runs whose reservation id was once on the document

api    == <<start, resume, cancel>>
agents == <<alive, watch, callback>>
tick   == <<listed, clearing>>
bounds == <<requests, restarts, faults>>
vars   == <<doc, slot, closing, api, agents, tick, bounds, stored>>

Outcomes  == [status : {"none", "success", "failure", "cancelled", "released"},
              by : {"none", "start", "callback", "resume", "cancel", "confirmer"},
              ended : Moments]
NoOutcome == [status |-> "none", by |-> "none", ended |-> 0]

\* A run document: handle is policy_reservation_id, stamp its
\* policy_reservation_owner_ended_at; paused, resumed and done are
\* last_paused_at, last_resumed_at and completed_at.
Statuses == {"absent", "pending", "running", "paused", "completed", "failed",
             "cancelled"}
Docs   == [status : Statuses, attempt : Attempts, handle : BOOLEAN,
           stamp : Moments, paused : Moments, resumed : Moments, done : Moments]
Absent == [status |-> "absent", attempt |-> 1, handle |-> FALSE, stamp |-> 0,
           paused |-> 0, resumed |-> 0, done |-> 0]

Active(d)    == d.status \in {"pending", "running"}
Resumable(d) == d.status \in {"failed", "paused"}
Terminal(d)  == d.status \in {"completed", "failed", "cancelled"}

\* ReservationBelongsToASupersededAttempt.
Superseded(d) == d.handle /\ d.attempt > 1

\* ReservationOwnerEndedAt.
WithoutStamp(d) == IF d.paused # 0 THEN d.paused
                   ELSE IF d.resumed # 0 THEN d.resumed ELSE d.done
OwnerEndedAt(d) == IF d.stamp # 0 THEN d.stamp
                   ELSE IF d.paused # 0 THEN d.paused
                   ELSE IF d.resumed # 0 THEN d.resumed ELSE d.done

NoFault == UNCHANGED faults
Fault   == faults < MaxFaults /\ faults' = faults + 1

\* A write that lands, or one that fails and may have been applied.
Tried(applied, skipped) == \/ applied /\ NoFault
                           \/ Fault /\ (applied \/ skipped)

-----------------------------------------------------------------------------
(* Writes to the documents.                                                *)

Put(r, d) == doc' = [doc EXCEPT ![r] = d]

Failed(d) == IF Active(d) THEN [d EXCEPT !.status = "failed",
                                         !.done = Stopped(d.attempt)]
                          ELSE d
FailedAttempt(d, a) == IF d.attempt = a THEN Failed(d) ELSE d

Cancelled(d) == [d EXCEPT !.status = "cancelled", !.done = Stopped(d.attempt)]

\* BeginResume; its filter is on the attempt it reads itself.
Flipped(d) == [d EXCEPT !.status = "running", !.attempt = @ + 1,
                        !.resumed = Resumed(d.attempt + 1), !.done = 0]

\* ClearPolicyReservationID.
Cleared(d) == [d EXCEPT !.handle = FALSE, !.stamp = 0]

\* StampReservationOwnerEndedAt: written once.
Stamped(d, m) == IF d.stamp = 0 THEN [d EXCEPT !.stamp = m] ELSE d

\* GetOtherRunningByProject.
Others(r) == {s \in Runs \ {r} : Active(doc[s])}

\* The reservation of r is closed, for the first time or again.
Close(r, status, by, ended) ==
  /\ slot' = [slot EXCEPT ![r] = "closed"]
  /\ closing' = IF slot[r] = "open"
                THEN [closing EXCEPT ![r] = [status |-> status, by |-> by,
                                             ended |-> ended]]
                ELSE closing
StaysOpen == UNCHANGED <<slot, closing>>

-----------------------------------------------------------------------------
(* StartRun.                                                               *)

StartGoes(r, pc) == start' = [start EXCEPT ![r] = pc]
StartFrame == UNCHANGED <<resume, cancel, callback, tick, requests, restarts>>

\* Create, on the way to the overlap check or past it.
CreatesRun(r) ==
  /\ start[r] = "none" /\ doc[r] = Absent
  /\ Put(r, [Absent EXCEPT !.status = "pending"])
  /\ \E skip \in IF Metered THEN Overlap ELSE {TRUE} :
       StartGoes(r, IF skip THEN "checking" ELSE "reserving")
  /\ NoFault
  /\ StartFrame /\ UNCHANGED <<slot, closing, alive, watch, stored>>

\* GetRunningByProject returns any active run of the project, the one just
\* created among them; an error counts as none.
ChecksOverlap(r) ==
  /\ start[r] = "checking"
  /\ \/ /\ \E s \in Runs : /\ Active(doc[s])
                           /\ StartGoes(r, IF s = r THEN "reserving" ELSE "yielding")
        /\ NoFault
     \/ /\ \A s \in Runs : ~Active(doc[s])
        /\ StartGoes(r, "reserving")
        /\ NoFault
     \/ StartGoes(r, "reserving") /\ Fault
  /\ StartFrame /\ UNCHANGED <<doc, slot, closing, alive, watch, stored>>

\* The start gives way: it cancels its own run.
Yields(r) ==
  /\ start[r] = "yielding"
  /\ Tried(Put(r, Cancelled(doc[r])), UNCHANGED doc)
  /\ StartGoes(r, "done")
  /\ StartFrame /\ UNCHANGED <<slot, closing, alive, watch, stored>>

\* CheckStartDiscoveryRun: one slot per project, taken atomically; or it
\* refuses, for that or for another reason.
Reserves(r) ==
  /\ start[r] = "reserving"
  /\ IF ~Metered
     THEN StartGoes(r, "spawning") /\ UNCHANGED slot
     ELSE \/ /\ \A s \in Runs : slot[s] # "open"
             /\ slot' = [slot EXCEPT ![r] = "open"]
             /\ StartGoes(r, "storing")
          \/ StartGoes(r, "denied") /\ UNCHANGED slot
  /\ NoFault
  /\ StartFrame /\ UNCHANGED <<doc, closing, alive, watch, stored>>

\* SetPolicyReservationID; a failure is logged.
StoresHandle(r) ==
  /\ start[r] = "storing"
  /\ Tried(/\ Put(r, [doc[r] EXCEPT !.handle = TRUE])
           /\ stored' = stored \cup {r},
           UNCHANGED <<doc, stored>>)
  /\ StartGoes(r, "charging")
  /\ StartFrame /\ UNCHANGED <<slot, closing, alive, watch>>

\* ChargeIfMetered.
Charges(r) ==
  /\ start[r] = "charging"
  /\ \E pc \in {"spawning", "releasing"} : StartGoes(r, pc)
  /\ NoFault
  /\ StartFrame /\ UNCHANGED <<doc, slot, closing, alive, watch, stored>>

\* The charge was refused: Release, then Fail.
ReleasesSlot(r) ==
  /\ start[r] = "releasing"
  /\ Tried(Close(r, "released", "start", 0), StaysOpen)
  /\ StartGoes(r, "denied")
  /\ StartFrame /\ UNCHANGED <<doc, alive, watch, stored>>

FailsDenied(r) ==
  /\ start[r] = "denied"
  /\ Tried(Put(r, Failed(doc[r])), UNCHANGED doc)
  /\ StartGoes(r, "done")
  /\ StartFrame /\ UNCHANGED <<slot, closing, alive, watch, stored>>

\* The runner starts the agent of attempt 1, or cannot.
Spawns(r) ==
  /\ start[r] = "spawning"
  /\ \/ /\ alive' = [alive EXCEPT ![r] = @ \cup {1}]
        /\ watch' = [watch EXCEPT ![r] = @ \cup {1}]
        /\ StartGoes(r, "done")
        /\ NoFault
     \/ StartGoes(r, "unspawned") /\ Fault /\ UNCHANGED <<alive, watch>>
  /\ StartFrame /\ UNCHANGED <<doc, slot, closing, stored>>

\* No agent: Fail, Release, and only after it ClearPolicyReservationID.
FailsUnspawned(r) ==
  /\ start[r] = "unspawned"
  /\ Tried(Put(r, Failed(doc[r])), UNCHANGED doc)
  /\ StartGoes(r, IF Metered THEN "returning" ELSE "done")
  /\ StartFrame /\ UNCHANGED <<slot, closing, alive, watch, stored>>

ReturnsSlot(r) ==
  /\ start[r] = "returning"
  /\ \/ Close(r, "released", "start", 0) /\ NoFault /\ StartGoes(r, "clearing")
     \/ /\ Fault /\ StartGoes(r, "done")
        /\ Close(r, "released", "start", 0) \/ StaysOpen
  /\ StartFrame /\ UNCHANGED <<doc, alive, watch, stored>>

ClearsReturned(r) ==
  /\ start[r] = "clearing"
  /\ Tried(Put(r, Cleared(doc[r])), UNCHANGED doc)
  /\ StartGoes(r, "done")
  /\ StartFrame /\ UNCHANGED <<slot, closing, alive, watch, stored>>

StartStep(r) ==
  \/ CreatesRun(r) \/ ChecksOverlap(r) \/ Yields(r) \/ Reserves(r)
  \/ StoresHandle(r) \/ Charges(r) \/ ReleasesSlot(r) \/ FailsDenied(r)
  \/ Spawns(r) \/ FailsUnspawned(r) \/ ReturnsSlot(r) \/ ClearsReturned(r)

-----------------------------------------------------------------------------
(* ResumeRun.                                                              *)

NoResume == [at |-> "none", attempt |-> 0, handle |-> FALSE, ended |-> 0]

ResumeGoes(r, pc) == resume' = [resume EXCEPT ![r].at = pc]
ResumeEnds(r) == resume' = [resume EXCEPT ![r] = NoResume]
ResumeFrame == UNCHANGED <<start, cancel, callback, tick, restarts, stored>>

\* GetByID, and the gates.
ReadsRun(r) ==
  /\ resume[r].at = "none" /\ requests < MaxRequests
  /\ Resumable(doc[r])
  /\ resume' = [resume EXCEPT ![r] = [at |-> "read", attempt |-> 0,
                                      handle |-> doc[r].handle,
                                      ended |-> OwnerEndedAt(doc[r])]]
  /\ requests' = requests + 1 /\ NoFault
  /\ ResumeFrame /\ UNCHANGED <<doc, slot, closing, alive, watch>>

\* The check before the flip; an error refuses too.
Prechecks(r) ==
  /\ resume[r].at = "read"
  /\ \/ Others(r) = {} /\ ResumeGoes(r, "checked") /\ NoFault
     \/ Others(r) # {} /\ ResumeEnds(r) /\ NoFault
  /\ ResumeFrame /\ UNCHANGED <<doc, slot, closing, alive, watch, requests>>

\* BeginResume; a run that is no longer resumable refuses.
Flips(r) ==
  /\ resume[r].at = "checked"
  /\ IF Resumable(doc[r])
     THEN /\ doc[r].attempt < MaxAttempt
          /\ Put(r, Flipped(doc[r]))
          /\ resume' = [resume EXCEPT ![r].at = "flipped",
                                      ![r].attempt = doc[r].attempt + 1]
     ELSE ResumeEnds(r) /\ UNCHANGED doc
  /\ NoFault
  /\ ResumeFrame /\ UNCHANGED <<slot, closing, alive, watch, requests>>

StampsOwnersEnd(r) ==
  /\ resume[r].at = "flipped"
  /\ IF resume[r].handle /\ resume[r].ended # 0
     THEN Tried(Put(r, Stamped(doc[r], resume[r].ended)), UNCHANGED doc)
     ELSE UNCHANGED doc /\ NoFault
  /\ ResumeGoes(r, "stamped")
  /\ ResumeFrame /\ UNCHANGED <<slot, closing, alive, watch, requests>>

\* Whether the check after the flip lets the resume go on.
AnyRun(r)      == TRUE
AloneActive(r) == Others(r) = {}

\* The check after the flip; an error stands the attempt down too.
Rechecks(r) ==
  /\ resume[r].at = "stamped"
  /\ \/ /\ AloneActive(r)
        /\ ResumeGoes(r, IF resume[r].handle THEN "confirming" ELSE "spawning")
        /\ NoFault
     \/ ~AloneActive(r) /\ ResumeGoes(r, "standing") /\ NoFault
     \/ ResumeGoes(r, "standing") /\ Fault
  /\ ResumeFrame /\ UNCHANGED <<doc, slot, closing, alive, watch, requests>>

\* standDownResume, also after a spawn that failed.
StandsDown(r) ==
  /\ resume[r].at = "standing"
  /\ Tried(Put(r, FailedAttempt(doc[r], resume[r].attempt)), UNCHANGED doc)
  /\ ResumeEnds(r)
  /\ ResumeFrame /\ UNCHANGED <<slot, closing, alive, watch, requests>>

\* Where a resume goes with the reservation confirmed, or perhaps not.
EvenUnconfirmed(confirmed) == "clearing"
AfterConfirm(confirmed) == IF confirmed THEN "clearing" ELSE "spawning"

\* The superseded attempt's reservation ends with that attempt.
ConfirmsSuperseded(r) ==
  /\ resume[r].at = "confirming"
  /\ LET close == Close(r, "failure", "resume", resume[r].ended)
     IN \/ close /\ ResumeGoes(r, AfterConfirm(TRUE)) /\ NoFault
        \/ Fault /\ ResumeGoes(r, AfterConfirm(FALSE)) /\ (close \/ StaysOpen)
  /\ ResumeFrame /\ UNCHANGED <<doc, alive, watch, requests>>

ClearsSuperseded(r) ==
  /\ resume[r].at = "clearing"
  /\ Tried(Put(r, Cleared(doc[r])), UNCHANGED doc)
  /\ ResumeGoes(r, "spawning")
  /\ ResumeFrame /\ UNCHANGED <<slot, closing, alive, watch, requests>>

Respawns(r) ==
  /\ resume[r].at = "spawning"
  /\ LET a == resume[r].attempt
     IN \/ /\ alive' = [alive EXCEPT ![r] = @ \cup {a}]
           /\ watch' = [watch EXCEPT ![r] = @ \cup {a}]
           /\ ResumeEnds(r)
           /\ NoFault
        \/ ResumeGoes(r, "standing") /\ Fault /\ UNCHANGED <<alive, watch>>
  /\ ResumeFrame /\ UNCHANGED <<doc, slot, closing, requests>>

ResumeStep(r) ==
  \/ ReadsRun(r) \/ Prechecks(r) \/ Flips(r) \/ StampsOwnersEnd(r) \/ Rechecks(r)
  \/ StandsDown(r) \/ ConfirmsSuperseded(r) \/ ClearsSuperseded(r) \/ Respawns(r)

-----------------------------------------------------------------------------
(* CancelRun.  The kill is AgentDies, which may happen or not.             *)

NoCancel == [at |-> "none", status |-> "none", handle |-> FALSE, ended |-> 0]

CancelFrame == UNCHANGED <<start, resume, agents, tick, restarts, stored>>

\* GetByID.  An end time of 0 is the time of the confirm.
ReadsForCancel(r) ==
  /\ cancel[r].at = "none" /\ requests < MaxRequests
  /\ Active(doc[r]) \/ doc[r].status = "paused"
  /\ LET dead == Superseded(doc[r])
     IN cancel' = [cancel EXCEPT ![r] =
                     [at |-> "read", handle |-> doc[r].handle,
                      status |-> IF dead THEN "failure" ELSE "cancelled",
                      ended |-> IF dead THEN OwnerEndedAt(doc[r]) ELSE 0]]
  /\ requests' = requests + 1 /\ NoFault
  /\ CancelFrame /\ UNCHANGED <<doc, slot, closing>>

\* RunRepository.Cancel, whatever became of the run; a failure is logged.
Cancels(r) ==
  /\ cancel[r].at = "read"
  /\ Tried(Put(r, Cancelled(doc[r])), UNCHANGED doc)
  /\ cancel' = [cancel EXCEPT ![r] = IF cancel[r].handle
                                     THEN [@ EXCEPT !.at = "confirming"]
                                     ELSE NoCancel]
  /\ CancelFrame /\ UNCHANGED <<slot, closing, requests>>

\* The id stays on the document, for the confirmer to clear.
ConfirmsCancelled(r) ==
  /\ cancel[r].at = "confirming"
  /\ Tried(Close(r, cancel[r].status, "cancel",
                 IF cancel[r].status = "failure" THEN cancel[r].ended
                 ELSE Stopped(doc[r].attempt)),
           StaysOpen)
  /\ cancel' = [cancel EXCEPT ![r] = NoCancel]
  /\ CancelFrame /\ UNCHANGED <<doc, requests>>

CancelStep(r) == ReadsForCancel(r) \/ Cancels(r) \/ ConfirmsCancelled(r)

-----------------------------------------------------------------------------
(* Agents, their watchers, and the failure callback of a start.            *)

AgentFrame == UNCHANGED <<slot, closing, api, tick, bounds, stored>>

Leaves(r, a, cleanly) ==
  /\ alive' = [alive EXCEPT ![r] = @ \ {a}]
  /\ watch' = IF cleanly THEN [watch EXCEPT ![r] = @ \ {a}] ELSE watch
  /\ UNCHANGED callback

\* UpdateStatus: also out of the `failed` of a sweep.
AgentWorks(r, a) ==
  /\ a \in alive[r]
  /\ doc[r].attempt = a /\ doc[r].status \in {"pending", "failed"}
  /\ Put(r, [doc[r] EXCEPT !.status = "running"])
  /\ AgentFrame /\ UNCHANGED agents

\* Complete, Fail and Pause, with the exit that follows.
AgentEnds(r, a) ==
  /\ a \in alive[r] /\ doc[r].attempt = a
  /\ \/ /\ doc[r].status # "cancelled"
        /\ Put(r, [doc[r] EXCEPT !.status = "completed", !.done = Stopped(a)])
        /\ Leaves(r, a, TRUE)
     \/ /\ Active(doc[r])
        /\ Put(r, Failed(doc[r]))
        /\ Leaves(r, a, FALSE)
     \/ /\ doc[r].status = "running"
        /\ Put(r, [doc[r] EXCEPT !.status = "paused", !.paused = Stopped(a)])
        /\ Leaves(r, a, TRUE)
  /\ AgentFrame

\* The agent finds the run cancelled or on another attempt, or it dies.
AgentStops(r, a) ==
  /\ a \in alive[r]
  /\ \/ /\ doc[r].status = "cancelled" \/ doc[r].attempt # a
        /\ Leaves(r, a, TRUE)
     \/ Leaves(r, a, FALSE)
  /\ UNCHANGED doc
  /\ AgentFrame

\* OnFailure: FailAttempt; the one of a start then confirms.
WatcherFires(r, a) ==
  /\ a \in watch[r] \ alive[r]
  /\ Put(r, FailedAttempt(doc[r], a))
  /\ watch' = [watch EXCEPT ![r] = @ \ {a}]
  /\ callback' = IF a = 1 /\ slot[r] # "none" THEN callback \cup {r} ELSE callback
  /\ AgentFrame /\ UNCHANGED alive

CallbackConfirms(r) ==
  /\ r \in callback
  /\ callback' = callback \ {r}
  /\ Tried(Close(r, "failure", "callback", Stopped(1)), StaysOpen)
  /\ UNCHANGED <<doc, api, alive, watch, tick, requests, restarts, stored>>

AgentStep(r) == \/ CallbackConfirms(r)
                \/ \E a \in Attempts : \/ AgentWorks(r, a) \/ AgentEnds(r, a)
                                       \/ AgentStops(r, a) \/ WatcherFires(r, a)

-----------------------------------------------------------------------------
(* The confirmer.                                                          *)

\* reservationOutcomeFor.
RunStatus(d) == CASE d.status = "completed" -> "success"
                  [] d.status = "cancelled" -> "cancelled"
                  [] OTHER -> "failure"
OfTheRun(d) == [status |-> RunStatus(d), by |-> "confirmer", ended |-> d.done]
OutcomeFor(d) ==
  IF Superseded(d)
  THEN [status |-> "failure", by |-> "confirmer", ended |-> OwnerEndedAt(d)]
  ELSE [status |-> RunStatus(d), by |-> "confirmer", ended |-> d.done]

\* ListTerminalWithReservation's filter.
EvenPending(d) == d.handle /\ d.status \notin {"absent", "running", "paused"}
NeverFailed(d) == d.handle /\ d.status \in {"completed", "cancelled"}
Listable(d)    == d.handle /\ Terminal(d)

\* ListTerminalWithReservation, once the last list has been worked through.
ListsTerminal ==
  /\ clearing = {} /\ \A r \in Runs : listed[r] = NoOutcome
  /\ \E r \in Runs : Listable(doc[r])
  /\ listed' = [r \in Runs |-> IF Listable(doc[r]) THEN OutcomeFor(doc[r])
                                                 ELSE NoOutcome]
  /\ NoFault
  /\ UNCHANGED <<doc, slot, closing, api, agents, clearing, requests, restarts, stored>>

\* ConfirmDiscoveryRunEnded; after a failure the next tick retries.
ConfirmsListed(r) ==
  /\ listed[r] # NoOutcome /\ clearing = {}
  /\ listed' = [listed EXCEPT ![r] = NoOutcome]
  /\ LET close == Close(r, listed[r].status, "confirmer", listed[r].ended)
     IN \/ close /\ clearing' = {r} /\ NoFault
        \/ Fault /\ UNCHANGED clearing /\ (close \/ StaysOpen)
  /\ UNCHANGED <<doc, api, agents, requests, restarts, stored>>

ClearsListed(r) ==
  /\ r \in clearing
  /\ clearing' = {}
  /\ Tried(Put(r, Cleared(doc[r])), UNCHANGED doc)
  /\ UNCHANGED <<slot, closing, api, agents, listed, requests, restarts, stored>>

ConfirmerStep == \/ ListsTerminal
                 \/ \E r \in Runs : ConfirmsListed(r) \/ ClearsListed(r)

-----------------------------------------------------------------------------
\* CleanupStaleRuns, when a replica starts.  The replica before it may have
\* taken its watchers along; the agents live on.
ApiStarts ==
  /\ restarts < MaxRestarts
  /\ restarts' = restarts + 1
  /\ doc' = [r \in Runs |-> Failed(doc[r])]
  /\ watch' \in {watch, [r \in Runs |-> {}]}
  /\ UNCHANGED <<slot, closing, api, alive, callback, tick, requests, faults, stored>>

\* A request dies with its replica, or its client's context ends it.
RequestDies(r) ==
  /\ Fault
  /\ \/ /\ start[r] \notin {"none", "done"}
        /\ StartGoes(r, "done")
        /\ UNCHANGED <<resume, cancel>>
     \/ /\ resume[r] # NoResume
        /\ ResumeEnds(r)
        /\ UNCHANGED <<start, cancel>>
     \/ /\ cancel[r] # NoCancel
        /\ cancel' = [cancel EXCEPT ![r] = NoCancel]
        /\ UNCHANGED <<start, resume>>
  /\ UNCHANGED <<doc, slot, closing, agents, tick, requests, restarts, stored>>

\* Each run is still to be started, or failed long ago.
Init ==
  /\ doc \in [Runs -> {Absent, [Absent EXCEPT !.status = "failed",
                                              !.done = Stopped(1)]}]
  /\ slot = [r \in Runs |-> "none"]
  /\ closing = [r \in Runs |-> NoOutcome]
  /\ start = [r \in Runs |-> "none"]
  /\ resume = [r \in Runs |-> NoResume]
  /\ cancel = [r \in Runs |-> NoCancel]
  /\ alive = [r \in Runs |-> {}]
  /\ watch = [r \in Runs |-> {}]
  /\ callback = {}
  /\ listed = [r \in Runs |-> NoOutcome]
  /\ clearing = {}
  /\ requests = 0 /\ restarts = 0 /\ faults = 0
  /\ stored = {}

Next == \/ \E r \in Runs : \/ StartStep(r) \/ ResumeStep(r) \/ CancelStep(r)
                           \/ AgentStep(r) \/ RequestDies(r)
        \/ ConfirmerStep
        \/ ApiStarts

Spec == Init /\ [][Next]_vars

\* The confirmer ticks as long as a replica runs.
FairSpec == Spec /\ WF_vars(ConfirmerStep)

-----------------------------------------------------------------------------
(* Properties.                                                             *)

StartPlaces  == {"none", "checking", "yielding", "reserving", "storing", "charging",
                 "spawning", "releasing", "denied", "unspawned", "returning",
                 "clearing", "done"}
\* Where a resume is once it has made the attempt it is going to start.
Underway     == {"flipped", "stamped", "confirming", "clearing", "spawning", "standing"}
ResumePlaces == {"none", "read", "checked"} \cup Underway
CancelPlaces == {"none", "read", "confirming"}

TypeOK ==
  /\ doc \in [Runs -> Docs]
  /\ slot \in [Runs -> {"none", "open", "closed"}]
  /\ closing \in [Runs -> Outcomes]
  /\ start \in [Runs -> StartPlaces]
  /\ resume \in [Runs -> [at : ResumePlaces, attempt : 0..MaxAttempt,
                          handle : BOOLEAN, ended : Moments]]
  /\ cancel \in [Runs -> [at : CancelPlaces, status : {"none", "failure", "cancelled"},
                          handle : BOOLEAN, ended : Moments]]
  /\ alive \in [Runs -> SUBSET Attempts] /\ watch \in [Runs -> SUBSET Attempts]
  /\ callback \subseteq Runs /\ stored \subseteq Runs
  /\ listed \in [Runs -> Outcomes] /\ clearing \subseteq Runs
  /\ requests \in 0..MaxRequests /\ restarts \in 0..MaxRestarts
  /\ faults \in 0..MaxFaults

Works(r) == Active(doc[r]) /\ doc[r].attempt \in alive[r]

\* Two resumes of a project never both go on to work, whatever each saw before
\* its flip (the recheck of ResumeRun), as long as no sweep calls a working run
\* failed.
ResumesExclude ==
  restarts = 0 => \A r, s \in Runs : Works(r) /\ Works(s) /\ r # s =>
    doc[r].attempt = 1 \/ doc[s].attempt = 1

\* A run on its first attempt works under an open reservation, so of fresh runs
\* the checker admits at most one: nothing closes one that is in use, but for
\* the cancel that confirms although its own write to the document failed.
FreshRunHoldsItsSlot ==
  Metered /\ restarts = 0 => \A r \in Runs :
    Works(r) /\ doc[r].attempt = 1 =>
      slot[r] = "open" \/ (closing[r].by = "cancel" /\ faults # 0)

\* The id on the document is the only handle anyone has on a reservation:
\* while the reservation is open, nobody takes the id away.
OpenReservationKeepsItsHandle ==
  \A r \in stored : slot[r] = "open" => doc[r].handle

\* A reservation is closed as a success only if the attempt that opened it
\* succeeded: a resumed attempt's outcome is never charged to it.
SuccessIsTheOwners ==
  \A r \in Runs : closing[r].status = "success" => closing[r].ended = Stopped(1)

\* Whoever closes a reservation as failed, the resume, a cancel or the
\* confirmer, and however often the run was resumed, paused and stood down in
\* between: the attempt that opened it is not charged for time after the resume
\* that replaced it, or after a later resume if a round trip failed (the stamp,
\* and the resume stood down); for a later attempt's own work it never is.
\* (Not so when a sweep fails the run before its start has stored the
\* reservation's id.)
EndTimeIsTheOwners ==
  faults <= 1 /\ restarts = 0 => \A r \in Runs :
    closing[r].status = "failure" /\ closing[r].by # "callback" =>
      \/ closing[r].ended \in {Stopped(1), Resumed(2)}
      \/ faults = 1 /\ \E a \in Attempts \ {1} : closing[r].ended = Resumed(a)

\* The reservation of a run that has ended is closed, by the confirmer if by
\* nobody else, unless the run is resumed first.
EndedRunFreesItsSlot ==
  \A r \in Runs : Terminal(doc[r]) /\ doc[r].handle /\ slot[r] = "open"
                    ~> slot[r] = "closed" \/ ~Terminal(doc[r])

\* What the API reference says of a start: it is refused while a discovery of
\* the project is running.
OneRunWorks == \A r, s \in Runs : Works(r) /\ Works(s) => r = s

=============================================================================
