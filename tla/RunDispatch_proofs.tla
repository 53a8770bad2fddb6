------------------------- MODULE RunDispatch_proofs -------------------------
(***************************************************************************)
(* For any number of runs, attempts and requests, and any failures: no two *)
(* resumed runs of a project work at once (ResumesExclude), a fresh run's  *)
(* reservation stays open (FreshRunHoldsItsSlot), nobody takes away the    *)
(* only handle on one (OpenReservationKeepsItsHandle), and it is closed    *)
(* with the outcome and the time of the attempt that opened it             *)
(* (SuccessIsTheOwners, EndTimeIsTheOwners).                               *)
(*                                                                         *)
(* Nearly every step is of one run, and leaves the others as they are      *)
(* (Elsewhere).  So the invariant is one of each run, but for OnePassed,   *)
(* and what a step does to its run is said field by field (XDoes) before   *)
(* it is used.                                                             *)
(***************************************************************************)
EXTENDS RunDispatch, TLAPS

-----------------------------------------------------------------------------
(* The documents.                                                          *)

\* What the writes make of a document is a document, with the attempt and the
\* fields it says.
LEMMA DocWrites ==
  ASSUME NEW d \in Docs
  PROVE  /\ Failed(d) \in Docs /\ Cancelled(d) \in Docs /\ Cleared(d) \in Docs
         /\ \A a : FailedAttempt(d, a) \in Docs
         /\ \A m \in Moments : Stamped(d, m) \in Docs
         /\ d.attempt < MaxAttempt => Flipped(d) \in Docs
         /\ OwnerEndedAt(d) \in Moments
<1>1. Stopped(d.attempt) \in Moments
  BY DispatchAssumption DEF Docs, Attempts, Moments, Stopped
<1>2. Failed(d) \in Docs /\ Cancelled(d) \in Docs /\ Cleared(d) \in Docs
  <2> HIDE DEF Stopped, Moments
  <2>0. 0 \in Moments
    BY DispatchAssumption DEF Moments
  <2> QED  BY <1>1, <2>0 DEF Docs, Failed, Cancelled, Cleared, Statuses
<1>3. \A a : FailedAttempt(d, a) \in Docs
  BY <1>2 DEF FailedAttempt
<1>4. \A m \in Moments : Stamped(d, m) \in Docs
  BY DEF Docs, Stamped
<1>5. d.attempt < MaxAttempt => Flipped(d) \in Docs
  <2> SUFFICES ASSUME d.attempt < MaxAttempt PROVE Flipped(d) \in Docs
    OBVIOUS
  <2>1. d.attempt + 1 \in Attempts /\ Resumed(d.attempt + 1) \in Moments /\ 0 \in Moments
    BY DispatchAssumption DEF Docs, Attempts, Moments, Resumed
  <2> HIDE DEF Resumed, Moments, Attempts
  <2> QED  BY <2>1 DEF Docs, Flipped, Statuses
<1>6. OwnerEndedAt(d) \in Moments
  BY DEF Docs, OwnerEndedAt
<1> QED  BY <1>2, <1>3, <1>4, <1>5, <1>6

\* The outcome of a document is an outcome, and not the one that stands for none.
LEMMA OutcomeType ==
  ASSUME NEW d \in Docs
  PROVE  OutcomeFor(d) \in Outcomes /\ OutcomeFor(d) # NoOutcome
BY DocWrites DEF OutcomeFor, RunStatus, Outcomes, NoOutcome, Docs

Resumes == [at : ResumePlaces, attempt : 0..MaxAttempt, handle : BOOLEAN, ended : Moments]
CancelsOf == [at : CancelPlaces, status : {"none", "failure", "cancelled"},
              handle : BOOLEAN, ended : Moments]

\* The bounds of the types.
LEMMA Bounds == 0 \in Moments /\ 1 \in Attempts /\ Stopped(1) \in Moments /\ 0 \in 0..MaxAttempt
BY DispatchAssumption DEF Moments, Attempts, Stopped

\* A document is put in its place.
LEMMA PutType ==
  ASSUME TypeOK, NEW r \in Runs, NEW d \in Docs, Put(r, d)
  PROVE  doc' \in [Runs -> Docs]
BY DEF TypeOK, Put

\* A reservation is closed with an outcome.
LEMMA CloseType ==
  ASSUME TypeOK, NEW r \in Runs, NEW o \in Outcomes, Close(r, o.status, o.by, o.ended)
  PROVE  /\ slot' \in [Runs -> {"none", "open", "closed"}]
         /\ closing' \in [Runs -> Outcomes]
<1>1. slot' \in [Runs -> {"none", "open", "closed"}]
  BY DEF TypeOK, Close
<1>2. [status |-> o.status, by |-> o.by, ended |-> o.ended] \in Outcomes
  BY DEF Outcomes
<1>3. closing' \in [Runs -> Outcomes]
  BY <1>2 DEF TypeOK, Close
<1> QED  BY <1>1, <1>3

\* A request goes on, or ends.
LEMMA GoesType ==
  ASSUME TypeOK, NEW r \in Runs
  PROVE  /\ \A pc \in StartPlaces : StartGoes(r, pc) => start' \in [Runs -> StartPlaces]
         /\ \A pc \in ResumePlaces : ResumeGoes(r, pc) => resume' \in [Runs -> Resumes]
         /\ ResumeEnds(r) => resume' \in [Runs -> Resumes]
<1>1. NoResume \in Resumes
  BY Bounds DEF NoResume, Resumes, ResumePlaces
<1>2. resume \in [Runs -> Resumes]
  BY DEF TypeOK, Resumes
<1>3. \A pc \in ResumePlaces : [resume[r] EXCEPT !.at = pc] \in Resumes
  BY <1>2 DEF Resumes
<1>4. \A pc \in ResumePlaces : ResumeGoes(r, pc) => resume' \in [Runs -> Resumes]
  BY <1>2, <1>3 DEF ResumeGoes
<1>5. ResumeEnds(r) => resume' \in [Runs -> Resumes]
  BY <1>1, <1>2 DEF ResumeEnds
<1> QED  BY <1>4, <1>5 DEF TypeOK, StartGoes

\* A failure is counted up to its bound.
LEMMA FaultType == ASSUME TypeOK, Fault \/ NoFault PROVE faults' \in 0..MaxFaults
BY DispatchAssumption DEF TypeOK, Fault, NoFault

\* Attempts begin in order: no agent is of an attempt the run has not made, and
\* one that a resume has made and not started has none.
OrderOf(r) ==
  /\ \A a \in alive[r] \cup watch[r] : a <= doc[r].attempt
  /\ resume[r].at \in Underway =>
       /\ resume[r].attempt = doc[r].attempt /\ doc[r].attempt > 1
       /\ doc[r].attempt \notin alive[r] \cup watch[r]
  /\ start[r] # "done" => 1 \notin alive[r] \cup watch[r]
OrderInv == \A r \in Runs : OrderOf(r)

-----------------------------------------------------------------------------
(* Types.                                                                  *)

\* The project starts within its types.
LEMMA InitType == Init => TypeOK
<1> SUFFICES ASSUME Init PROVE TypeOK
  OBVIOUS
<1>1. 0 \in Moments /\ 1 \in Attempts /\ Stopped(1) \in Moments
  BY DispatchAssumption DEF Moments, Attempts, Stopped
<1>2. doc \in [Runs -> Docs]
  <2> HIDE DEF Moments, Attempts, Stopped
  <2>1. Absent \in Docs /\ [Absent EXCEPT !.status = "failed", !.done = Stopped(1)] \in Docs
    BY <1>1 DEF Absent, Docs, Statuses
  <2> QED  BY <2>1 DEF Init
<1>3. NoOutcome \in Outcomes
  BY <1>1 DEF NoOutcome, Outcomes
<1>4. NoResume \in [at : ResumePlaces, attempt : 0..MaxAttempt, handle : BOOLEAN, ended : Moments]
  BY <1>1, DispatchAssumption DEF NoResume, ResumePlaces
<1>5. NoCancel \in [at : CancelPlaces, status : {"none", "failure", "cancelled"},
                    handle : BOOLEAN, ended : Moments]
  BY <1>1 DEF NoCancel, CancelPlaces
<1>6. requests \in 0..MaxRequests /\ restarts \in 0..MaxRestarts /\ faults \in 0..MaxFaults
  BY DispatchAssumption DEF Init
<1> QED  BY <1>2, <1>3, <1>4, <1>5, <1>6 DEF Init, TypeOK, StartPlaces

\* TypeOK, one part at a time.
DocsTyped     == doc \in [Runs -> Docs]
SlotsTyped    == /\ slot \in [Runs -> {"none", "open", "closed"}]
                 /\ closing \in [Runs -> Outcomes]
RequestsTyped == /\ start \in [Runs -> StartPlaces] /\ resume \in [Runs -> Resumes]
                 /\ cancel \in [Runs -> CancelsOf]
AgentsTyped   == /\ alive \in [Runs -> SUBSET Attempts]
                 /\ watch \in [Runs -> SUBSET Attempts]
                 /\ callback \subseteq Runs
CountsTyped   == /\ listed \in [Runs -> Outcomes] /\ clearing \subseteq Runs
                 /\ stored \subseteq Runs
                 /\ requests \in 0..MaxRequests /\ restarts \in 0..MaxRestarts
                 /\ faults \in 0..MaxFaults

\* What the other writes make of a document is a document.
LEMMA OtherWrites ==
  ASSUME NEW d \in Docs, NEW a \in Attempts
  PROVE  /\ [d EXCEPT !.status = "completed", !.done = Stopped(a)] \in Docs
         /\ [d EXCEPT !.status = "paused", !.paused = Stopped(a)] \in Docs
         /\ [d EXCEPT !.status = "running"] \in Docs
         /\ [d EXCEPT !.handle = TRUE] \in Docs
<1>1. Stopped(a) \in Moments
  BY DispatchAssumption DEF Attempts, Moments, Stopped
<1> HIDE DEF Stopped, Moments
<1> QED  BY <1>1 DEF Docs, Statuses

\* A step writes documents to documents.
LEMMA DocType ==
  ASSUME TypeOK, [Next]_vars
  PROVE  DocsTyped'
<1> USE DEF DocsTyped
<1>1. ASSUME NEW r \in Runs, CreatesRun(r) PROVE DocsTyped'
  BY <1>1, PutType, Bounds DEF CreatesRun, Absent, Docs, Statuses
<1>2. ASSUME NEW r \in Runs, ChecksOverlap(r) PROVE DocsTyped'
  BY <1>2 DEF ChecksOverlap, StartFrame, TypeOK
<1>3. ASSUME NEW r \in Runs, Yields(r) PROVE DocsTyped'
  BY <1>3, PutType, DocWrites DEF Yields, StartFrame, TypeOK, Tried
<1>4. ASSUME NEW r \in Runs, Reserves(r) PROVE DocsTyped'
  BY <1>4 DEF Reserves, StartFrame, TypeOK
<1>5. ASSUME NEW r \in Runs, StoresHandle(r) PROVE DocsTyped'
  BY <1>5, PutType, OtherWrites, Bounds DEF StoresHandle, TypeOK, Tried
<1>6. ASSUME NEW r \in Runs, Charges(r) PROVE DocsTyped'
  BY <1>6 DEF Charges, StartFrame, TypeOK
<1>7. ASSUME NEW r \in Runs, ReleasesSlot(r) PROVE DocsTyped'
  BY <1>7 DEF ReleasesSlot, StartFrame, TypeOK
<1>8. ASSUME NEW r \in Runs, FailsDenied(r) PROVE DocsTyped'
  BY <1>8, PutType, DocWrites DEF FailsDenied, StartFrame, TypeOK, Tried
<1>9. ASSUME NEW r \in Runs, Spawns(r) PROVE DocsTyped'
  BY <1>9 DEF Spawns, StartFrame, TypeOK
<1>10. ASSUME NEW r \in Runs, FailsUnspawned(r) PROVE DocsTyped'
  BY <1>10, PutType, DocWrites DEF FailsUnspawned, StartFrame, TypeOK, Tried
<1>11. ASSUME NEW r \in Runs, ReturnsSlot(r) PROVE DocsTyped'
  BY <1>11 DEF ReturnsSlot, StartFrame, TypeOK
<1>12. ASSUME NEW r \in Runs, ClearsReturned(r) PROVE DocsTyped'
  BY <1>12, PutType, DocWrites DEF ClearsReturned, StartFrame, TypeOK, Tried
<1>13. ASSUME NEW r \in Runs, ReadsRun(r) PROVE DocsTyped'
  BY <1>13 DEF ReadsRun, ResumeFrame, TypeOK
<1>14. ASSUME NEW r \in Runs, Prechecks(r) PROVE DocsTyped'
  BY <1>14 DEF Prechecks, ResumeFrame, TypeOK
<1>15. ASSUME NEW r \in Runs, Flips(r) PROVE DocsTyped'
  BY <1>15, PutType, DocWrites DEF Flips, ResumeFrame, TypeOK, Tried
<1>16. ASSUME NEW r \in Runs, StampsOwnersEnd(r) PROVE DocsTyped'
  BY <1>16, PutType, DocWrites DEF StampsOwnersEnd, TypeOK, Tried
<1>17. ASSUME NEW r \in Runs, Rechecks(r) PROVE DocsTyped'
  BY <1>17 DEF Rechecks, ResumeFrame, TypeOK
<1>18. ASSUME NEW r \in Runs, StandsDown(r) PROVE DocsTyped'
  BY <1>18, PutType, DocWrites DEF StandsDown, ResumeFrame, TypeOK, Tried
<1>19. ASSUME NEW r \in Runs, ConfirmsSuperseded(r) PROVE DocsTyped'
  BY <1>19 DEF ConfirmsSuperseded, ResumeFrame, TypeOK
<1>20. ASSUME NEW r \in Runs, ClearsSuperseded(r) PROVE DocsTyped'
  BY <1>20, PutType, DocWrites DEF ClearsSuperseded, ResumeFrame, TypeOK, Tried
<1>21. ASSUME NEW r \in Runs, Respawns(r) PROVE DocsTyped'
  BY <1>21 DEF Respawns, ResumeFrame, TypeOK
<1>22. ASSUME NEW r \in Runs, ReadsForCancel(r) PROVE DocsTyped'
  BY <1>22 DEF ReadsForCancel, CancelFrame, TypeOK, agents
<1>23. ASSUME NEW r \in Runs, Cancels(r) PROVE DocsTyped'
  BY <1>23, PutType, DocWrites DEF Cancels, CancelFrame, TypeOK, Tried
<1>24. ASSUME NEW r \in Runs, ConfirmsCancelled(r) PROVE DocsTyped'
  BY <1>24 DEF ConfirmsCancelled, CancelFrame, TypeOK, agents
<1>25. ASSUME NEW r \in Runs, CallbackConfirms(r) PROVE DocsTyped'
  BY <1>25 DEF CallbackConfirms, TypeOK
<1>26. ASSUME NEW r \in Runs, NEW a \in Attempts, AgentWorks(r, a) PROVE DocsTyped'
  BY <1>26, PutType, OtherWrites DEF AgentWorks, TypeOK
<1>27. ASSUME NEW r \in Runs, NEW a \in Attempts, AgentEnds(r, a) PROVE DocsTyped'
  BY <1>27, PutType, DocWrites, OtherWrites DEF AgentEnds, TypeOK
<1>28. ASSUME NEW r \in Runs, NEW a \in Attempts, AgentStops(r, a) PROVE DocsTyped'
  BY <1>28 DEF AgentStops, AgentFrame, TypeOK
<1>29. ASSUME NEW r \in Runs, NEW a \in Attempts, WatcherFires(r, a) PROVE DocsTyped'
  BY <1>29, PutType, DocWrites DEF WatcherFires, AgentFrame, TypeOK, Tried
<1>30. ASSUME NEW r \in Runs, RequestDies(r) PROVE DocsTyped'
  BY <1>30 DEF RequestDies, TypeOK
<1>31. CASE ListsTerminal
  BY <1>31 DEF ListsTerminal, TypeOK
<1>32. ASSUME NEW r \in Runs, ConfirmsListed(r) PROVE DocsTyped'
  BY <1>32 DEF ConfirmsListed, TypeOK
<1>33. ASSUME NEW r \in Runs, ClearsListed(r) PROVE DocsTyped'
  BY <1>33, PutType, DocWrites DEF ClearsListed, TypeOK, Tried
<1>34. CASE ApiStarts
  BY <1>34, DocWrites DEF ApiStarts, TypeOK
<1>35. CASE UNCHANGED vars
  BY <1>35 DEF vars, api, agents, tick, bounds, TypeOK
<1> QED  BY <1>1, <1>2, <1>3, <1>4, <1>5, <1>6, <1>7, <1>8, <1>9, <1>10, <1>11,
            <1>12, <1>13, <1>14, <1>15, <1>16, <1>17, <1>18, <1>19, <1>20, <1>21,
            <1>22, <1>23, <1>24, <1>25, <1>26, <1>27, <1>28, <1>29, <1>30, <1>31,
            <1>32, <1>33, <1>34, <1>35 DEF Next, StartStep, ResumeStep,
            CancelStep, AgentStep, ConfirmerStep

\* The outcomes that reservations are closed with are outcomes.
LEMMA CloseCases ==
  ASSUME TypeOK, NEW r \in Runs, NEW m \in Moments,
         \/ Close(r, "released", "start", m)
         \/ Close(r, "failure", "callback", m)
         \/ Close(r, "failure", "resume", m)
         \/ Close(r, cancel[r].status, "cancel", m)
         \/ Close(r, listed[r].status, "confirmer", m)
         \/ StaysOpen
  PROVE  /\ slot' \in [Runs -> {"none", "open", "closed"}]
         /\ closing' \in [Runs -> Outcomes]
<1>1. \A s \in {"released", "failure", cancel[r].status, listed[r].status},
         by \in {"start", "callback", "resume", "cancel", "confirmer"} :
        [status |-> s, by |-> by, ended |-> m] \in Outcomes
  BY DEF TypeOK, Outcomes
<1>2. slot' \in [Runs -> {"none", "open", "closed"}]
  BY DEF TypeOK, Close, StaysOpen
<1>3. closing' \in [Runs -> Outcomes]
  BY <1>1 DEF TypeOK, Close, StaysOpen
<1> QED  BY <1>2, <1>3

\* The moment a run stopped is a moment.
LEMMA StoppedType ==
  ASSUME TypeOK, NEW r \in Runs
  PROVE  Stopped(doc[r].attempt) \in Moments
<1>1. doc[r].attempt \in Attempts
  BY DEF TypeOK, Docs
<1> QED  BY <1>1, DispatchAssumption DEF Attempts, Moments, Stopped

\* A step keeps reservations and their outcomes typed.
LEMMA SlotType ==
  ASSUME TypeOK, [Next]_vars
  PROVE  SlotsTyped'
<1> USE DEF SlotsTyped
<1>1. ASSUME NEW r \in Runs, CreatesRun(r) PROVE SlotsTyped'
  BY <1>1 DEF CreatesRun, StartFrame, TypeOK
<1>2. ASSUME NEW r \in Runs, ChecksOverlap(r) PROVE SlotsTyped'
  BY <1>2 DEF ChecksOverlap, StartFrame, TypeOK
<1>3. ASSUME NEW r \in Runs, Yields(r) PROVE SlotsTyped'
  BY <1>3 DEF Yields, StartFrame, TypeOK
<1>4. ASSUME NEW r \in Runs, Reserves(r) PROVE SlotsTyped'
  BY <1>4 DEF Reserves, StartFrame, TypeOK
<1>5. ASSUME NEW r \in Runs, StoresHandle(r) PROVE SlotsTyped'
  BY <1>5 DEF StoresHandle, StartFrame, TypeOK
<1>6. ASSUME NEW r \in Runs, Charges(r) PROVE SlotsTyped'
  BY <1>6 DEF Charges, StartFrame, TypeOK
<1>7. ASSUME NEW r \in Runs, ReleasesSlot(r) PROVE SlotsTyped'
  BY <1>7, CloseCases, Bounds DEF ReleasesSlot, StartFrame, Tried, StaysOpen
<1>8. ASSUME NEW r \in Runs, FailsDenied(r) PROVE SlotsTyped'
  BY <1>8 DEF FailsDenied, StartFrame, TypeOK
<1>9. ASSUME NEW r \in Runs, Spawns(r) PROVE SlotsTyped'
  BY <1>9 DEF Spawns, StartFrame, TypeOK
<1>10. ASSUME NEW r \in Runs, FailsUnspawned(r) PROVE SlotsTyped'
  BY <1>10 DEF FailsUnspawned, StartFrame, TypeOK
<1>11. ASSUME NEW r \in Runs, ReturnsSlot(r) PROVE SlotsTyped'
  BY <1>11, CloseCases, Bounds DEF ReturnsSlot, StartFrame, Tried, StaysOpen
<1>12. ASSUME NEW r \in Runs, ClearsReturned(r) PROVE SlotsTyped'
  BY <1>12 DEF ClearsReturned, StartFrame, TypeOK
<1>13. ASSUME NEW r \in Runs, ReadsRun(r) PROVE SlotsTyped'
  BY <1>13 DEF ReadsRun, ResumeFrame, TypeOK
<1>14. ASSUME NEW r \in Runs, Prechecks(r) PROVE SlotsTyped'
  BY <1>14 DEF Prechecks, ResumeFrame, TypeOK
<1>15. ASSUME NEW r \in Runs, Flips(r) PROVE SlotsTyped'
  BY <1>15 DEF Flips, ResumeFrame, TypeOK
<1>16. ASSUME NEW r \in Runs, StampsOwnersEnd(r) PROVE SlotsTyped'
  BY <1>16 DEF StampsOwnersEnd, ResumeFrame, TypeOK
<1>17. ASSUME NEW r \in Runs, Rechecks(r) PROVE SlotsTyped'
  BY <1>17 DEF Rechecks, ResumeFrame, TypeOK
<1>18. ASSUME NEW r \in Runs, StandsDown(r) PROVE SlotsTyped'
  BY <1>18 DEF StandsDown, ResumeFrame, TypeOK
<1>19. ASSUME NEW r \in Runs, ConfirmsSuperseded(r) PROVE SlotsTyped'
  BY <1>19, CloseCases DEF ConfirmsSuperseded, TypeOK, StaysOpen
<1>20. ASSUME NEW r \in Runs, ClearsSuperseded(r) PROVE SlotsTyped'
  BY <1>20 DEF ClearsSuperseded, ResumeFrame, TypeOK
<1>21. ASSUME NEW r \in Runs, Respawns(r) PROVE SlotsTyped'
  BY <1>21 DEF Respawns, ResumeFrame, TypeOK
<1>22. ASSUME NEW r \in Runs, ReadsForCancel(r) PROVE SlotsTyped'
  BY <1>22 DEF ReadsForCancel, CancelFrame, TypeOK
<1>23. ASSUME NEW r \in Runs, Cancels(r) PROVE SlotsTyped'
  BY <1>23 DEF Cancels, CancelFrame, TypeOK
<1>24. ASSUME NEW r \in Runs, ConfirmsCancelled(r) PROVE SlotsTyped'
  BY <1>24, CloseCases, StoppedType DEF ConfirmsCancelled, TypeOK, Tried, StaysOpen
<1>25. ASSUME NEW r \in Runs, CallbackConfirms(r) PROVE SlotsTyped'
  BY <1>25, CloseCases, Bounds DEF CallbackConfirms, Tried, StaysOpen
<1>26. ASSUME NEW r \in Runs, NEW a \in Attempts, AgentWorks(r, a) PROVE SlotsTyped'
  BY <1>26 DEF AgentWorks, AgentFrame, TypeOK
<1>27. ASSUME NEW r \in Runs, NEW a \in Attempts, AgentEnds(r, a) PROVE SlotsTyped'
  BY <1>27 DEF AgentEnds, AgentFrame, TypeOK
<1>28. ASSUME NEW r \in Runs, NEW a \in Attempts, AgentStops(r, a) PROVE SlotsTyped'
  BY <1>28 DEF AgentStops, AgentFrame, TypeOK
<1>29. ASSUME NEW r \in Runs, NEW a \in Attempts, WatcherFires(r, a) PROVE SlotsTyped'
  BY <1>29 DEF WatcherFires, AgentFrame, TypeOK
<1>30. ASSUME NEW r \in Runs, RequestDies(r) PROVE SlotsTyped'
  BY <1>30 DEF RequestDies, TypeOK
<1>31. CASE ListsTerminal
  BY <1>31 DEF ListsTerminal, TypeOK
<1>32. ASSUME NEW r \in Runs, ConfirmsListed(r) PROVE SlotsTyped'
  BY <1>32, CloseCases DEF ConfirmsListed, TypeOK, Outcomes, StaysOpen
<1>33. ASSUME NEW r \in Runs, ClearsListed(r) PROVE SlotsTyped'
  BY <1>33 DEF ClearsListed, TypeOK
<1>34. CASE ApiStarts
  BY <1>34 DEF ApiStarts, TypeOK
<1>35. CASE UNCHANGED vars
  BY <1>35 DEF vars, api, agents, tick, bounds, TypeOK
<1> QED  BY <1>1, <1>2, <1>3, <1>4, <1>5, <1>6, <1>7, <1>8, <1>9, <1>10, <1>11,
            <1>12, <1>13, <1>14, <1>15, <1>16, <1>17, <1>18, <1>19, <1>20, <1>21,
            <1>22, <1>23, <1>24, <1>25, <1>26, <1>27, <1>28, <1>29, <1>30, <1>31,
            <1>32, <1>33, <1>34, <1>35 DEF Next, StartStep, ResumeStep,
            CancelStep, AgentStep, ConfirmerStep

\* What a resume has read of its run, and what it has made of it.
LEMMA RequestReads ==
  ASSUME TypeOK, NEW r \in Runs,
         resume' = [resume EXCEPT ![r] = [at |-> "read", attempt |-> 0,
                                          handle |-> doc[r].handle,
                                          ended |-> OwnerEndedAt(doc[r])]]
  PROVE  resume' \in [Runs -> Resumes]
<1>1. doc[r].handle \in BOOLEAN /\ OwnerEndedAt(doc[r]) \in Moments
  BY DocWrites DEF TypeOK, Docs
<1>2. [at |-> "read", attempt |-> 0, handle |-> doc[r].handle,
       ended |-> OwnerEndedAt(doc[r])] \in Resumes
  BY <1>1, Bounds DEF Resumes, ResumePlaces
<1> QED  BY <1>2 DEF TypeOK, Resumes

\* A resume remembers the attempt it has made.
LEMMA RequestFlips ==
  ASSUME TypeOK, NEW r \in Runs, doc[r].attempt < MaxAttempt,
         resume' = [resume EXCEPT ![r].at = "flipped", ![r].attempt = doc[r].attempt + 1]
  PROVE  resume' \in [Runs -> Resumes]
<1>1. doc[r].attempt + 1 \in 0..MaxAttempt
  BY DispatchAssumption DEF TypeOK, Docs, Attempts
<1>2. resume \in [Runs -> Resumes]
  BY DEF TypeOK, Resumes
<1>3. [resume[r] EXCEPT !.at = "flipped", !.attempt = doc[r].attempt + 1] \in Resumes
  BY <1>1, <1>2 DEF Resumes, ResumePlaces, Underway
<1> QED  BY <1>2, <1>3

\* The same of a cancel.
LEMMA CancelReads ==
  ASSUME TypeOK, NEW r \in Runs, NEW dead \in BOOLEAN,
         cancel' = [cancel EXCEPT ![r] =
                      [at |-> "read", handle |-> doc[r].handle,
                       status |-> IF dead THEN "failure" ELSE "cancelled",
                       ended |-> IF dead THEN OwnerEndedAt(doc[r]) ELSE 0]]
  PROVE  cancel' \in [Runs -> CancelsOf]
<1>1. doc[r].handle \in BOOLEAN /\ OwnerEndedAt(doc[r]) \in Moments
  BY DocWrites DEF TypeOK, Docs
<1>2. [at |-> "read", handle |-> doc[r].handle,
       status |-> IF dead THEN "failure" ELSE "cancelled",
       ended |-> IF dead THEN OwnerEndedAt(doc[r]) ELSE 0] \in CancelsOf
  BY <1>1, Bounds DEF CancelsOf, CancelPlaces
<1> QED  BY <1>2 DEF TypeOK, CancelsOf

\* A cancel goes on to confirm, or ends.
LEMMA CancelGoes ==
  ASSUME TypeOK, NEW r \in Runs
  PROVE  /\ [cancel EXCEPT ![r] = NoCancel] \in [Runs -> CancelsOf]
         /\ [cancel EXCEPT ![r] = [@ EXCEPT !.at = "confirming"]] \in [Runs -> CancelsOf]
<1>1. cancel \in [Runs -> CancelsOf]
  BY DEF TypeOK, CancelsOf
<1>2. NoCancel \in CancelsOf
  BY Bounds DEF NoCancel, CancelsOf, CancelPlaces
<1>3. [cancel[r] EXCEPT !.at = "confirming"] \in CancelsOf
  BY <1>1 DEF CancelsOf, CancelPlaces
<1> QED  BY <1>1, <1>2, <1>3

\* A step keeps the requests typed.
LEMMA RequestType ==
  ASSUME TypeOK, [Next]_vars
  PROVE  RequestsTyped'
<1> USE DEF RequestsTyped
<1>0. resume \in [Runs -> Resumes] /\ cancel \in [Runs -> CancelsOf]
  BY DEF TypeOK, Resumes, CancelsOf
<1> USE <1>0
<1>1. ASSUME NEW r \in Runs, CreatesRun(r) PROVE RequestsTyped'
  BY <1>1, GoesType DEF CreatesRun, StartFrame, TypeOK, StartPlaces
<1>2. ASSUME NEW r \in Runs, ChecksOverlap(r) PROVE RequestsTyped'
  BY <1>2, GoesType DEF ChecksOverlap, StartFrame, TypeOK, StartPlaces
<1>3. ASSUME NEW r \in Runs, Yields(r) PROVE RequestsTyped'
  BY <1>3, GoesType DEF Yields, StartFrame, TypeOK, StartPlaces
<1>4. ASSUME NEW r \in Runs, Reserves(r) PROVE RequestsTyped'
  BY <1>4, GoesType DEF Reserves, StartFrame, TypeOK, StartPlaces
<1>5. ASSUME NEW r \in Runs, StoresHandle(r) PROVE RequestsTyped'
  BY <1>5, GoesType DEF StoresHandle, StartFrame, TypeOK, StartPlaces
<1>6. ASSUME NEW r \in Runs, Charges(r) PROVE RequestsTyped'
  BY <1>6, GoesType DEF Charges, StartFrame, TypeOK, StartPlaces
<1>7. ASSUME NEW r \in Runs, ReleasesSlot(r) PROVE RequestsTyped'
  BY <1>7, GoesType DEF ReleasesSlot, StartFrame, TypeOK, StartPlaces
<1>8. ASSUME NEW r \in Runs, FailsDenied(r) PROVE RequestsTyped'
  BY <1>8, GoesType DEF FailsDenied, StartFrame, TypeOK, StartPlaces
<1>9. ASSUME NEW r \in Runs, Spawns(r) PROVE RequestsTyped'
  BY <1>9, GoesType DEF Spawns, StartFrame, TypeOK, StartPlaces
<1>10. ASSUME NEW r \in Runs, FailsUnspawned(r) PROVE RequestsTyped'
  BY <1>10, GoesType DEF FailsUnspawned, StartFrame, TypeOK, StartPlaces
<1>11. ASSUME NEW r \in Runs, ReturnsSlot(r) PROVE RequestsTyped'
  BY <1>11, GoesType DEF ReturnsSlot, StartFrame, TypeOK, StartPlaces
<1>12. ASSUME NEW r \in Runs, ClearsReturned(r) PROVE RequestsTyped'
  BY <1>12, GoesType DEF ClearsReturned, StartFrame, TypeOK, StartPlaces
<1>13. ASSUME NEW r \in Runs, ReadsRun(r) PROVE RequestsTyped'
  BY <1>13, RequestReads DEF ReadsRun, ResumeFrame, TypeOK
<1>14. ASSUME NEW r \in Runs, Prechecks(r) PROVE RequestsTyped'
  BY <1>14, GoesType DEF Prechecks, ResumeFrame, TypeOK, ResumePlaces, Underway
<1>15. ASSUME NEW r \in Runs, Flips(r) PROVE RequestsTyped'
  BY <1>15, GoesType, RequestFlips DEF Flips, ResumeFrame, TypeOK
<1>16. ASSUME NEW r \in Runs, StampsOwnersEnd(r) PROVE RequestsTyped'
  BY <1>16, GoesType DEF StampsOwnersEnd, ResumeFrame, TypeOK, ResumePlaces, Underway
<1>17. ASSUME NEW r \in Runs, Rechecks(r) PROVE RequestsTyped'
  BY <1>17, GoesType DEF Rechecks, ResumeFrame, TypeOK, ResumePlaces, Underway
<1>18. ASSUME NEW r \in Runs, StandsDown(r) PROVE RequestsTyped'
  BY <1>18, GoesType DEF StandsDown, ResumeFrame, TypeOK, ResumePlaces, Underway
<1>19. ASSUME NEW r \in Runs, ConfirmsSuperseded(r) PROVE RequestsTyped'
  BY <1>19, GoesType DEF ConfirmsSuperseded, AfterConfirm, ResumeFrame, TypeOK,
     ResumePlaces, Underway
<1>20. ASSUME NEW r \in Runs, ClearsSuperseded(r) PROVE RequestsTyped'
  BY <1>20, GoesType DEF ClearsSuperseded, ResumeFrame, TypeOK, ResumePlaces, Underway
<1>21. ASSUME NEW r \in Runs, Respawns(r) PROVE RequestsTyped'
  BY <1>21, GoesType DEF Respawns, ResumeFrame, TypeOK, ResumePlaces, Underway
<1>22. ASSUME NEW r \in Runs, ReadsForCancel(r) PROVE RequestsTyped'
  BY <1>22, CancelReads DEF ReadsForCancel, CancelFrame, TypeOK
<1>23. ASSUME NEW r \in Runs, Cancels(r) PROVE RequestsTyped'
  BY <1>23, CancelGoes DEF Cancels, CancelFrame, TypeOK
<1>24. ASSUME NEW r \in Runs, ConfirmsCancelled(r) PROVE RequestsTyped'
  BY <1>24, CancelGoes DEF ConfirmsCancelled, CancelFrame, TypeOK
<1>25. ASSUME NEW r \in Runs, CallbackConfirms(r) PROVE RequestsTyped'
  BY <1>25 DEF CallbackConfirms, TypeOK, api
<1>26. ASSUME NEW r \in Runs, NEW a \in Attempts, AgentWorks(r, a) PROVE RequestsTyped'
  BY <1>26 DEF AgentWorks, AgentFrame, TypeOK, api
<1>27. ASSUME NEW r \in Runs, NEW a \in Attempts, AgentEnds(r, a) PROVE RequestsTyped'
  BY <1>27 DEF AgentEnds, AgentFrame, TypeOK, api
<1>28. ASSUME NEW r \in Runs, NEW a \in Attempts, AgentStops(r, a) PROVE RequestsTyped'
  BY <1>28 DEF AgentStops, AgentFrame, TypeOK, api
<1>29. ASSUME NEW r \in Runs, NEW a \in Attempts, WatcherFires(r, a) PROVE RequestsTyped'
  BY <1>29 DEF WatcherFires, AgentFrame, TypeOK, api
<1>30. ASSUME NEW r \in Runs, RequestDies(r) PROVE RequestsTyped'
  <2>1. CASE StartGoes(r, "done") /\ UNCHANGED <<resume, cancel>>
    BY <2>1, GoesType DEF TypeOK, StartPlaces
  <2>2. CASE ResumeEnds(r) /\ UNCHANGED <<start, cancel>>
    BY <2>2, GoesType DEF TypeOK
  <2>3. CASE cancel' = [cancel EXCEPT ![r] = NoCancel] /\ UNCHANGED <<start, resume>>
    BY <2>3, CancelGoes DEF TypeOK
  <2> QED  BY <1>30, <2>1, <2>2, <2>3 DEF RequestDies
<1>31. CASE ListsTerminal
  BY <1>31 DEF ListsTerminal, TypeOK, api
<1>32. ASSUME NEW r \in Runs, ConfirmsListed(r) PROVE RequestsTyped'
  BY <1>32 DEF ConfirmsListed, TypeOK, api
<1>33. ASSUME NEW r \in Runs, ClearsListed(r) PROVE RequestsTyped'
  BY <1>33 DEF ClearsListed, TypeOK, api
<1>34. CASE ApiStarts
  BY <1>34 DEF ApiStarts, TypeOK, api
<1>35. CASE UNCHANGED vars
  BY <1>35 DEF vars, api, agents, tick, bounds, TypeOK
<1> QED  BY <1>1, <1>2, <1>3, <1>4, <1>5, <1>6, <1>7, <1>8, <1>9, <1>10, <1>11,
            <1>12, <1>13, <1>14, <1>15, <1>16, <1>17, <1>18, <1>19, <1>20, <1>21,
            <1>22, <1>23, <1>24, <1>25, <1>26, <1>27, <1>28, <1>29, <1>30, <1>31,
            <1>32, <1>33, <1>34, <1>35 DEF Next, StartStep, ResumeStep,
            CancelStep, AgentStep, ConfirmerStep

\* Agents and watchers come and go.
LEMMA AgentGoes ==
  ASSUME TypeOK, NEW r \in Runs, NEW a \in Attempts
  PROVE  /\ alive' = [alive EXCEPT ![r] = @ \cup {a}] => alive' \in [Runs -> SUBSET Attempts]
         /\ alive' = [alive EXCEPT ![r] = @ \ {a}] => alive' \in [Runs -> SUBSET Attempts]
         /\ watch' = [watch EXCEPT ![r] = @ \cup {a}] => watch' \in [Runs -> SUBSET Attempts]
         /\ watch' = [watch EXCEPT ![r] = @ \ {a}] => watch' \in [Runs -> SUBSET Attempts]
<1> HIDE DEF Attempts
<1>1. alive \in [Runs -> SUBSET Attempts] /\ watch \in [Runs -> SUBSET Attempts]
  BY DEF TypeOK
<1> QED  BY <1>1

\* An agent leaves, with or without its watcher.
LEMMA LeavesType ==
  ASSUME TypeOK, NEW r \in Runs, NEW a \in Attempts, NEW cleanly, Leaves(r, a, cleanly)
  PROVE  AgentsTyped'
BY AgentGoes DEF Leaves, TypeOK, AgentsTyped

\* A resume starts an agent of an attempt of the run.
LEMMA RespawnsOwn ==
  ASSUME TypeOK, OrderInv, NEW r \in Runs, resume[r].at \in Underway
  PROVE  resume[r].attempt \in Attempts
BY DEF TypeOK, OrderInv, OrderOf, Docs

\* A step keeps the agents and their watchers typed.
LEMMA AgentType ==
  ASSUME TypeOK, OrderInv, [Next]_vars
  PROVE  AgentsTyped'
<1> USE DEF AgentsTyped
<1>1. ASSUME NEW r \in Runs, CreatesRun(r) PROVE AgentsTyped'
  BY <1>1 DEF CreatesRun, StartFrame, TypeOK
<1>2. ASSUME NEW r \in Runs, ChecksOverlap(r) PROVE AgentsTyped'
  BY <1>2 DEF ChecksOverlap, StartFrame, TypeOK
<1>3. ASSUME NEW r \in Runs, Yields(r) PROVE AgentsTyped'
  BY <1>3 DEF Yields, StartFrame, TypeOK
<1>4. ASSUME NEW r \in Runs, Reserves(r) PROVE AgentsTyped'
  BY <1>4 DEF Reserves, StartFrame, TypeOK
<1>5. ASSUME NEW r \in Runs, StoresHandle(r) PROVE AgentsTyped'
  BY <1>5 DEF StoresHandle, StartFrame, TypeOK
<1>6. ASSUME NEW r \in Runs, Charges(r) PROVE AgentsTyped'
  BY <1>6 DEF Charges, StartFrame, TypeOK
<1>7. ASSUME NEW r \in Runs, ReleasesSlot(r) PROVE AgentsTyped'
  BY <1>7 DEF ReleasesSlot, StartFrame, TypeOK
<1>8. ASSUME NEW r \in Runs, FailsDenied(r) PROVE AgentsTyped'
  BY <1>8 DEF FailsDenied, StartFrame, TypeOK
<1>9. ASSUME NEW r \in Runs, Spawns(r) PROVE AgentsTyped'
  BY <1>9, AgentGoes, Bounds DEF Spawns, StartFrame, TypeOK
<1>10. ASSUME NEW r \in Runs, FailsUnspawned(r) PROVE AgentsTyped'
  BY <1>10 DEF FailsUnspawned, StartFrame, TypeOK
<1>11. ASSUME NEW r \in Runs, ReturnsSlot(r) PROVE AgentsTyped'
  BY <1>11 DEF ReturnsSlot, StartFrame, TypeOK
<1>12. ASSUME NEW r \in Runs, ClearsReturned(r) PROVE AgentsTyped'
  BY <1>12 DEF ClearsReturned, StartFrame, TypeOK
<1>13. ASSUME NEW r \in Runs, ReadsRun(r) PROVE AgentsTyped'
  BY <1>13 DEF ReadsRun, ResumeFrame, TypeOK
<1>14. ASSUME NEW r \in Runs, Prechecks(r) PROVE AgentsTyped'
  BY <1>14 DEF Prechecks, ResumeFrame, TypeOK
<1>15. ASSUME NEW r \in Runs, Flips(r) PROVE AgentsTyped'
  BY <1>15 DEF Flips, ResumeFrame, TypeOK
<1>16. ASSUME NEW r \in Runs, StampsOwnersEnd(r) PROVE AgentsTyped'
  BY <1>16 DEF StampsOwnersEnd, ResumeFrame, TypeOK
<1>17. ASSUME NEW r \in Runs, Rechecks(r) PROVE AgentsTyped'
  BY <1>17 DEF Rechecks, ResumeFrame, TypeOK
<1>18. ASSUME NEW r \in Runs, StandsDown(r) PROVE AgentsTyped'
  BY <1>18 DEF StandsDown, ResumeFrame, TypeOK
<1>19. ASSUME NEW r \in Runs, ConfirmsSuperseded(r) PROVE AgentsTyped'
  BY <1>19 DEF ConfirmsSuperseded, ResumeFrame, TypeOK
<1>20. ASSUME NEW r \in Runs, ClearsSuperseded(r) PROVE AgentsTyped'
  BY <1>20 DEF ClearsSuperseded, ResumeFrame, TypeOK
<1>21. ASSUME NEW r \in Runs, Respawns(r) PROVE AgentsTyped'
  BY <1>21, AgentGoes, RespawnsOwn DEF Respawns, ResumeFrame, Underway, TypeOK
<1>22. ASSUME NEW r \in Runs, ReadsForCancel(r) PROVE AgentsTyped'
  BY <1>22 DEF ReadsForCancel, CancelFrame, agents, TypeOK
<1>23. ASSUME NEW r \in Runs, Cancels(r) PROVE AgentsTyped'
  BY <1>23 DEF Cancels, CancelFrame, agents, TypeOK
<1>24. ASSUME NEW r \in Runs, ConfirmsCancelled(r) PROVE AgentsTyped'
  BY <1>24 DEF ConfirmsCancelled, CancelFrame, agents, TypeOK
<1>25. ASSUME NEW r \in Runs, CallbackConfirms(r) PROVE AgentsTyped'
  BY <1>25 DEF CallbackConfirms, TypeOK
<1>26. ASSUME NEW r \in Runs, NEW a \in Attempts, AgentWorks(r, a) PROVE AgentsTyped'
  BY <1>26 DEF AgentWorks, AgentFrame, agents, TypeOK
<1>27. ASSUME NEW r \in Runs, NEW a \in Attempts, AgentEnds(r, a) PROVE AgentsTyped'
  BY <1>27, AgentGoes, LeavesType DEF AgentEnds, AgentFrame
<1>28. ASSUME NEW r \in Runs, NEW a \in Attempts, AgentStops(r, a) PROVE AgentsTyped'
  BY <1>28, AgentGoes, LeavesType DEF AgentStops, AgentFrame
<1>29. ASSUME NEW r \in Runs, NEW a \in Attempts, WatcherFires(r, a) PROVE AgentsTyped'
  BY <1>29, AgentGoes DEF WatcherFires, AgentFrame, TypeOK
<1>30. ASSUME NEW r \in Runs, RequestDies(r) PROVE AgentsTyped'
  BY <1>30 DEF RequestDies, agents, TypeOK
<1>31. CASE ListsTerminal
  BY <1>31 DEF ListsTerminal, agents, TypeOK
<1>32. ASSUME NEW r \in Runs, ConfirmsListed(r) PROVE AgentsTyped'
  BY <1>32 DEF ConfirmsListed, agents, TypeOK
<1>33. ASSUME NEW r \in Runs, ClearsListed(r) PROVE AgentsTyped'
  BY <1>33 DEF ClearsListed, agents, TypeOK
<1>34. CASE ApiStarts
  BY <1>34 DEF ApiStarts, TypeOK
<1>35. CASE UNCHANGED vars
  BY <1>35 DEF vars, api, agents, tick, bounds, TypeOK
<1> QED  BY <1>1, <1>2, <1>3, <1>4, <1>5, <1>6, <1>7, <1>8, <1>9, <1>10, <1>11,
            <1>12, <1>13, <1>14, <1>15, <1>16, <1>17, <1>18, <1>19, <1>20, <1>21,
            <1>22, <1>23, <1>24, <1>25, <1>26, <1>27, <1>28, <1>29, <1>30, <1>31,
            <1>32, <1>33, <1>34, <1>35 DEF Next, StartStep, ResumeStep,
            CancelStep, AgentStep, ConfirmerStep

\* A step keeps the confirmer and the counts typed.
LEMMA CountType ==
  ASSUME TypeOK, [Next]_vars
  PROVE  CountsTyped'
<1> USE DEF CountsTyped
<1>1. ASSUME NEW r \in Runs, CreatesRun(r) PROVE CountsTyped'
  BY <1>1, FaultType DEF CreatesRun, StartFrame, tick, bounds, Tried, TypeOK
<1>2. ASSUME NEW r \in Runs, ChecksOverlap(r) PROVE CountsTyped'
  BY <1>2, FaultType DEF ChecksOverlap, StartFrame, tick, bounds, Tried, TypeOK
<1>3. ASSUME NEW r \in Runs, Yields(r) PROVE CountsTyped'
  BY <1>3, FaultType DEF Yields, StartFrame, tick, bounds, Tried, TypeOK
<1>4. ASSUME NEW r \in Runs, Reserves(r) PROVE CountsTyped'
  BY <1>4, FaultType DEF Reserves, StartFrame, tick, bounds, Tried, TypeOK
<1>5. ASSUME NEW r \in Runs, StoresHandle(r) PROVE CountsTyped'
  BY <1>5, FaultType DEF StoresHandle, StartFrame, tick, bounds, Tried, TypeOK
<1>6. ASSUME NEW r \in Runs, Charges(r) PROVE CountsTyped'
  BY <1>6, FaultType DEF Charges, StartFrame, tick, bounds, Tried, TypeOK
<1>7. ASSUME NEW r \in Runs, ReleasesSlot(r) PROVE CountsTyped'
  BY <1>7, FaultType DEF ReleasesSlot, StartFrame, tick, bounds, Tried, TypeOK
<1>8. ASSUME NEW r \in Runs, FailsDenied(r) PROVE CountsTyped'
  BY <1>8, FaultType DEF FailsDenied, StartFrame, tick, bounds, Tried, TypeOK
<1>9. ASSUME NEW r \in Runs, Spawns(r) PROVE CountsTyped'
  BY <1>9, FaultType DEF Spawns, StartFrame, tick, bounds, Tried, TypeOK
<1>10. ASSUME NEW r \in Runs, FailsUnspawned(r) PROVE CountsTyped'
  BY <1>10, FaultType DEF FailsUnspawned, StartFrame, tick, bounds, Tried, TypeOK
<1>11. ASSUME NEW r \in Runs, ReturnsSlot(r) PROVE CountsTyped'
  BY <1>11, FaultType DEF ReturnsSlot, StartFrame, tick, bounds, Tried, TypeOK
<1>12. ASSUME NEW r \in Runs, ClearsReturned(r) PROVE CountsTyped'
  BY <1>12, FaultType DEF ClearsReturned, StartFrame, tick, bounds, Tried, TypeOK
<1>13. ASSUME NEW r \in Runs, ReadsRun(r) PROVE CountsTyped'
  BY <1>13, FaultType, DispatchAssumption DEF ReadsRun, ResumeFrame, tick, TypeOK
<1>14. ASSUME NEW r \in Runs, Prechecks(r) PROVE CountsTyped'
  BY <1>14, FaultType DEF Prechecks, ResumeFrame, tick, bounds, Tried, TypeOK
<1>15. ASSUME NEW r \in Runs, Flips(r) PROVE CountsTyped'
  BY <1>15, FaultType DEF Flips, ResumeFrame, tick, bounds, Tried, TypeOK
<1>16. ASSUME NEW r \in Runs, StampsOwnersEnd(r) PROVE CountsTyped'
  BY <1>16, FaultType DEF StampsOwnersEnd, ResumeFrame, tick, bounds, Tried, TypeOK
<1>17. ASSUME NEW r \in Runs, Rechecks(r) PROVE CountsTyped'
  BY <1>17, FaultType DEF Rechecks, ResumeFrame, tick, bounds, Tried, TypeOK
<1>18. ASSUME NEW r \in Runs, StandsDown(r) PROVE CountsTyped'
  BY <1>18, FaultType DEF StandsDown, ResumeFrame, tick, bounds, Tried, TypeOK
<1>19. ASSUME NEW r \in Runs, ConfirmsSuperseded(r) PROVE CountsTyped'
  BY <1>19, FaultType DEF ConfirmsSuperseded, ResumeFrame, tick, bounds, Tried, TypeOK
<1>20. ASSUME NEW r \in Runs, ClearsSuperseded(r) PROVE CountsTyped'
  BY <1>20, FaultType DEF ClearsSuperseded, ResumeFrame, tick, bounds, Tried, TypeOK
<1>21. ASSUME NEW r \in Runs, Respawns(r) PROVE CountsTyped'
  BY <1>21, FaultType DEF Respawns, ResumeFrame, tick, bounds, Tried, TypeOK
<1>22. ASSUME NEW r \in Runs, ReadsForCancel(r) PROVE CountsTyped'
  BY <1>22, FaultType, DispatchAssumption DEF ReadsForCancel, CancelFrame, tick,
     TypeOK
<1>23. ASSUME NEW r \in Runs, Cancels(r) PROVE CountsTyped'
  BY <1>23, FaultType DEF Cancels, CancelFrame, tick, bounds, Tried, TypeOK
<1>24. ASSUME NEW r \in Runs, ConfirmsCancelled(r) PROVE CountsTyped'
  BY <1>24, FaultType DEF ConfirmsCancelled, CancelFrame, tick, bounds, Tried, TypeOK
<1>25. ASSUME NEW r \in Runs, CallbackConfirms(r) PROVE CountsTyped'
  BY <1>25, FaultType DEF CallbackConfirms, tick, Tried, TypeOK
<1>26. ASSUME NEW r \in Runs, NEW a \in Attempts, AgentWorks(r, a) PROVE CountsTyped'
  BY <1>26, FaultType DEF AgentWorks, AgentFrame, tick, bounds, Tried, TypeOK
<1>27. ASSUME NEW r \in Runs, NEW a \in Attempts, AgentEnds(r, a) PROVE CountsTyped'
  BY <1>27, FaultType DEF AgentEnds, AgentFrame, tick, bounds, Tried, TypeOK
<1>28. ASSUME NEW r \in Runs, NEW a \in Attempts, AgentStops(r, a) PROVE CountsTyped'
  BY <1>28, FaultType DEF AgentStops, AgentFrame, tick, bounds, Tried, TypeOK
<1>29. ASSUME NEW r \in Runs, NEW a \in Attempts, WatcherFires(r, a) PROVE CountsTyped'
  BY <1>29, FaultType DEF WatcherFires, AgentFrame, tick, bounds, Tried, TypeOK
<1>30. ASSUME NEW r \in Runs, RequestDies(r) PROVE CountsTyped'
  BY <1>30, FaultType DEF RequestDies, tick, Tried, TypeOK
<1>31. CASE ListsTerminal
  BY <1>31, FaultType, OutcomeType, Bounds DEF ListsTerminal, TypeOK, Outcomes,
     NoOutcome
<1>32. ASSUME NEW r \in Runs, ConfirmsListed(r) PROVE CountsTyped'
  BY <1>32, FaultType, Bounds DEF ConfirmsListed, TypeOK, Outcomes, NoOutcome
<1>33. ASSUME NEW r \in Runs, ClearsListed(r) PROVE CountsTyped'
  BY <1>33, FaultType DEF ClearsListed, Tried, TypeOK
<1>34. CASE ApiStarts
  BY <1>34, DispatchAssumption DEF ApiStarts, tick, TypeOK
<1>35. CASE UNCHANGED vars
  BY <1>35 DEF vars, api, agents, tick, bounds, TypeOK
<1> QED  BY <1>1, <1>2, <1>3, <1>4, <1>5, <1>6, <1>7, <1>8, <1>9, <1>10, <1>11,
            <1>12, <1>13, <1>14, <1>15, <1>16, <1>17, <1>18, <1>19, <1>20, <1>21,
            <1>22, <1>23, <1>24, <1>25, <1>26, <1>27, <1>28, <1>29, <1>30, <1>31,
            <1>32, <1>33, <1>34, <1>35 DEF Next, StartStep, ResumeStep,
            CancelStep, AgentStep, ConfirmerStep

\* Every step keeps the types.
LEMMA TypeStep == ASSUME TypeOK, OrderInv, [Next]_vars PROVE TypeOK'
BY DocType, SlotType, RequestType, AgentType, CountType DEF TypeOK, DocsTyped,
   SlotsTyped, RequestsTyped, AgentsTyped, CountsTyped,
       Resumes, CancelsOf

-----------------------------------------------------------------------------
(* A step is of one run, but for a list of the confirmer and a sweep.      *)

RunStep(r) == \/ StartStep(r) \/ ResumeStep(r) \/ CancelStep(r) \/ AgentStep(r)
              \/ RequestDies(r) \/ ConfirmsListed(r) \/ ClearsListed(r)

\* What is known of run s stays as it is.
Same(s) == /\ doc'[s] = doc[s] /\ slot'[s] = slot[s] /\ closing'[s] = closing[s]
           /\ start'[s] = start[s] /\ resume'[s] = resume[s] /\ cancel'[s] = cancel[s]
           /\ alive'[s] = alive[s] /\ watch'[s] = watch[s] /\ listed'[s] = listed[s]
           /\ (s \in callback' <=> s \in callback) /\ (s \in stored' <=> s \in stored)
           /\ (s \in clearing' => s \in clearing)

\* Nothing happens but to run r, and a failure is counted.
Only(r) == /\ \A s \in Runs \ {r} : Same(s)
           /\ restarts' = restarts /\ faults' \in {faults, faults + 1}

\* Every step is one of these.
LEMMA Steps ==
  ASSUME [Next]_vars
  PROVE  \/ \E r \in Runs : RunStep(r)
         \/ ListsTerminal \/ ApiStarts \/ UNCHANGED vars
BY DEF Next, RunStep, ConfirmerStep

\* A step of one run leaves the others as they are.
LEMMA Elsewhere ==
  ASSUME TypeOK, NEW r \in Runs, RunStep(r)
  PROVE  Only(r)
<1> USE DEF TypeOK, Tried, NoFault, Fault, StartFrame, ResumeFrame, CancelFrame, AgentFrame,
           StartGoes, ResumeGoes, ResumeEnds, api, agents, tick, bounds,
           Only, Same, Put, NoCancel
<1>1. CASE CreatesRun(r)
  BY <1>1 DEF CreatesRun
<1>2. CASE ChecksOverlap(r)
  BY <1>2 DEF ChecksOverlap
<1>3. CASE Yields(r)
  BY <1>3 DEF Yields
<1>4. CASE Reserves(r)
  BY <1>4 DEF Reserves
<1>5. CASE StoresHandle(r)
  BY <1>5 DEF StoresHandle
<1>6. CASE Charges(r)
  BY <1>6 DEF Charges
<1>7. CASE ReleasesSlot(r)
  BY <1>7 DEF ReleasesSlot, Close, StaysOpen
<1>8. CASE FailsDenied(r)
  BY <1>8 DEF FailsDenied
<1>9. CASE Spawns(r)
  BY <1>9 DEF Spawns
<1>10. CASE FailsUnspawned(r)
  BY <1>10 DEF FailsUnspawned
<1>11. CASE ReturnsSlot(r)
  BY <1>11 DEF ReturnsSlot, Close, StaysOpen
<1>12. CASE ClearsReturned(r)
  BY <1>12 DEF ClearsReturned
<1>13. CASE ReadsRun(r)
  BY <1>13 DEF ReadsRun
<1>14. CASE Prechecks(r)
  BY <1>14 DEF Prechecks
<1>15. CASE Flips(r)
  BY <1>15 DEF Flips
<1>16. CASE StampsOwnersEnd(r)
  BY <1>16 DEF StampsOwnersEnd
<1>17. CASE Rechecks(r)
  BY <1>17 DEF Rechecks
<1>18. CASE StandsDown(r)
  BY <1>18 DEF StandsDown
<1>19. CASE ConfirmsSuperseded(r)
  BY <1>19 DEF ConfirmsSuperseded, Close, StaysOpen, AfterConfirm
<1>20. CASE ClearsSuperseded(r)
  BY <1>20 DEF ClearsSuperseded
<1>21. CASE Respawns(r)
  BY <1>21 DEF Respawns
<1>22. CASE ReadsForCancel(r)
  BY <1>22 DEF ReadsForCancel
<1>23. CASE Cancels(r)
  BY <1>23 DEF Cancels
<1>24. CASE ConfirmsCancelled(r)
  BY <1>24 DEF ConfirmsCancelled, Close, StaysOpen
<1>25. CASE CallbackConfirms(r)
  BY <1>25 DEF CallbackConfirms, Close, StaysOpen
<1>26. ASSUME NEW a \in Attempts, AgentWorks(r, a) PROVE Only(r)
  BY <1>26 DEF AgentWorks
<1>27. ASSUME NEW a \in Attempts, AgentEnds(r, a) PROVE Only(r)
  BY <1>27 DEF AgentEnds, Leaves
<1>28. ASSUME NEW a \in Attempts, AgentStops(r, a) PROVE Only(r)
  BY <1>28 DEF AgentStops, Leaves
<1>29. ASSUME NEW a \in Attempts, WatcherFires(r, a) PROVE Only(r)
  BY <1>29 DEF WatcherFires
<1>30. CASE RequestDies(r)
  BY <1>30 DEF RequestDies
<1>31. CASE ConfirmsListed(r)
  BY <1>31 DEF ConfirmsListed, Close, StaysOpen
<1>32. CASE ClearsListed(r)
  BY <1>32 DEF ClearsListed
<1> QED  BY <1>1, <1>2, <1>3, <1>4, <1>5, <1>6, <1>7, <1>8, <1>9, <1>10,
          <1>11, <1>12, <1>13, <1>14, <1>15, <1>16, <1>17, <1>18, <1>19,
          <1>20, <1>21, <1>22, <1>23, <1>24, <1>25, <1>26, <1>27, <1>28,
          <1>29, <1>30, <1>31, <1>32 DEF RunStep, StartStep, ResumeStep,
          CancelStep, AgentStep

-----------------------------------------------------------------------------
(* What single steps do to their run, field by field.                      *)

\* The types of what belongs to one run.
TypesOf(r) ==
  /\ doc[r] \in Docs /\ doc[r].attempt \in Nat \ {0} /\ doc[r].status \in Statuses
  /\ doc[r].handle \in BOOLEAN /\ doc[r].stamp \in Nat /\ doc[r].paused \in Nat
  /\ doc[r].resumed \in Nat /\ doc[r].done \in Nat
  /\ \A a \in alive[r] \cup watch[r] : a \in Nat
  /\ slot[r] \in {"none", "open", "closed"}
  /\ resume[r].handle \in BOOLEAN /\ resume[r].attempt \in Nat
  /\ cancel[r].handle \in BOOLEAN
  /\ cancel[r].status \in {"none", "failure", "cancelled"}
  /\ restarts \in Nat /\ faults \in Nat

\* They are what TypeOK says.
LEMMA TypesAt == ASSUME TypeOK, NEW r \in Runs PROVE TypesOf(r)
<1>1. doc[r] \in Docs
  BY DEF TypeOK
<1>2. /\ doc[r].attempt \in Nat \ {0} /\ doc[r].status \in Statuses
      /\ doc[r].handle \in BOOLEAN /\ doc[r].stamp \in Nat /\ doc[r].paused \in Nat
      /\ doc[r].resumed \in Nat /\ doc[r].done \in Nat
  BY <1>1, DispatchAssumption DEF Docs, Attempts, Moments
<1>3. \A a \in alive[r] \cup watch[r] : a \in Nat
  BY DispatchAssumption DEF TypeOK, Attempts
<1>4. /\ slot[r] \in {"none", "open", "closed"}
      /\ resume[r].handle \in BOOLEAN /\ resume[r].attempt \in Nat
      /\ cancel[r].handle \in BOOLEAN
      /\ cancel[r].status \in {"none", "failure", "cancelled"}
      /\ restarts \in Nat /\ faults \in Nat
  BY DispatchAssumption DEF TypeOK
<1> QED  BY <1>1, <1>2, <1>3, <1>4 DEF TypesOf

\* A resume goes on with what it has read, or is over.
Goes(r, pc) == /\ resume'[r].at = pc /\ resume'[r].attempt = resume[r].attempt
               /\ resume'[r].handle = resume[r].handle
               /\ resume'[r].ended = resume[r].ended
Ends(r)     == /\ resume'[r].at = "none" /\ resume'[r].attempt = 0
               /\ resume'[r].handle = FALSE /\ resume'[r].ended = 0

\* The reservation of r is closed; only an open one gets the outcome.
Shut(r, status, by, ended) ==
  /\ slot'[r] = "closed"
  /\ slot[r] = "open" => closing'[r] = [status |-> status, by |-> by, ended |-> ended]
  /\ slot[r] # "open" => closing'[r] = closing[r]

\* Closing is just that.
LEMMA CloseShuts ==
  ASSUME TypeOK, NEW r \in Runs, NEW status, NEW by, NEW ended, Close(r, status, by, ended)
  PROVE  Shut(r, status, by, ended)
BY DEF TypeOK, Close, Shut

\* The writes, field by field.
Keeps(r) == doc'[r] = doc[r]
ToFailed(r) ==
  /\ Active(doc[r]) => doc'[r].status = "failed" /\ doc'[r].done = Stopped(doc[r].attempt)
  /\ ~Active(doc[r]) => doc'[r].status = doc[r].status /\ doc'[r].done = doc[r].done
  /\ doc'[r].attempt = doc[r].attempt /\ doc'[r].handle = doc[r].handle
  /\ doc'[r].stamp = doc[r].stamp /\ doc'[r].paused = doc[r].paused
  /\ doc'[r].resumed = doc[r].resumed
ToCancelled(r) ==
  /\ doc'[r].status = "cancelled" /\ doc'[r].done = Stopped(doc[r].attempt)
  /\ doc'[r].attempt = doc[r].attempt /\ doc'[r].handle = doc[r].handle
  /\ doc'[r].stamp = doc[r].stamp /\ doc'[r].paused = doc[r].paused
  /\ doc'[r].resumed = doc[r].resumed
ToFlipped(r) ==
  /\ doc'[r].status = "running" /\ doc'[r].attempt = doc[r].attempt + 1
  /\ doc'[r].resumed = Resumed(doc[r].attempt + 1) /\ doc'[r].done = 0
  /\ doc'[r].handle = doc[r].handle /\ doc'[r].stamp = doc[r].stamp
  /\ doc'[r].paused = doc[r].paused
ToCleared(r) ==
  /\ doc'[r].handle = FALSE /\ doc'[r].stamp = 0
  /\ doc'[r].status = doc[r].status /\ doc'[r].attempt = doc[r].attempt
  /\ doc'[r].paused = doc[r].paused /\ doc'[r].resumed = doc[r].resumed
  /\ doc'[r].done = doc[r].done
ToStamped(r, m) ==
  /\ doc[r].stamp = 0 => doc'[r].stamp = m
  /\ doc[r].stamp # 0 => doc'[r].stamp = doc[r].stamp
  /\ doc'[r].status = doc[r].status /\ doc'[r].attempt = doc[r].attempt
  /\ doc'[r].handle = doc[r].handle /\ doc'[r].paused = doc[r].paused
  /\ doc'[r].resumed = doc[r].resumed /\ doc'[r].done = doc[r].done

\* They are what the operators say.
LEMMA Writes ==
  ASSUME TypeOK, NEW r \in Runs
  PROVE  /\ doc'[r] = Failed(doc[r]) => ToFailed(r)
         /\ doc'[r] = Cancelled(doc[r]) => ToCancelled(r)
         /\ doc'[r] = Flipped(doc[r]) => ToFlipped(r)
         /\ doc'[r] = Cleared(doc[r]) => ToCleared(r)
         /\ \A m : doc'[r] = Stamped(doc[r], m) => ToStamped(r, m)
<1>1. doc[r] \in Docs
  BY DEF TypeOK
<1>2. doc'[r] = Failed(doc[r]) => ToFailed(r)
  BY <1>1 DEF Docs, Failed, ToFailed
<1>3. doc'[r] = Cancelled(doc[r]) => ToCancelled(r)
  BY <1>1 DEF Docs, Cancelled, ToCancelled
<1>4. doc'[r] = Flipped(doc[r]) => ToFlipped(r)
  BY <1>1 DEF Docs, Flipped, ToFlipped
<1>5. doc'[r] = Cleared(doc[r]) => ToCleared(r)
  BY <1>1 DEF Docs, Cleared, ToCleared
<1>6. \A m : doc'[r] = Stamped(doc[r], m) => ToStamped(r, m)
  BY <1>1 DEF Docs, Stamped, ToStamped
<1> QED  BY <1>2, <1>3, <1>4, <1>5, <1>6

\* The run is created.
CreatesDoes(r) ==
  /\ start[r] = "none" /\ start'[r] \in {"checking", "reserving"}
  /\ doc[r].status = "absent" /\ doc[r].attempt = 1 /\ ~doc[r].handle
  /\ doc'[r].status = "pending" /\ doc'[r].attempt = 1
  /\ doc'[r].handle = FALSE /\ doc'[r].stamp = 0 /\ doc'[r].paused = 0
  /\ doc'[r].resumed = 0 /\ doc'[r].done = 0
  /\ StartFrame /\ NoFault /\ UNCHANGED <<slot, closing, alive, watch, stored>>

\* That is CreatesRun.
LEMMA CreatesEffect ==
  ASSUME TypeOK, NEW r \in Runs, CreatesRun(r)
  PROVE  CreatesDoes(r)
<1>1. doc'[r] = [Absent EXCEPT !.status = "pending"]
  BY DEF CreatesRun, Put, TypeOK
<1>2. start'[r] \in {"checking", "reserving"}
  BY DEF CreatesRun, StartGoes, TypeOK
<1> QED  BY <1>1, <1>2 DEF CreatesRun, Absent, CreatesDoes

\* Past the overlap check, or back.
ChecksDoes(r) ==
  /\ start[r] = "checking" /\ start'[r] \in {"reserving", "yielding"}
  /\ StartFrame /\ (NoFault \/ Fault)
  /\ UNCHANGED <<doc, slot, closing, alive, watch, stored>>

\* That is ChecksOverlap.
LEMMA ChecksEffect ==
  ASSUME TypeOK, NEW r \in Runs, ChecksOverlap(r)
  PROVE  ChecksDoes(r)
BY DEF ChecksOverlap, StartGoes, TypeOK, ChecksDoes

\* A start that gives way cancels its run, unless that fails.
YieldsDoes(r) ==
  /\ start[r] = "yielding" /\ start'[r] = "done"
  /\ (Keeps(r) \/ ToCancelled(r))
  /\ StartFrame /\ (NoFault \/ Fault)
  /\ UNCHANGED <<slot, closing, alive, watch, stored>>

\* That is Yields.
LEMMA YieldsEffect == ASSUME TypeOK, NEW r \in Runs, Yields(r) PROVE YieldsDoes(r)
BY Writes DEF Yields, StartGoes, Tried, Put, TypeOK, YieldsDoes, Keeps

\* The slot is taken, or refused.
ReservesDoes(r) ==
  /\ start[r] = "reserving" /\ StartFrame /\ NoFault
  /\ UNCHANGED <<doc, closing, alive, watch, stored>>
  /\ \/ ~Metered /\ start'[r] = "spawning" /\ UNCHANGED slot
     \/ Metered /\ start'[r] = "storing" /\ slot'[r] = "open"
     \/ Metered /\ start'[r] = "denied" /\ UNCHANGED slot

\* That is Reserves.
LEMMA ReservesEffect ==
  ASSUME TypeOK, NEW r \in Runs, Reserves(r)
  PROVE  ReservesDoes(r)
BY DEF Reserves, StartGoes, TypeOK, ReservesDoes

\* The id is stored, unless that fails.
StoresDoes(r) ==
  /\ start[r] = "storing" /\ start'[r] = "charging" /\ StartFrame
  /\ \/ /\ doc'[r].handle = TRUE /\ doc'[r].status = doc[r].status
        /\ doc'[r].attempt = doc[r].attempt /\ doc'[r].stamp = doc[r].stamp
        /\ doc'[r].paused = doc[r].paused /\ doc'[r].resumed = doc[r].resumed
        /\ doc'[r].done = doc[r].done
        /\ stored' = stored \cup {r} /\ (NoFault \/ Fault)
     \/ UNCHANGED <<doc, stored>> /\ Fault
  /\ UNCHANGED <<slot, closing, alive, watch>>

\* That is StoresHandle.
LEMMA StoresEffect ==
  ASSUME TypeOK, NEW r \in Runs, StoresHandle(r)
  PROVE  StoresDoes(r)
<1>1. doc[r] \in Docs /\ (Put(r, [doc[r] EXCEPT !.handle = TRUE]) =>
                            doc'[r] = [doc[r] EXCEPT !.handle = TRUE])
  BY DEF TypeOK, Put
<1> QED  BY <1>1 DEF StoresHandle, TypeOK, StartGoes, Tried, Docs, StoresDoes

\* The charge goes through, or is refused.
ChargesDoes(r) ==
  /\ start[r] = "charging" /\ start'[r] \in {"spawning", "releasing"}
  /\ StartFrame /\ NoFault
  /\ UNCHANGED <<doc, slot, closing, alive, watch, stored>>

\* That is Charges.
LEMMA ChargesEffect ==
  ASSUME TypeOK, NEW r \in Runs, Charges(r)
  PROVE  ChargesDoes(r)
BY DEF Charges, StartGoes, TypeOK, ChargesDoes

\* The slot is given back, unless that fails.
ReleasesDoes(r) ==
  /\ start[r] = "releasing" /\ start'[r] = "denied" /\ StartFrame
  /\ Shut(r, "released", "start", 0) \/ StaysOpen
  /\ (NoFault \/ Fault) /\ UNCHANGED <<doc, alive, watch, stored>>

\* That is ReleasesSlot.
LEMMA ReleasesEffect ==
  ASSUME TypeOK, NEW r \in Runs, ReleasesSlot(r)
  PROVE  ReleasesDoes(r)
BY CloseShuts DEF ReleasesSlot, StartGoes, Tried, TypeOK, ReleasesDoes

\* A refused run fails, unless that fails.
DeniedDoes(r) ==
  /\ start[r] = "denied" /\ start'[r] = "done" /\ StartFrame
  /\ (Keeps(r) \/ ToFailed(r)) /\ (NoFault \/ Fault)
  /\ UNCHANGED <<slot, closing, alive, watch, stored>>

\* That is FailsDenied.
LEMMA DeniedEffect ==
  ASSUME TypeOK, NEW r \in Runs, FailsDenied(r)
  PROVE  DeniedDoes(r)
BY Writes DEF FailsDenied, StartGoes, Tried, Put, TypeOK, DeniedDoes, Keeps

\* The first agent starts, or cannot.
SpawnsDoes(r) ==
  /\ start[r] = "spawning" /\ StartFrame
  /\ \/ /\ alive'[r] = alive[r] \cup {1} /\ watch'[r] = watch[r] \cup {1}
        /\ start'[r] = "done" /\ NoFault
     \/ start'[r] = "unspawned" /\ Fault /\ UNCHANGED <<alive, watch>>
  /\ UNCHANGED <<doc, slot, closing, stored>>

\* That is Spawns.
LEMMA SpawnsEffect == ASSUME TypeOK, NEW r \in Runs, Spawns(r) PROVE SpawnsDoes(r)
BY DEF Spawns, StartGoes, TypeOK, SpawnsDoes

\* A run without an agent fails, unless that fails.
UnspawnedDoes(r) ==
  /\ start[r] = "unspawned" /\ start'[r] \in {"returning", "done"} /\ StartFrame
  /\ \/ ToFailed(r) /\ (NoFault \/ Fault)
     \/ UNCHANGED doc /\ Fault
  /\ UNCHANGED <<slot, closing, alive, watch, stored>>

\* That is FailsUnspawned.
LEMMA UnspawnedEffect ==
  ASSUME TypeOK, NEW r \in Runs, FailsUnspawned(r)
  PROVE  UnspawnedDoes(r)
BY Writes DEF FailsUnspawned, StartGoes, Tried, Put, TypeOK, UnspawnedDoes

\* Its slot is given back, unless that fails.
ReturnsDoes(r) ==
  /\ start[r] = "returning" /\ StartFrame
  /\ \/ Shut(r, "released", "start", 0) /\ start'[r] = "clearing" /\ NoFault
     \/ /\ Shut(r, "released", "start", 0) \/ StaysOpen
        /\ start'[r] = "done" /\ Fault
  /\ UNCHANGED <<doc, alive, watch, stored>>

\* That is ReturnsSlot.
LEMMA ReturnsEffect ==
  ASSUME TypeOK, NEW r \in Runs, ReturnsSlot(r)
  PROVE  ReturnsDoes(r)
BY CloseShuts DEF ReturnsSlot, StartGoes, TypeOK, ReturnsDoes

\* And its id cleared, unless that fails.
ReturnedDoes(r) ==
  /\ start[r] = "clearing" /\ start'[r] = "done" /\ StartFrame
  /\ (Keeps(r) \/ ToCleared(r)) /\ (NoFault \/ Fault)
  /\ UNCHANGED <<slot, closing, alive, watch, stored>>

\* That is ClearsReturned.
LEMMA ReturnedEffect ==
  ASSUME TypeOK, NEW r \in Runs, ClearsReturned(r)
  PROVE  ReturnedDoes(r)
BY Writes DEF ClearsReturned, StartGoes, Tried, Put, TypeOK, ReturnedDoes, Keeps

\* The resume reads its run.
ReadsDoes(r) ==
  /\ resume[r].at = "none" /\ Resumable(doc[r])
  /\ resume'[r].at = "read" /\ resume'[r].handle = doc[r].handle
  /\ resume'[r].ended = OwnerEndedAt(doc[r])
  /\ ResumeFrame /\ NoFault /\ UNCHANGED <<doc, slot, closing, alive, watch>>

\* That is ReadsRun.
LEMMA ReadsEffect == ASSUME TypeOK, NEW r \in Runs, ReadsRun(r) PROVE ReadsDoes(r)
BY DEF ReadsRun, TypeOK, ReadsDoes

\* The check before the flip.
PrechecksDoes(r) ==
  /\ resume[r].at = "read" /\ (Goes(r, "checked") \/ Ends(r))
  /\ ResumeFrame /\ NoFault
  /\ UNCHANGED <<doc, slot, closing, alive, watch, requests>>

\* That is Prechecks.
LEMMA PrechecksEffect ==
  ASSUME TypeOK, NEW r \in Runs, Prechecks(r)
  PROVE  PrechecksDoes(r)
BY DEF Prechecks, TypeOK, ResumeGoes, ResumeEnds, NoResume, Goes, Ends, PrechecksDoes

\* The flip; the resume remembers the attempt it has made.
FlipsDoes(r) ==
  /\ resume[r].at = "checked" /\ ResumeFrame /\ NoFault
  /\ UNCHANGED <<slot, closing, alive, watch, requests>>
  /\ \/ /\ Resumable(doc[r]) /\ ToFlipped(r)
        /\ resume'[r].at = "flipped" /\ resume'[r].attempt = doc[r].attempt + 1
        /\ resume'[r].handle = resume[r].handle
        /\ resume'[r].ended = resume[r].ended
     \/ Ends(r) /\ UNCHANGED doc

\* That is Flips.
LEMMA FlipsEffect == ASSUME TypeOK, NEW r \in Runs, Flips(r) PROVE FlipsDoes(r)
BY Writes DEF Flips, TypeOK, Put, ResumeEnds, NoResume, Ends, FlipsDoes

\* The stamp lands, unless there is none to write or it fails.
StampsDoes(r) ==
  /\ resume[r].at = "flipped" /\ Goes(r, "stamped") /\ ResumeFrame
  /\ UNCHANGED <<slot, closing, alive, watch, requests>>
  /\ \/ /\ resume[r].handle /\ resume[r].ended # 0
        /\ ToStamped(r, resume[r].ended)
        /\ (NoFault \/ Fault)
     \/ resume[r].handle /\ resume[r].ended # 0 /\ UNCHANGED doc /\ Fault
     \/ ~(resume[r].handle /\ resume[r].ended # 0) /\ UNCHANGED doc /\ NoFault

\* That is StampsOwnersEnd.
LEMMA StampsEffect ==
  ASSUME TypeOK, NEW r \in Runs, StampsOwnersEnd(r)
  PROVE  StampsDoes(r)
BY Writes DEF StampsOwnersEnd, TypeOK, Tried, Put, ResumeGoes, Goes, StampsDoes

\* The check after the flip.
RechecksDoes(r) ==
  /\ resume[r].at = "stamped" /\ ResumeFrame
  /\ UNCHANGED <<doc, slot, closing, alive, watch, requests>>
  /\ \/ AloneActive(r) /\ resume[r].handle /\ Goes(r, "confirming") /\ NoFault
     \/ AloneActive(r) /\ ~resume[r].handle /\ Goes(r, "spawning") /\ NoFault
     \/ Goes(r, "standing") /\ (NoFault \/ Fault)

\* That is Rechecks.
LEMMA RechecksEffect ==
  ASSUME TypeOK, NEW r \in Runs, Rechecks(r)
  PROVE  RechecksDoes(r)
BY DEF Rechecks, TypeOK, ResumeGoes, Goes, RechecksDoes

\* The resume stands down.
StandsDoes(r) ==
  /\ resume[r].at = "standing" /\ Ends(r) /\ ResumeFrame
  /\ (Keeps(r) \/ (doc[r].attempt = resume[r].attempt /\ ToFailed(r)))
  /\ (NoFault \/ Fault)
  /\ UNCHANGED <<slot, closing, alive, watch, requests>>

\* That is StandsDown.
LEMMA StandsEffect ==
  ASSUME TypeOK, NEW r \in Runs, StandsDown(r)
  PROVE  StandsDoes(r)
BY Writes DEF StandsDown, TypeOK, Tried, Put, ResumeEnds, NoResume, Ends,
   StandsDoes, Keeps, FailedAttempt

\* The superseded reservation is closed, unless that fails.
ConfirmsDoes(r) ==
  /\ resume[r].at = "confirming" /\ ResumeFrame
  /\ UNCHANGED <<doc, alive, watch, requests>>
  /\ \/ /\ Shut(r, "failure", "resume", resume[r].ended)
        /\ Goes(r, "clearing") /\ NoFault
     \/ /\ Shut(r, "failure", "resume", resume[r].ended) \/ StaysOpen
        /\ Goes(r, "spawning") /\ Fault

\* That is ConfirmsSuperseded.
LEMMA ConfirmsEffect ==
  ASSUME TypeOK, NEW r \in Runs, ConfirmsSuperseded(r)
  PROVE  ConfirmsDoes(r)
BY CloseShuts DEF ConfirmsSuperseded, AfterConfirm, TypeOK, ResumeGoes, Goes,
   ConfirmsDoes

\* Its id is cleared, unless that fails.
ClearsDoes(r) ==
  /\ resume[r].at = "clearing" /\ Goes(r, "spawning") /\ ResumeFrame
  /\ \/ ToCleared(r) /\ (NoFault \/ Fault)
     \/ UNCHANGED doc /\ Fault
  /\ UNCHANGED <<slot, closing, alive, watch, requests>>

\* That is ClearsSuperseded.
LEMMA ClearsEffect ==
  ASSUME TypeOK, NEW r \in Runs, ClearsSuperseded(r)
  PROVE  ClearsDoes(r)
BY Writes DEF ClearsSuperseded, TypeOK, Tried, Put, ResumeGoes, Goes, ClearsDoes

\* The new attempt starts, or the resume stands down.
RespawnsDoes(r) ==
  /\ resume[r].at = "spawning" /\ ResumeFrame
  /\ UNCHANGED <<doc, slot, closing, requests>>
  /\ \/ /\ alive'[r] = alive[r] \cup {resume[r].attempt}
        /\ watch'[r] = watch[r] \cup {resume[r].attempt}
        /\ Ends(r) /\ NoFault
     \/ Goes(r, "standing") /\ Fault /\ UNCHANGED <<alive, watch>>

\* That is Respawns.
LEMMA RespawnsEffect ==
  ASSUME TypeOK, NEW r \in Runs, Respawns(r)
  PROVE  RespawnsDoes(r)
BY DEF Respawns, TypeOK, ResumeGoes, ResumeEnds, NoResume, Goes, Ends, RespawnsDoes

\* The cancel reads its run.
CancelReadsDoes(r) ==
  /\ cancel[r].at = "none" /\ cancel'[r].at = "read"
  /\ cancel'[r].handle = doc[r].handle
  /\ \/ /\ Superseded(doc[r]) /\ cancel'[r].status = "failure"
        /\ cancel'[r].ended = OwnerEndedAt(doc[r])
     \/ ~Superseded(doc[r]) /\ cancel'[r].status = "cancelled"
  /\ CancelFrame /\ NoFault /\ UNCHANGED <<doc, slot, closing>>

\* That is ReadsForCancel.
LEMMA CancelReadsEffect ==
  ASSUME TypeOK, NEW r \in Runs, ReadsForCancel(r)
  PROVE  CancelReadsDoes(r)
BY DEF ReadsForCancel, TypeOK, CancelReadsDoes

\* The cancel lands or fails; without an id that is all.
CancelsDoes(r) ==
  /\ cancel[r].at = "read" /\ CancelFrame /\ UNCHANGED <<slot, closing, requests>>
  /\ \/ ToCancelled(r) /\ (NoFault \/ Fault)
     \/ UNCHANGED doc /\ Fault
  /\ \/ /\ cancel[r].handle /\ cancel'[r].at = "confirming"
        /\ cancel'[r].handle = cancel[r].handle
        /\ cancel'[r].status = cancel[r].status
        /\ cancel'[r].ended = cancel[r].ended
     \/ ~cancel[r].handle /\ cancel'[r] = NoCancel

\* That is Cancels.
LEMMA CancelsEffect ==
  ASSUME TypeOK, NEW r \in Runs, Cancels(r)
  PROVE  CancelsDoes(r)
<1>1. \/ /\ cancel[r].handle /\ cancel'[r].at = "confirming"
         /\ cancel'[r].handle = cancel[r].handle
         /\ cancel'[r].status = cancel[r].status
         /\ cancel'[r].ended = cancel[r].ended
      \/ ~cancel[r].handle /\ cancel'[r] = NoCancel
  BY DEF Cancels, TypeOK
<1> QED  BY Writes, <1>1 DEF Cancels, TypeOK, Tried, Put, CancelsDoes

\* The reservation is closed, unless that fails.
CancelConfirmsDoes(r) ==
  /\ cancel[r].at = "confirming" /\ cancel'[r] = NoCancel /\ CancelFrame
  /\ UNCHANGED <<doc, requests>>
  /\ \/ /\ Shut(r, cancel[r].status, "cancel",
                IF cancel[r].status = "failure" THEN cancel[r].ended
                ELSE Stopped(doc[r].attempt))
        /\ (NoFault \/ Fault)
     \/ StaysOpen /\ Fault

\* That is ConfirmsCancelled.
LEMMA CancelConfirmsEffect ==
  ASSUME TypeOK, NEW r \in Runs, ConfirmsCancelled(r)
  PROVE  CancelConfirmsDoes(r)
BY CloseShuts DEF ConfirmsCancelled, TypeOK, Tried, CancelConfirmsDoes

\* The callback of a start confirms.
CallbackDoes(r) ==
  /\ r \in callback /\ callback' = callback \ {r}
  /\ Shut(r, "failure", "callback", Stopped(1)) \/ StaysOpen
  /\ (NoFault \/ Fault)
  /\ UNCHANGED <<doc, api, alive, watch, tick, requests, restarts, stored>>

\* That is CallbackConfirms.
LEMMA CallbackEffect ==
  ASSUME TypeOK, NEW r \in Runs, CallbackConfirms(r)
  PROVE  CallbackDoes(r)
BY CloseShuts DEF CallbackConfirms, Tried, CallbackDoes

\* An agent says that it works.
WorksDoes(r, a) ==
  /\ a \in alive[r] /\ doc[r].attempt = a /\ doc[r].status \in {"pending", "failed"}
  /\ doc'[r].status = "running" /\ doc'[r].attempt = doc[r].attempt
  /\ doc'[r].handle = doc[r].handle /\ doc'[r].stamp = doc[r].stamp
  /\ doc'[r].paused = doc[r].paused /\ doc'[r].resumed = doc[r].resumed
  /\ doc'[r].done = doc[r].done
  /\ AgentFrame /\ UNCHANGED agents

\* That is AgentWorks.
LEMMA WorksEffect ==
  ASSUME TypeOK, NEW r \in Runs, NEW a \in Attempts, AgentWorks(r, a)
  PROVE  WorksDoes(r, a)
<1>1. doc[r] \in Docs /\ doc'[r] = [doc[r] EXCEPT !.status = "running"]
  BY DEF AgentWorks, TypeOK, Put
<1> QED  BY <1>1 DEF AgentWorks, Docs, WorksDoes

\* An agent completes, fails or pauses.
EndsDoes(r, a) ==
  /\ a \in alive[r] /\ doc[r].attempt = a /\ doc'[r].attempt = a
  /\ doc'[r].handle = doc[r].handle /\ doc'[r].stamp = doc[r].stamp
  /\ doc'[r].resumed = doc[r].resumed
  /\ \/ /\ doc[r].status # "cancelled" /\ doc'[r].status = "completed"
        /\ doc'[r].done = Stopped(a) /\ doc'[r].paused = doc[r].paused
     \/ /\ Active(doc[r]) /\ doc'[r].status = "failed"
        /\ doc'[r].done = Stopped(a) /\ doc'[r].paused = doc[r].paused
     \/ /\ doc[r].status = "running" /\ doc'[r].status = "paused"
        /\ doc'[r].paused = Stopped(a)
  /\ alive'[r] = alive[r] \ {a} /\ watch'[r] \subseteq watch[r]
  /\ AgentFrame /\ UNCHANGED callback

\* That is AgentEnds.
LEMMA EndsEffect ==
  ASSUME TypeOK, NEW r \in Runs, NEW a \in Attempts, AgentEnds(r, a)
  PROVE  EndsDoes(r, a)
<1>1. doc[r] \in Docs /\ a \in alive[r] /\ doc[r].attempt = a
  BY DEF AgentEnds, TypeOK
<1>2. /\ alive'[r] = alive[r] \ {a} /\ watch'[r] \subseteq watch[r]
      /\ AgentFrame /\ UNCHANGED callback
  BY DEF AgentEnds, Leaves, TypeOK
<1>3. CASE /\ doc[r].status # "cancelled"
           /\ Put(r, [doc[r] EXCEPT !.status = "completed", !.done = Stopped(a)])
  <2>1. doc'[r] = [doc[r] EXCEPT !.status = "completed", !.done = Stopped(a)]
    BY <1>3 DEF Put, TypeOK
  <2> QED  BY <1>1, <1>2, <1>3, <2>1 DEF Docs, EndsDoes
<1>4. CASE Active(doc[r]) /\ Put(r, Failed(doc[r]))
  <2>1. ToFailed(r)
    BY <1>4, Writes DEF Put, TypeOK
  <2> QED  BY <1>1, <1>2, <1>4, <2>1 DEF ToFailed, EndsDoes
<1>5. CASE /\ doc[r].status = "running"
           /\ Put(r, [doc[r] EXCEPT !.status = "paused", !.paused = Stopped(a)])
  <2>1. doc'[r] = [doc[r] EXCEPT !.status = "paused", !.paused = Stopped(a)]
    BY <1>5 DEF Put, TypeOK
  <2> QED  BY <1>1, <1>2, <1>5, <2>1 DEF Docs, EndsDoes
<1> QED  BY <1>3, <1>4, <1>5 DEF AgentEnds

\* An agent stops or dies.
StopsDoes(r, a) ==
  /\ a \in alive[r] /\ alive'[r] = alive[r] \ {a} /\ watch'[r] \subseteq watch[r]
  /\ AgentFrame /\ UNCHANGED <<doc, callback>>

\* That is AgentStops.
LEMMA StopsEffect ==
  ASSUME TypeOK, NEW r \in Runs, NEW a \in Attempts, AgentStops(r, a)
  PROVE  StopsDoes(r, a)
BY DEF AgentStops, Leaves, TypeOK, StopsDoes

\* A watcher finds its agent gone.
FiresDoes(r, a) ==
  /\ a \in watch[r] /\ a \notin alive[r] /\ watch'[r] = watch[r] \ {a}
  /\ (IF doc[r].attempt = a THEN ToFailed(r) ELSE Keeps(r)) /\ UNCHANGED alive
  /\ callback' = IF a = 1 /\ slot[r] # "none" THEN callback \cup {r} ELSE callback
  /\ AgentFrame

\* That is WatcherFires.
LEMMA FiresEffect ==
  ASSUME TypeOK, NEW r \in Runs, NEW a \in Attempts, WatcherFires(r, a)
  PROVE  FiresDoes(r, a)
BY Writes DEF WatcherFires, TypeOK, Put, FiresDoes, Keeps, FailedAttempt

\* A request dies.
DiesDoes(r) ==
  /\ Fault
  /\ \/ /\ start[r] \notin {"none", "done"} /\ start'[r] = "done"
        /\ UNCHANGED <<resume, cancel>>
     \/ Ends(r) /\ UNCHANGED <<start, cancel>>
     \/ cancel'[r] = NoCancel /\ UNCHANGED <<start, resume>>
  /\ UNCHANGED <<doc, slot, closing, agents, tick, requests, restarts, stored>>

\* That is RequestDies.
LEMMA DiesEffect ==
  ASSUME TypeOK, NEW r \in Runs, RequestDies(r)
  PROVE  DiesDoes(r)
BY DEF RequestDies, TypeOK, StartGoes, ResumeEnds, NoResume, Ends, DiesDoes

\* The confirmer closes a reservation, unless that fails.
ListedDoes(r) ==
  /\ listed[r] # NoOutcome /\ listed'[r] = NoOutcome
  /\ \/ /\ Shut(r, listed[r].status, "confirmer", listed[r].ended)
        /\ clearing' = {r} /\ NoFault
     \/ /\ Shut(r, listed[r].status, "confirmer", listed[r].ended) \/ StaysOpen
        /\ UNCHANGED clearing /\ Fault
  /\ UNCHANGED <<doc, api, agents, requests, restarts, stored>>

\* That is ConfirmsListed.
LEMMA ListedEffect ==
  ASSUME TypeOK, NEW r \in Runs, ConfirmsListed(r)
  PROVE  ListedDoes(r)
BY CloseShuts DEF ConfirmsListed, TypeOK, ListedDoes

\* And clears its id, unless that fails.
ClearedDoes(r) ==
  /\ r \in clearing /\ clearing' = {}
  /\ (Keeps(r) \/ ToCleared(r)) /\ (NoFault \/ Fault)
  /\ UNCHANGED <<slot, closing, api, agents, listed, requests, restarts, stored>>

\* That is ClearsListed.
LEMMA ClearedEffect ==
  ASSUME TypeOK, NEW r \in Runs, ClearsListed(r)
  PROVE  ClearedDoes(r)
BY Writes DEF ClearsListed, Tried, Put, TypeOK, ClearedDoes, Keeps

\* A step of a run does one of these.
LEMMA Moves ==
  ASSUME TypeOK, NEW r \in Runs, RunStep(r)
  PROVE  \/ CreatesDoes(r) \/ ChecksDoes(r) \/ YieldsDoes(r) \/ ReservesDoes(r)
         \/ StoresDoes(r) \/ ChargesDoes(r) \/ ReleasesDoes(r) \/ DeniedDoes(r)
         \/ SpawnsDoes(r) \/ UnspawnedDoes(r) \/ ReturnsDoes(r) \/ ReturnedDoes(r)
         \/ ReadsDoes(r) \/ PrechecksDoes(r) \/ FlipsDoes(r) \/ StampsDoes(r)
         \/ RechecksDoes(r) \/ StandsDoes(r) \/ ConfirmsDoes(r) \/ ClearsDoes(r)
         \/ RespawnsDoes(r) \/ CancelReadsDoes(r) \/ CancelsDoes(r) \/ CancelConfirmsDoes(r)
         \/ CallbackDoes(r) \/ DiesDoes(r) \/ ListedDoes(r) \/ ClearedDoes(r)
         \/ \E a \in Attempts : \/ WorksDoes(r, a) \/ EndsDoes(r, a)
                                \/ StopsDoes(r, a) \/ FiresDoes(r, a)
BY CreatesEffect, ChecksEffect, YieldsEffect, ReservesEffect, StoresEffect,
   ChargesEffect, ReleasesEffect, DeniedEffect, SpawnsEffect, UnspawnedEffect,
   ReturnsEffect, ReturnedEffect, ReadsEffect, PrechecksEffect, FlipsEffect,
   StampsEffect, RechecksEffect, StandsEffect, ConfirmsEffect, ClearsEffect,
   RespawnsEffect, CancelReadsEffect, CancelsEffect, CancelConfirmsEffect,
   CallbackEffect, WorksEffect, EndsEffect, StopsEffect, FiresEffect,
   DiesEffect, ListedEffect, ClearedEffect DEF RunStep, StartStep, ResumeStep,
   CancelStep, AgentStep

\* The confirmer lists what has ended and has an id.
ListDoes(r) ==
  /\ UNCHANGED <<doc, slot, closing, api, agents, clearing, requests, restarts, stored>>
  /\ NoFault
  /\ \/ listed'[r] = NoOutcome
     \/ /\ doc[r].handle /\ Terminal(doc[r]) /\ listed'[r].by = "confirmer"
        /\ listed'[r] # NoOutcome
        /\ \/ /\ Superseded(doc[r]) /\ listed'[r].status = "failure"
              /\ listed'[r].ended = OwnerEndedAt(doc[r])
           \/ /\ ~Superseded(doc[r]) /\ listed'[r].status = RunStatus(doc[r])
              /\ listed'[r].ended = doc[r].done

\* That is ListsTerminal.
LEMMA ListEffect == ASSUME TypeOK, ListsTerminal, NEW r \in Runs PROVE ListDoes(r)
<1>1. CASE Listable(doc[r])
  <2>1. listed'[r] = OutcomeFor(doc[r])
    BY <1>1 DEF ListsTerminal
  <2> QED  BY <1>1, <2>1 DEF ListsTerminal, ListDoes, OutcomeFor, Listable, NoOutcome
<1>2. CASE ~Listable(doc[r])
  BY <1>2 DEF ListsTerminal, ListDoes
<1> QED  BY <1>1, <1>2

\* A sweep fails what works.
SweepDoes(r) ==
  /\ ToFailed(r) /\ watch'[r] \in {watch[r], {}} /\ restarts' # 0
  /\ UNCHANGED <<slot, closing, api, alive, callback, tick, requests, faults, stored>>

\* That is ApiStarts.
LEMMA SweepEffect == ASSUME TypeOK, ApiStarts, NEW r \in Runs PROVE SweepDoes(r)
<1>1. doc'[r] = Failed(doc[r])
  BY DEF ApiStarts
<1>2. restarts' # 0
  BY TypesAt DEF ApiStarts, TypesOf
<1> QED  BY <1>1, <1>2, Writes DEF ApiStarts, SweepDoes

-----------------------------------------------------------------------------
(* The order of attempts.                                                  *)

\* The project starts with no agent and no request.
LEMMA InitOrder == Init => OrderInv
BY DEF Init, OrderInv, OrderOf, NoResume, Underway

\* A step keeps its run's attempts in order.
LEMMA OrderOwn ==
  ASSUME TypeOK, OrderInv, NEW r \in Runs, RunStep(r)
  PROVE  OrderOf(r)'
<1>0. TypesOf(r) /\ OrderOf(r)
  BY TypesAt DEF OrderInv
<1> USE <1>0 DEF TypesOf, OrderOf, Underway, NoCancel
<1>1. CASE CreatesDoes(r)
  BY <1>1 DEF CreatesDoes, StartFrame, tick, NoFault, Fault
<1>2. CASE ChecksDoes(r)
  BY <1>2 DEF ChecksDoes, StartFrame, tick, NoFault, Fault
<1>3. CASE YieldsDoes(r)
  BY <1>3 DEF YieldsDoes, Keeps, ToCancelled, StartFrame, tick, NoFault, Fault
<1>4. CASE ReservesDoes(r)
  BY <1>4 DEF ReservesDoes, StartFrame, tick, NoFault, Fault
<1>5. CASE StoresDoes(r)
  BY <1>5 DEF StoresDoes, StartFrame, tick, NoFault, Fault
<1>6. CASE ChargesDoes(r)
  BY <1>6 DEF ChargesDoes, StartFrame, tick, NoFault, Fault
<1>7. CASE ReleasesDoes(r)
  BY <1>7 DEF ReleasesDoes, Shut, StaysOpen, StartFrame, tick, NoFault, Fault
<1>8. CASE DeniedDoes(r)
  BY <1>8 DEF DeniedDoes, Keeps, ToFailed, StartFrame, tick, NoFault, Fault
<1>9. CASE SpawnsDoes(r)
  BY <1>9 DEF SpawnsDoes, StartFrame, tick, NoFault, Fault
<1>10. CASE UnspawnedDoes(r)
  BY <1>10 DEF UnspawnedDoes, ToFailed, StartFrame, tick, NoFault, Fault
<1>11. CASE ReturnsDoes(r)
  BY <1>11 DEF ReturnsDoes, Shut, StaysOpen, StartFrame, tick, NoFault, Fault
<1>12. CASE ReturnedDoes(r)
  BY <1>12 DEF ReturnedDoes, Keeps, ToCleared, StartFrame, tick, NoFault,
     Fault
<1>13. CASE ReadsDoes(r)
  BY <1>13 DEF ReadsDoes, ResumeFrame, tick, NoFault, Fault
<1>14. CASE PrechecksDoes(r)
  BY <1>14 DEF PrechecksDoes, Goes, Ends, ResumeFrame, tick, NoFault, Fault
<1>15. CASE FlipsDoes(r)
  BY <1>15 DEF FlipsDoes, ToFlipped, Ends, ResumeFrame, tick, NoFault, Fault
<1>16. CASE StampsDoes(r)
  BY <1>16 DEF StampsDoes, ToStamped, Goes, ResumeFrame, tick, NoFault, Fault
<1>17. CASE RechecksDoes(r)
  BY <1>17 DEF RechecksDoes, Goes, ResumeFrame, tick, NoFault, Fault
<1>18. CASE StandsDoes(r)
  BY <1>18 DEF StandsDoes, Keeps, ToFailed, Ends, ResumeFrame, tick, NoFault,
     Fault
<1>19. CASE ConfirmsDoes(r)
  BY <1>19 DEF ConfirmsDoes, Goes, Shut, StaysOpen, ResumeFrame, tick,
     NoFault, Fault
<1>20. CASE ClearsDoes(r)
  BY <1>20 DEF ClearsDoes, ToCleared, Goes, ResumeFrame, tick, NoFault, Fault
<1>21. CASE RespawnsDoes(r)
  BY <1>21 DEF RespawnsDoes, Goes, Ends, ResumeFrame, tick, NoFault, Fault
<1>22. CASE CancelReadsDoes(r)
  BY <1>22 DEF CancelReadsDoes, CancelFrame, agents, tick, NoFault, Fault
<1>23. CASE CancelsDoes(r)
  BY <1>23 DEF CancelsDoes, ToCancelled, CancelFrame, agents, tick, NoFault,
     Fault
<1>24. CASE CancelConfirmsDoes(r)
  BY <1>24 DEF CancelConfirmsDoes, Shut, StaysOpen, CancelFrame, agents, tick,
     NoFault, Fault
<1>25. CASE CallbackDoes(r)
  BY <1>25 DEF CallbackDoes, Shut, StaysOpen, api, tick, NoFault, Fault
<1>26. ASSUME NEW a \in Attempts, WorksDoes(r, a) PROVE OrderOf(r)'
  BY <1>26 DEF WorksDoes, AgentFrame, api, agents, tick, bounds, NoFault,
     Fault
<1>27. ASSUME NEW a \in Attempts, EndsDoes(r, a) PROVE OrderOf(r)'
  BY <1>27 DEF EndsDoes, AgentFrame, api, agents, tick, bounds, NoFault, Fault
<1>28. ASSUME NEW a \in Attempts, StopsDoes(r, a) PROVE OrderOf(r)'
  BY <1>28 DEF StopsDoes, AgentFrame, api, agents, tick, bounds, NoFault,
     Fault
<1>29. ASSUME NEW a \in Attempts, FiresDoes(r, a) PROVE OrderOf(r)'
  BY <1>29 DEF FiresDoes, Keeps, ToFailed, AgentFrame, api, agents, tick,
     bounds, NoFault, Fault
<1>30. CASE DiesDoes(r)
  BY <1>30 DEF DiesDoes, Ends, agents, tick, NoFault, Fault
<1>31. CASE ListedDoes(r)
  BY <1>31 DEF ListedDoes, Shut, StaysOpen, api, agents, NoFault, Fault
<1>32. CASE ClearedDoes(r)
  BY <1>32 DEF ClearedDoes, Keeps, ToCleared, api, agents, NoFault, Fault
<1> QED  BY <1>1, <1>2, <1>3, <1>4, <1>5, <1>6, <1>7, <1>8, <1>9, <1>10,
          <1>11, <1>12, <1>13, <1>14, <1>15, <1>16, <1>17, <1>18, <1>19,
          <1>20, <1>21, <1>22, <1>23, <1>24, <1>25, <1>26, <1>27, <1>28,
          <1>29, <1>30, <1>31, <1>32, Moves

\* Every step keeps attempts in order.
LEMMA OrderStep ==
  ASSUME TypeOK, TypeOK', OrderInv, [Next]_vars
  PROVE  OrderInv'
<1>1. ASSUME NEW r \in Runs, RunStep(r) PROVE OrderInv'
  <2>1. OrderOf(r)'
    BY <1>1, OrderOwn
  <2>2. \A s \in Runs \ {r} : OrderOf(s)'
    BY <1>1, Elsewhere DEF Only, Same, OrderInv, OrderOf
  <2> QED  BY <2>1, <2>2 DEF OrderInv
<1>2. CASE ListsTerminal
  <2> SUFFICES ASSUME NEW r \in Runs PROVE OrderOf(r)'
    BY DEF OrderInv
  <2>1. ListDoes(r)
    BY <1>2, ListEffect
  <2> QED
    BY <2>1, TypesAt DEF ListDoes, NoFault, api, agents, OrderInv, OrderOf,
       TypesOf, Underway
<1>3. CASE ApiStarts
  <2> SUFFICES ASSUME NEW r \in Runs PROVE OrderOf(r)'
    BY DEF OrderInv
  <2>1. SweepDoes(r)
    BY <1>3, SweepEffect
  <2> QED
    BY <2>1, TypesAt DEF SweepDoes, ToFailed, api, tick, OrderInv, OrderOf,
       TypesOf, Underway
<1>4. CASE UNCHANGED vars
  BY <1>4 DEF vars, api, agents, tick, bounds, OrderInv, OrderOf, Underway
<1> QED  BY <1>1, <1>2, <1>3, <1>4, Steps

-----------------------------------------------------------------------------
(* Who has a reservation's id.                                             *)

\* A reservation comes after the overlap check and before its id on the document;
\* whoever acts on a reservation has had the id; whoever clears the id has seen
\* the reservation closed; and while it is open the id is there.
Early == {"none", "checking", "yielding", "reserving"}
HandleOf(r) ==
  /\ start[r] \in Early => slot[r] = "none"
  /\ start[r] = "storing" => slot[r] # "none"
  /\ start[r] \in Early \cup {"storing"} => r \notin stored
  /\ doc[r].handle \/ resume[r].handle \/ cancel[r].handle \/ listed[r] # NoOutcome =>
       r \in stored
  /\ r \in stored \cup callback => slot[r] # "none"
  /\ start[r] = "clearing" \/ resume[r].at = "clearing" \/ r \in clearing =>
       slot[r] = "closed"
  /\ resume[r].at = "confirming" => resume[r].handle
  /\ cancel[r].at = "confirming" => cancel[r].handle
  /\ r \in stored /\ slot[r] = "open" => doc[r].handle
HandleInv == \A r \in Runs : HandleOf(r)

\* No reservation exists at the start.
LEMMA InitHandle == Init => HandleInv
<1> SUFFICES ASSUME Init, NEW r \in Runs PROVE HandleOf(r)
  BY DEF HandleInv
<1>1. /\ start[r] = "none" /\ slot[r] = "none" /\ resume[r] = NoResume
      /\ cancel[r] = NoCancel /\ listed[r] = NoOutcome /\ stored = {}
      /\ callback = {} /\ clearing = {}
  BY DEF Init
<1>2. doc[r].handle = FALSE
  <2>1. doc[r] \in {Absent, [Absent EXCEPT !.status = "failed", !.done = Stopped(1)]}
    BY DEF Init
  <2>2. CASE doc[r] = Absent
    BY <2>2 DEF Absent
  <2>3. CASE doc[r] = [Absent EXCEPT !.status = "failed", !.done = Stopped(1)]
    BY <2>3 DEF Absent
  <2> QED  BY <2>1, <2>2, <2>3
<1> QED  BY <1>1, <1>2 DEF HandleOf, NoResume, NoCancel

\* A step keeps what is known of its run's reservation.
LEMMA HandleOwn ==
  ASSUME TypeOK, HandleInv, NEW r \in Runs, RunStep(r)
  PROVE  HandleOf(r)'
<1>0. TypesOf(r) /\ HandleOf(r)
  BY TypesAt DEF HandleInv
<1> USE <1>0 DEF TypesOf, HandleOf, Early, NoCancel
<1>1. CASE CreatesDoes(r)
  BY <1>1 DEF CreatesDoes, StartFrame, tick, NoFault, Fault
<1>2. CASE ChecksDoes(r)
  BY <1>2 DEF ChecksDoes, StartFrame, tick, NoFault, Fault
<1>3. CASE YieldsDoes(r)
  BY <1>3 DEF YieldsDoes, Keeps, ToCancelled, StartFrame, tick, NoFault, Fault
<1>4. CASE ReservesDoes(r)
  BY <1>4 DEF ReservesDoes, StartFrame, tick, NoFault, Fault
<1>5. CASE StoresDoes(r)
  <2>1. (start[r] \in Early => slot[r] = "none")'
    BY <1>5 DEF StoresDoes, StartFrame, tick, NoFault, Fault
  <2>2. (start[r] = "storing" => slot[r] # "none")'
    BY <1>5 DEF StoresDoes, StartFrame, tick, NoFault, Fault
  <2>3. (start[r] \in Early \cup {"storing"} => r \notin stored)'
    BY <1>5 DEF StoresDoes, StartFrame, tick, NoFault, Fault
  <2>4. (doc[r].handle \/ resume[r].handle \/ cancel[r].handle \/ listed[r] # NoOutcome =>
           r \in stored)'
    BY <1>5 DEF StoresDoes, StartFrame, tick, NoFault, Fault
  <2>5. (r \in stored \cup callback => slot[r] # "none")'
    BY <1>5 DEF StoresDoes, StartFrame, tick, NoFault, Fault
  <2>6. (start[r] = "clearing" \/ resume[r].at = "clearing" \/ r \in clearing =>
           slot[r] = "closed")'
    BY <1>5 DEF StoresDoes, StartFrame, tick, NoFault, Fault
  <2>7. (resume[r].at = "confirming" => resume[r].handle)'
    BY <1>5 DEF StoresDoes, StartFrame, tick, NoFault, Fault
  <2>8. (cancel[r].at = "confirming" => cancel[r].handle)'
    BY <1>5 DEF StoresDoes, StartFrame, tick, NoFault, Fault
  <2>9. (r \in stored /\ slot[r] = "open" => doc[r].handle)'
    BY <1>5 DEF StoresDoes, StartFrame, tick, NoFault, Fault
  <2> QED  BY <2>1, <2>2, <2>3, <2>4, <2>5, <2>6, <2>7, <2>8, <2>9
<1>6. CASE ChargesDoes(r)
  BY <1>6 DEF ChargesDoes, StartFrame, tick, NoFault, Fault
<1>7. CASE ReleasesDoes(r)
  BY <1>7 DEF ReleasesDoes, Shut, StaysOpen, StartFrame, tick, NoFault, Fault
<1>8. CASE DeniedDoes(r)
  BY <1>8 DEF DeniedDoes, Keeps, ToFailed, StartFrame, tick, NoFault, Fault
<1>9. CASE SpawnsDoes(r)
  BY <1>9 DEF SpawnsDoes, StartFrame, tick, NoFault, Fault
<1>10. CASE UnspawnedDoes(r)
  BY <1>10 DEF UnspawnedDoes, ToFailed, StartFrame, tick, NoFault, Fault
<1>11. CASE ReturnsDoes(r)
  BY <1>11 DEF ReturnsDoes, Shut, StaysOpen, StartFrame, tick, NoFault, Fault
<1>12. CASE ReturnedDoes(r)
  BY <1>12 DEF ReturnedDoes, Keeps, ToCleared, StartFrame, tick, NoFault,
     Fault
<1>13. CASE ReadsDoes(r)
  BY <1>13 DEF ReadsDoes, ResumeFrame, tick, NoFault, Fault
<1>14. CASE PrechecksDoes(r)
  BY <1>14 DEF PrechecksDoes, Goes, Ends, ResumeFrame, tick, NoFault, Fault
<1>15. CASE FlipsDoes(r)
  BY <1>15 DEF FlipsDoes, ToFlipped, Ends, ResumeFrame, tick, NoFault, Fault
<1>16. CASE StampsDoes(r)
  BY <1>16 DEF StampsDoes, ToStamped, Goes, ResumeFrame, tick, NoFault, Fault
<1>17. CASE RechecksDoes(r)
  BY <1>17 DEF RechecksDoes, Goes, ResumeFrame, tick, NoFault, Fault
<1>18. CASE StandsDoes(r)
  BY <1>18 DEF StandsDoes, Keeps, ToFailed, Ends, ResumeFrame, tick, NoFault,
     Fault
<1>19. CASE ConfirmsDoes(r)
  BY <1>19 DEF ConfirmsDoes, Goes, Shut, StaysOpen, ResumeFrame, tick,
     NoFault, Fault
<1>20. CASE ClearsDoes(r)
  BY <1>20 DEF ClearsDoes, ToCleared, Goes, ResumeFrame, tick, NoFault, Fault
<1>21. CASE RespawnsDoes(r)
  BY <1>21 DEF RespawnsDoes, Goes, Ends, ResumeFrame, tick, NoFault, Fault
<1>22. CASE CancelReadsDoes(r)
  BY <1>22 DEF CancelReadsDoes, CancelFrame, agents, tick, NoFault, Fault
<1>23. CASE CancelsDoes(r)
  BY <1>23 DEF CancelsDoes, ToCancelled, CancelFrame, agents, tick, NoFault,
     Fault
<1>24. CASE CancelConfirmsDoes(r)
  BY <1>24 DEF CancelConfirmsDoes, Shut, StaysOpen, CancelFrame, agents, tick,
     NoFault, Fault
<1>25. CASE CallbackDoes(r)
  BY <1>25 DEF CallbackDoes, Shut, StaysOpen, api, tick, NoFault, Fault
<1>26. ASSUME NEW a \in Attempts, WorksDoes(r, a) PROVE HandleOf(r)'
  BY <1>26 DEF WorksDoes, AgentFrame, api, agents, tick, bounds, NoFault,
     Fault
<1>27. ASSUME NEW a \in Attempts, EndsDoes(r, a) PROVE HandleOf(r)'
  BY <1>27 DEF EndsDoes, AgentFrame, api, agents, tick, bounds, NoFault, Fault
<1>28. ASSUME NEW a \in Attempts, StopsDoes(r, a) PROVE HandleOf(r)'
  BY <1>28 DEF StopsDoes, AgentFrame, api, agents, tick, bounds, NoFault,
     Fault
<1>29. ASSUME NEW a \in Attempts, FiresDoes(r, a) PROVE HandleOf(r)'
  BY <1>29 DEF FiresDoes, Keeps, ToFailed, AgentFrame, api, agents, tick,
     bounds, NoFault, Fault
<1>30. CASE DiesDoes(r)
  BY <1>30 DEF DiesDoes, Ends, agents, tick, NoFault, Fault
<1>31. CASE ListedDoes(r)
  BY <1>31 DEF ListedDoes, Shut, StaysOpen, api, agents, NoFault, Fault
<1>32. CASE ClearedDoes(r)
  BY <1>32 DEF ClearedDoes, Keeps, ToCleared, api, agents, NoFault, Fault
<1> QED  BY <1>1, <1>2, <1>3, <1>4, <1>5, <1>6, <1>7, <1>8, <1>9, <1>10,
          <1>11, <1>12, <1>13, <1>14, <1>15, <1>16, <1>17, <1>18, <1>19,
          <1>20, <1>21, <1>22, <1>23, <1>24, <1>25, <1>26, <1>27, <1>28,
          <1>29, <1>30, <1>31, <1>32, Moves

\* Every step keeps what is known of reservations.
LEMMA HandleStep ==
  ASSUME TypeOK, TypeOK', HandleInv, [Next]_vars
  PROVE  HandleInv'
<1>1. ASSUME NEW r \in Runs, RunStep(r) PROVE HandleInv'
  <2>1. HandleOf(r)'
    BY <1>1, HandleOwn
  <2>2. \A s \in Runs \ {r} : HandleOf(s)'
    BY <1>1, Elsewhere DEF Only, Same, HandleInv, HandleOf, Early
  <2> QED  BY <2>1, <2>2 DEF HandleInv
<1>2. CASE ListsTerminal
  <2> SUFFICES ASSUME NEW r \in Runs PROVE HandleOf(r)'
    BY DEF HandleInv
  <2>1. ListDoes(r)
    BY <1>2, ListEffect
  <2> QED
    BY <2>1, TypesAt DEF ListDoes, NoFault, api, agents, HandleInv, HandleOf,
       TypesOf, Early, Listable
<1>3. CASE ApiStarts
  <2> SUFFICES ASSUME NEW r \in Runs PROVE HandleOf(r)'
    BY DEF HandleInv
  <2>1. SweepDoes(r)
    BY <1>3, SweepEffect
  <2> QED
    BY <2>1, TypesAt DEF SweepDoes, ToFailed, api, tick, HandleInv, HandleOf,
       TypesOf, Early
<1>4. CASE UNCHANGED vars
  BY <1>4 DEF vars, api, agents, tick, bounds, HandleInv, HandleOf, Early
<1> QED  BY <1>1, <1>2, <1>3, <1>4, Steps

-----------------------------------------------------------------------------
(* The first attempt, and its start.                                       *)

\* Attempt 1 is over, and its start past the point where it could spawn it.
Past(r) == /\ 1 \notin alive[r]
           /\ \/ start[r] \in {"returning", "clearing", "done"}
              \/ start[r] = "none" /\ doc[r].status # "absent"

\* Without a sweep only a run that is past its first attempt has ended without
\* being cancelled, is on a later attempt, or is being resumed.
PastOf(r) ==
  /\ restarts = 0 =>
       \/ Past(r)
       \/ /\ doc[r].status \notin {"completed", "failed", "paused"}
          /\ doc[r].attempt = 1 /\ resume[r].at = "none"
PastInv == \A r \in Runs : PastOf(r)

\* The runs of old are past it, the others have not begun.
LEMMA InitPast == Init => PastInv
<1> SUFFICES ASSUME Init, NEW r \in Runs PROVE PastOf(r)
  BY DEF PastInv
<1>1. start[r] = "none" /\ resume[r] = NoResume /\ alive[r] = {}
  BY DEF Init
<1>2. doc[r] \in {Absent, [Absent EXCEPT !.status = "failed", !.done = Stopped(1)]}
  BY DEF Init
<1>3. CASE doc[r] = Absent
  BY <1>1, <1>3 DEF PastOf, Absent, NoResume
<1>4. CASE doc[r] = [Absent EXCEPT !.status = "failed", !.done = Stopped(1)]
  BY <1>1, <1>4 DEF PastOf, Past, Absent, NoResume
<1> QED  BY <1>2, <1>3, <1>4

\* A step keeps that of its run.
LEMMA PastOwn ==
  ASSUME TypeOK, OrderInv, PastInv, NEW r \in Runs, RunStep(r)
  PROVE  PastOf(r)'
<1>0. TypesOf(r) /\ OrderOf(r) /\ PastOf(r)
  BY TypesAt DEF OrderInv, PastInv
<1> USE <1>0 DEF TypesOf, PastOf, Past, OrderOf, Active, Resumable
<1>1. CASE CreatesDoes(r)
  BY <1>1 DEF CreatesDoes, StartFrame, tick, NoFault, Fault
<1>2. CASE ChecksDoes(r)
  BY <1>2 DEF ChecksDoes, StartFrame, tick, NoFault, Fault
<1>3. CASE YieldsDoes(r)
  BY <1>3 DEF YieldsDoes, Keeps, ToCancelled, StartFrame, tick, NoFault, Fault
<1>4. CASE ReservesDoes(r)
  BY <1>4 DEF ReservesDoes, StartFrame, tick, NoFault, Fault
<1>5. CASE StoresDoes(r)
  BY <1>5 DEF StoresDoes, StartFrame, tick, NoFault, Fault
<1>6. CASE ChargesDoes(r)
  BY <1>6 DEF ChargesDoes, StartFrame, tick, NoFault, Fault
<1>7. CASE ReleasesDoes(r)
  BY <1>7 DEF ReleasesDoes, Shut, StaysOpen, StartFrame, tick, NoFault, Fault
<1>8. CASE DeniedDoes(r)
  BY <1>8 DEF DeniedDoes, Keeps, ToFailed, StartFrame, tick, NoFault, Fault
<1>9. CASE SpawnsDoes(r)
  BY <1>9 DEF SpawnsDoes, StartFrame, tick, NoFault, Fault
<1>10. CASE UnspawnedDoes(r)
  BY <1>10 DEF UnspawnedDoes, ToFailed, StartFrame, tick, NoFault, Fault
<1>11. CASE ReturnsDoes(r)
  BY <1>11 DEF ReturnsDoes, Shut, StaysOpen, StartFrame, tick, NoFault, Fault
<1>12. CASE ReturnedDoes(r)
  BY <1>12 DEF ReturnedDoes, Keeps, ToCleared, StartFrame, tick, NoFault,
     Fault
<1>13. CASE ReadsDoes(r)
  BY <1>13 DEF ReadsDoes, ResumeFrame, tick, NoFault, Fault
<1>14. CASE PrechecksDoes(r)
  BY <1>14 DEF PrechecksDoes, Goes, Ends, ResumeFrame, tick, NoFault, Fault
<1>15. CASE FlipsDoes(r)
  BY <1>15 DEF FlipsDoes, ToFlipped, Ends, ResumeFrame, tick, NoFault, Fault
<1>16. CASE StampsDoes(r)
  BY <1>16 DEF StampsDoes, ToStamped, Goes, ResumeFrame, tick, NoFault, Fault
<1>17. CASE RechecksDoes(r)
  BY <1>17 DEF RechecksDoes, Goes, ResumeFrame, tick, NoFault, Fault
<1>18. CASE StandsDoes(r)
  BY <1>18 DEF StandsDoes, Keeps, ToFailed, Ends, ResumeFrame, tick, NoFault,
     Fault
<1>19. CASE ConfirmsDoes(r)
  BY <1>19 DEF ConfirmsDoes, Goes, Shut, StaysOpen, ResumeFrame, tick,
     NoFault, Fault
<1>20. CASE ClearsDoes(r)
  BY <1>20 DEF ClearsDoes, ToCleared, Goes, ResumeFrame, tick, NoFault, Fault
<1>21. CASE RespawnsDoes(r)
  BY <1>21 DEF RespawnsDoes, Goes, Ends, ResumeFrame, tick, NoFault, Fault,
     Underway
<1>22. CASE CancelReadsDoes(r)
  BY <1>22 DEF CancelReadsDoes, CancelFrame, agents, tick, NoFault, Fault
<1>23. CASE CancelsDoes(r)
  BY <1>23 DEF CancelsDoes, ToCancelled, CancelFrame, agents, tick, NoFault,
     Fault
<1>24. CASE CancelConfirmsDoes(r)
  BY <1>24 DEF CancelConfirmsDoes, Shut, StaysOpen, CancelFrame, agents, tick,
     NoFault, Fault
<1>25. CASE CallbackDoes(r)
  BY <1>25 DEF CallbackDoes, Shut, StaysOpen, api, tick, NoFault, Fault
<1>26. ASSUME NEW a \in Attempts, WorksDoes(r, a) PROVE PastOf(r)'
  BY <1>26 DEF WorksDoes, AgentFrame, api, agents, tick, bounds, NoFault,
     Fault
<1>27. ASSUME NEW a \in Attempts, EndsDoes(r, a) PROVE PastOf(r)'
  BY <1>27 DEF EndsDoes, AgentFrame, api, agents, tick, bounds, NoFault, Fault
<1>28. ASSUME NEW a \in Attempts, StopsDoes(r, a) PROVE PastOf(r)'
  BY <1>28 DEF StopsDoes, AgentFrame, api, agents, tick, bounds, NoFault,
     Fault
<1>29. ASSUME NEW a \in Attempts, FiresDoes(r, a) PROVE PastOf(r)'
  BY <1>29 DEF FiresDoes, Keeps, ToFailed, AgentFrame, api, agents, tick,
     bounds, NoFault, Fault
<1>30. CASE DiesDoes(r)
  BY <1>30 DEF DiesDoes, Ends, agents, tick, NoFault, Fault
<1>31. CASE ListedDoes(r)
  BY <1>31 DEF ListedDoes, Shut, StaysOpen, api, agents, NoFault, Fault
<1>32. CASE ClearedDoes(r)
  BY <1>32 DEF ClearedDoes, Keeps, ToCleared, api, agents, NoFault, Fault
<1> QED  BY <1>1, <1>2, <1>3, <1>4, <1>5, <1>6, <1>7, <1>8, <1>9, <1>10,
          <1>11, <1>12, <1>13, <1>14, <1>15, <1>16, <1>17, <1>18, <1>19,
          <1>20, <1>21, <1>22, <1>23, <1>24, <1>25, <1>26, <1>27, <1>28,
          <1>29, <1>30, <1>31, <1>32, Moves

\* Every step keeps that.
LEMMA PastStep ==
  ASSUME TypeOK, TypeOK', OrderInv, PastInv, [Next]_vars
  PROVE  PastInv'
<1>1. ASSUME NEW r \in Runs, RunStep(r) PROVE PastInv'
  <2>1. PastOf(r)'
    BY <1>1, PastOwn
  <2>2. \A s \in Runs \ {r} : PastOf(s)'
    BY <1>1, Elsewhere DEF Only, Same, PastInv, PastOf, Past
  <2> QED  BY <2>1, <2>2 DEF PastInv
<1>2. CASE ListsTerminal
  <2> SUFFICES ASSUME NEW r \in Runs PROVE PastOf(r)'
    BY DEF PastInv
  <2>1. ListDoes(r)
    BY <1>2, ListEffect
  <2> QED
    BY <2>1, TypesAt DEF ListDoes, NoFault, api, agents, OrderInv, OrderOf,
       PastInv, PastOf, TypesOf, Past, Active
<1>3. CASE ApiStarts
  <2> SUFFICES ASSUME NEW r \in Runs PROVE PastOf(r)'
    BY DEF PastInv
  <2>1. SweepDoes(r)
    BY <1>3, SweepEffect
  <2> QED
    BY <2>1, TypesAt DEF SweepDoes, ToFailed, api, tick, OrderInv, OrderOf,
       PastInv, PastOf, TypesOf, Past, Active
<1>4. CASE UNCHANGED vars
  BY <1>4 DEF vars, api, agents, tick, bounds, PastInv, PastOf, Past, Active
<1> QED  BY <1>1, <1>2, <1>3, <1>4, Steps

-----------------------------------------------------------------------------
(* The reservation of a first attempt.                                     *)

\* Attempt 1 will not work any more, or is cancelled.
Over(r) == \/ doc[r].status = "cancelled" \/ doc[r].attempt > 1
           \/ /\ 1 \notin alive[r]
              /\ \/ start[r] \in {"yielding", "releasing", "denied", "unspawned",
                                  "returning", "clearing", "done"}
                 \/ start[r] = "none" /\ doc[r].status # "absent"

\* Who closes a reservation has seen its attempt over; but for the cancel whose
\* own write failed, and for a sweep.
FreshOf(r) ==
  /\ r \in callback => Over(r)
  /\ restarts = 0 /\ listed[r] # NoOutcome => Over(r)
  /\ cancel[r].at = "confirming" => Over(r) \/ faults # 0
  /\ restarts = 0 /\ slot[r] = "closed" => Over(r) \/ (closing[r].by = "cancel" /\ faults # 0)
  /\ Metered /\ (start[r] \in {"storing", "charging", "spawning"} \/ 1 \in alive[r]) =>
       slot[r] # "none"
FreshInv == \A r \in Runs : FreshOf(r)

\* No reservation exists at the start.
LEMMA InitFresh == Init => FreshInv
<1> SUFFICES ASSUME Init, NEW r \in Runs PROVE FreshOf(r)
  BY DEF FreshInv
<1>1. /\ start[r] = "none" /\ slot[r] = "none" /\ cancel[r] = NoCancel
      /\ listed[r] = NoOutcome /\ callback = {} /\ alive[r] = {}
  BY DEF Init
<1> QED  BY <1>1 DEF FreshOf, NoCancel

\* A step keeps that of its run.
LEMMA FreshOwn ==
  ASSUME TypeOK, OrderInv, HandleInv, PastInv, FreshInv, NEW r \in Runs,
         RunStep(r)
  PROVE  FreshOf(r)'
<1>0. TypesOf(r) /\ OrderOf(r) /\ HandleOf(r) /\ PastOf(r) /\ FreshOf(r)
  BY TypesAt DEF OrderInv, HandleInv, PastInv, FreshInv
<1> USE <1>0 DEF TypesOf, FreshOf, Over, Past, PastOf, HandleOf, OrderOf,
        Early, Active, Resumable, NoCancel
<1>1. CASE CreatesDoes(r)
  BY <1>1 DEF CreatesDoes, StartFrame, tick, NoFault, Fault
<1>2. CASE ChecksDoes(r)
  BY <1>2 DEF ChecksDoes, StartFrame, tick, NoFault, Fault
<1>3. CASE YieldsDoes(r)
  BY <1>3 DEF YieldsDoes, Keeps, ToCancelled, StartFrame, tick, NoFault, Fault
<1>4. CASE ReservesDoes(r)
  BY <1>4 DEF ReservesDoes, StartFrame, tick, NoFault, Fault
<1>5. CASE StoresDoes(r)
  BY <1>5 DEF StoresDoes, StartFrame, tick, NoFault, Fault
<1>6. CASE ChargesDoes(r)
  BY <1>6 DEF ChargesDoes, StartFrame, tick, NoFault, Fault
<1>7. CASE ReleasesDoes(r)
  BY <1>7 DEF ReleasesDoes, Shut, StaysOpen, StartFrame, tick, NoFault, Fault
<1>8. CASE DeniedDoes(r)
  BY <1>8 DEF DeniedDoes, Keeps, ToFailed, StartFrame, tick, NoFault, Fault
<1>9. CASE SpawnsDoes(r)
  BY <1>9 DEF SpawnsDoes, StartFrame, tick, NoFault, Fault
<1>10. CASE UnspawnedDoes(r)
  BY <1>10 DEF UnspawnedDoes, ToFailed, StartFrame, tick, NoFault, Fault
<1>11. CASE ReturnsDoes(r)
  BY <1>11 DEF ReturnsDoes, Shut, StaysOpen, StartFrame, tick, NoFault, Fault
<1>12. CASE ReturnedDoes(r)
  BY <1>12 DEF ReturnedDoes, Keeps, ToCleared, StartFrame, tick, NoFault,
     Fault
<1>13. CASE ReadsDoes(r)
  BY <1>13 DEF ReadsDoes, ResumeFrame, tick, NoFault, Fault
<1>14. CASE PrechecksDoes(r)
  BY <1>14 DEF PrechecksDoes, Goes, Ends, ResumeFrame, tick, NoFault, Fault
<1>15. CASE FlipsDoes(r)
  BY <1>15 DEF FlipsDoes, ToFlipped, Ends, ResumeFrame, tick, NoFault, Fault
<1>16. CASE StampsDoes(r)
  BY <1>16 DEF StampsDoes, ToStamped, Goes, ResumeFrame, tick, NoFault, Fault
<1>17. CASE RechecksDoes(r)
  BY <1>17 DEF RechecksDoes, Goes, ResumeFrame, tick, NoFault, Fault
<1>18. CASE StandsDoes(r)
  BY <1>18 DEF StandsDoes, Keeps, ToFailed, Ends, ResumeFrame, tick, NoFault,
     Fault
<1>19. CASE ConfirmsDoes(r)
  BY <1>19 DEF ConfirmsDoes, Goes, Shut, StaysOpen, ResumeFrame, tick,
     NoFault, Fault
<1>20. CASE ClearsDoes(r)
  BY <1>20 DEF ClearsDoes, ToCleared, Goes, ResumeFrame, tick, NoFault, Fault
<1>21. CASE RespawnsDoes(r)
  BY <1>21 DEF RespawnsDoes, Goes, Ends, ResumeFrame, tick, NoFault, Fault,
     Underway
<1>22. CASE CancelReadsDoes(r)
  BY <1>22 DEF CancelReadsDoes, CancelFrame, agents, tick, NoFault, Fault
<1>23. CASE CancelsDoes(r)
  BY <1>23 DEF CancelsDoes, ToCancelled, CancelFrame, agents, tick, NoFault,
     Fault
<1>24. CASE CancelConfirmsDoes(r)
  BY <1>24 DEF CancelConfirmsDoes, Shut, StaysOpen, CancelFrame, agents, tick,
     NoFault, Fault
<1>25. CASE CallbackDoes(r)
  BY <1>25 DEF CallbackDoes, Shut, StaysOpen, api, tick, NoFault, Fault
<1>26. ASSUME NEW a \in Attempts, WorksDoes(r, a) PROVE FreshOf(r)'
  BY <1>26 DEF WorksDoes, AgentFrame, api, agents, tick, bounds, NoFault,
     Fault
<1>27. ASSUME NEW a \in Attempts, EndsDoes(r, a) PROVE FreshOf(r)'
  BY <1>27 DEF EndsDoes, AgentFrame, api, agents, tick, bounds, NoFault, Fault
<1>28. ASSUME NEW a \in Attempts, StopsDoes(r, a) PROVE FreshOf(r)'
  BY <1>28 DEF StopsDoes, AgentFrame, api, agents, tick, bounds, NoFault,
     Fault
<1>29. ASSUME NEW a \in Attempts, FiresDoes(r, a) PROVE FreshOf(r)'
  BY <1>29 DEF FiresDoes, Keeps, ToFailed, AgentFrame, api, agents, tick,
     bounds, NoFault, Fault
<1>30. CASE DiesDoes(r)
  BY <1>30 DEF DiesDoes, Ends, agents, tick, NoFault, Fault
<1>31. CASE ListedDoes(r)
  BY <1>31 DEF ListedDoes, Shut, StaysOpen, api, agents, NoFault, Fault
<1>32. CASE ClearedDoes(r)
  BY <1>32 DEF ClearedDoes, Keeps, ToCleared, api, agents, NoFault, Fault
<1> QED  BY <1>1, <1>2, <1>3, <1>4, <1>5, <1>6, <1>7, <1>8, <1>9, <1>10,
          <1>11, <1>12, <1>13, <1>14, <1>15, <1>16, <1>17, <1>18, <1>19,
          <1>20, <1>21, <1>22, <1>23, <1>24, <1>25, <1>26, <1>27, <1>28,
          <1>29, <1>30, <1>31, <1>32, Moves

\* Every step keeps that.
LEMMA FreshStep ==
  ASSUME TypeOK, TypeOK', OrderInv, HandleInv, PastInv, FreshInv, [Next]_vars
  PROVE  FreshInv'
<1>1. ASSUME NEW r \in Runs, RunStep(r) PROVE FreshInv'
  <2>1. FreshOf(r)'
    BY <1>1, FreshOwn
  <2>2. \A s \in Runs \ {r} : FreshOf(s)'
    BY <1>1, Elsewhere, TypesAt DEF Only, Same, FreshInv, FreshOf, Over,
       TypesOf
  <2> QED  BY <2>1, <2>2 DEF FreshInv
<1>2. CASE ListsTerminal
  <2> SUFFICES ASSUME NEW r \in Runs PROVE FreshOf(r)'
    BY DEF FreshInv
  <2>1. ListDoes(r)
    BY <1>2, ListEffect
  <2> QED
    BY <2>1, TypesAt DEF ListDoes, NoFault, api, agents, OrderInv, OrderOf,
       HandleInv, HandleOf, PastInv, PastOf, FreshInv, FreshOf, TypesOf, Over,
       Past, PastInv, PastOf, Terminal
<1>3. CASE ApiStarts
  <2> SUFFICES ASSUME NEW r \in Runs PROVE FreshOf(r)'
    BY DEF FreshInv
  <2>1. SweepDoes(r)
    BY <1>3, SweepEffect
  <2> QED
    BY <2>1, TypesAt DEF SweepDoes, ToFailed, api, tick, OrderInv, OrderOf,
       HandleInv, HandleOf, PastInv, PastOf, FreshInv, FreshOf, TypesOf, Over,
       Past, PastInv, PastOf, Active
<1>4. CASE UNCHANGED vars
  BY <1>4 DEF vars, api, agents, tick, bounds, FreshInv, FreshOf, Over,
       Past, PastInv, PastOf
<1> QED  BY <1>1, <1>2, <1>3, <1>4, Steps

-----------------------------------------------------------------------------
(* Successes, and when a run ended.                                        *)

\* A run that ended carries the end of its attempt; success is of attempt 1.
SuccessOf(r) ==
  /\ doc[r].status \in {"completed", "failed"} => doc[r].done = Stopped(doc[r].attempt)
  /\ listed[r].status = "success" => listed[r].ended = Stopped(1)
  /\ closing[r].status = "success" => closing[r].ended = Stopped(1)
SuccessInv == \A r \in Runs : SuccessOf(r)

\* Nothing is closed or listed at the start.
LEMMA InitSuccess == Init => SuccessInv
<1> SUFFICES ASSUME Init, NEW r \in Runs PROVE SuccessOf(r)
  BY DEF SuccessInv
<1>1. listed[r] = NoOutcome /\ closing[r] = NoOutcome
  BY DEF Init
<1>2. doc[r] \in {Absent, [Absent EXCEPT !.status = "failed", !.done = Stopped(1)]}
  BY DEF Init
<1>3. CASE doc[r] = Absent
  BY <1>1, <1>3 DEF SuccessOf, Absent, NoOutcome
<1>4. CASE doc[r] = [Absent EXCEPT !.status = "failed", !.done = Stopped(1)]
  BY <1>1, <1>4 DEF SuccessOf, Absent, NoOutcome
<1> QED  BY <1>2, <1>3, <1>4

\* A step keeps that of its run.
LEMMA SuccessOwn ==
  ASSUME TypeOK, SuccessInv, NEW r \in Runs, RunStep(r)
  PROVE  SuccessOf(r)'
<1>0. TypesOf(r) /\ SuccessOf(r)
  BY TypesAt DEF SuccessInv
<1> USE <1>0 DEF TypesOf, SuccessOf, Active, NoOutcome
<1>1. CASE CreatesDoes(r)
  BY <1>1 DEF CreatesDoes, StartFrame, tick, NoFault, Fault
<1>2. CASE ChecksDoes(r)
  BY <1>2 DEF ChecksDoes, StartFrame, tick, NoFault, Fault
<1>3. CASE YieldsDoes(r)
  BY <1>3 DEF YieldsDoes, Keeps, ToCancelled, StartFrame, tick, NoFault, Fault
<1>4. CASE ReservesDoes(r)
  BY <1>4 DEF ReservesDoes, StartFrame, tick, NoFault, Fault
<1>5. CASE StoresDoes(r)
  BY <1>5 DEF StoresDoes, StartFrame, tick, NoFault, Fault
<1>6. CASE ChargesDoes(r)
  BY <1>6 DEF ChargesDoes, StartFrame, tick, NoFault, Fault
<1>7. CASE ReleasesDoes(r)
  BY <1>7 DEF ReleasesDoes, Shut, StaysOpen, StartFrame, tick, NoFault, Fault
<1>8. CASE DeniedDoes(r)
  BY <1>8 DEF DeniedDoes, Keeps, ToFailed, StartFrame, tick, NoFault, Fault
<1>9. CASE SpawnsDoes(r)
  BY <1>9 DEF SpawnsDoes, StartFrame, tick, NoFault, Fault
<1>10. CASE UnspawnedDoes(r)
  BY <1>10 DEF UnspawnedDoes, ToFailed, StartFrame, tick, NoFault, Fault
<1>11. CASE ReturnsDoes(r)
  BY <1>11 DEF ReturnsDoes, Shut, StaysOpen, StartFrame, tick, NoFault, Fault
<1>12. CASE ReturnedDoes(r)
  BY <1>12 DEF ReturnedDoes, Keeps, ToCleared, StartFrame, tick, NoFault,
     Fault
<1>13. CASE ReadsDoes(r)
  BY <1>13 DEF ReadsDoes, ResumeFrame, tick, NoFault, Fault
<1>14. CASE PrechecksDoes(r)
  BY <1>14 DEF PrechecksDoes, Goes, Ends, ResumeFrame, tick, NoFault, Fault
<1>15. CASE FlipsDoes(r)
  BY <1>15 DEF FlipsDoes, ToFlipped, Ends, ResumeFrame, tick, NoFault, Fault
<1>16. CASE StampsDoes(r)
  BY <1>16 DEF StampsDoes, ToStamped, Goes, ResumeFrame, tick, NoFault, Fault
<1>17. CASE RechecksDoes(r)
  BY <1>17 DEF RechecksDoes, Goes, ResumeFrame, tick, NoFault, Fault
<1>18. CASE StandsDoes(r)
  BY <1>18 DEF StandsDoes, Keeps, ToFailed, Ends, ResumeFrame, tick, NoFault,
     Fault
<1>19. CASE ConfirmsDoes(r)
  BY <1>19 DEF ConfirmsDoes, Goes, Shut, StaysOpen, ResumeFrame, tick,
     NoFault, Fault
<1>20. CASE ClearsDoes(r)
  BY <1>20 DEF ClearsDoes, ToCleared, Goes, ResumeFrame, tick, NoFault, Fault
<1>21. CASE RespawnsDoes(r)
  BY <1>21 DEF RespawnsDoes, Goes, Ends, ResumeFrame, tick, NoFault, Fault
<1>22. CASE CancelReadsDoes(r)
  BY <1>22 DEF CancelReadsDoes, CancelFrame, agents, tick, NoFault, Fault
<1>23. CASE CancelsDoes(r)
  BY <1>23 DEF CancelsDoes, ToCancelled, CancelFrame, agents, tick, NoFault,
     Fault
<1>24. CASE CancelConfirmsDoes(r)
  BY <1>24 DEF CancelConfirmsDoes, Shut, StaysOpen, CancelFrame, agents, tick,
     NoFault, Fault
<1>25. CASE CallbackDoes(r)
  BY <1>25 DEF CallbackDoes, Shut, StaysOpen, api, tick, NoFault, Fault
<1>26. ASSUME NEW a \in Attempts, WorksDoes(r, a) PROVE SuccessOf(r)'
  BY <1>26 DEF WorksDoes, AgentFrame, api, agents, tick, bounds, NoFault,
     Fault
<1>27. ASSUME NEW a \in Attempts, EndsDoes(r, a) PROVE SuccessOf(r)'
  BY <1>27 DEF EndsDoes, AgentFrame, api, agents, tick, bounds, NoFault, Fault
<1>28. ASSUME NEW a \in Attempts, StopsDoes(r, a) PROVE SuccessOf(r)'
  BY <1>28 DEF StopsDoes, AgentFrame, api, agents, tick, bounds, NoFault,
     Fault
<1>29. ASSUME NEW a \in Attempts, FiresDoes(r, a) PROVE SuccessOf(r)'
  BY <1>29 DEF FiresDoes, Keeps, ToFailed, AgentFrame, api, agents, tick,
     bounds, NoFault, Fault
<1>30. CASE DiesDoes(r)
  BY <1>30 DEF DiesDoes, Ends, agents, tick, NoFault, Fault
<1>31. CASE ListedDoes(r)
  BY <1>31 DEF ListedDoes, Shut, StaysOpen, api, agents, NoFault, Fault
<1>32. CASE ClearedDoes(r)
  BY <1>32 DEF ClearedDoes, Keeps, ToCleared, api, agents, NoFault, Fault
<1> QED  BY <1>1, <1>2, <1>3, <1>4, <1>5, <1>6, <1>7, <1>8, <1>9, <1>10,
          <1>11, <1>12, <1>13, <1>14, <1>15, <1>16, <1>17, <1>18, <1>19,
          <1>20, <1>21, <1>22, <1>23, <1>24, <1>25, <1>26, <1>27, <1>28,
          <1>29, <1>30, <1>31, <1>32, Moves

\* Every step keeps that.
LEMMA SuccessStep ==
  ASSUME TypeOK, TypeOK', SuccessInv, [Next]_vars
  PROVE  SuccessInv'
<1>1. ASSUME NEW r \in Runs, RunStep(r) PROVE SuccessInv'
  <2>1. SuccessOf(r)'
    BY <1>1, SuccessOwn
  <2>2. \A s \in Runs \ {r} : SuccessOf(s)'
    BY <1>1, Elsewhere DEF Only, Same, SuccessInv, SuccessOf
  <2> QED  BY <2>1, <2>2 DEF SuccessInv
<1>2. CASE ListsTerminal
  <2> SUFFICES ASSUME NEW r \in Runs PROVE SuccessOf(r)'
    BY DEF SuccessInv
  <2>1. ListDoes(r)
    BY <1>2, ListEffect
  <2> QED
    BY <2>1, TypesAt DEF ListDoes, NoFault, api, agents, SuccessInv,
       SuccessOf, TypesOf, Superseded, RunStatus, Terminal, NoOutcome
<1>3. CASE ApiStarts
  <2> SUFFICES ASSUME NEW r \in Runs PROVE SuccessOf(r)'
    BY DEF SuccessInv
  <2>1. SweepDoes(r)
    BY <1>3, SweepEffect
  <2> QED
    BY <2>1, TypesAt DEF SweepDoes, ToFailed, api, tick, SuccessInv,
       SuccessOf, TypesOf, Active
<1>4. CASE UNCHANGED vars
  BY <1>4 DEF vars, api, agents, tick, bounds, SuccessInv, SuccessOf
<1> QED  BY <1>1, <1>2, <1>3, <1>4, Steps

-----------------------------------------------------------------------------
(* Resumes that are let go on.                                             *)

\* Without a sweep a run has not ended while the agent of its attempt works, nor
\* while a resume goes on to start it.
ExclOf(r) ==
  /\ restarts = 0 /\ doc[r].status \in {"failed", "paused", "completed"} =>
       doc[r].attempt \notin alive[r]
  /\ restarts = 0 /\ resume[r].at \in Underway =>
       doc[r].status \in {"running", "cancelled"} \/ resume[r].at = "standing"
ExclInv == \A r \in Runs : ExclOf(r)

\* A resume of r was let go on, and what it started is not over.
Passed(r) == /\ doc[r].attempt > 1 /\ Active(doc[r])
             /\ \/ resume[r].at \in {"confirming", "clearing", "spawning"}
                \/ doc[r].attempt \in alive[r]
OnePassed == restarts = 0 => \A r, s \in Runs : Passed(r) /\ Passed(s) => r = s

\* Nobody works at the start, and nothing is resumed.
LEMMA InitExcl == Init => ExclInv /\ OnePassed
<1> SUFFICES ASSUME Init PROVE ExclInv /\ OnePassed
  OBVIOUS
<1>1. \A r \in Runs : resume[r] = NoResume /\ alive[r] = {}
  BY DEF Init
<1> QED  BY <1>1 DEF ExclInv, ExclOf, OnePassed, Passed, NoResume, Underway

\* A step keeps that of its run.
LEMMA ExclOwn ==
  ASSUME TypeOK, OrderInv, PastInv, ExclInv, NEW r \in Runs, RunStep(r)
  PROVE  ExclOf(r)'
<1>0. TypesOf(r) /\ OrderOf(r) /\ PastOf(r) /\ ExclOf(r)
  BY TypesAt DEF OrderInv, PastInv, ExclInv
<1> USE <1>0 DEF TypesOf, ExclOf, OrderOf, PastOf, Past, Underway, Active,
        Resumable, NoCancel
<1>1. CASE CreatesDoes(r)
  BY <1>1 DEF CreatesDoes, StartFrame, tick, NoFault, Fault
<1>2. CASE ChecksDoes(r)
  BY <1>2 DEF ChecksDoes, StartFrame, tick, NoFault, Fault
<1>3. CASE YieldsDoes(r)
  BY <1>3 DEF YieldsDoes, Keeps, ToCancelled, StartFrame, tick, NoFault, Fault
<1>4. CASE ReservesDoes(r)
  BY <1>4 DEF ReservesDoes, StartFrame, tick, NoFault, Fault
<1>5. CASE StoresDoes(r)
  BY <1>5 DEF StoresDoes, StartFrame, tick, NoFault, Fault
<1>6. CASE ChargesDoes(r)
  BY <1>6 DEF ChargesDoes, StartFrame, tick, NoFault, Fault
<1>7. CASE ReleasesDoes(r)
  BY <1>7 DEF ReleasesDoes, Shut, StaysOpen, StartFrame, tick, NoFault, Fault
<1>8. CASE DeniedDoes(r)
  BY <1>8 DEF DeniedDoes, Keeps, ToFailed, StartFrame, tick, NoFault, Fault
<1>9. CASE SpawnsDoes(r)
  BY <1>9 DEF SpawnsDoes, StartFrame, tick, NoFault, Fault
<1>10. CASE UnspawnedDoes(r)
  BY <1>10 DEF UnspawnedDoes, ToFailed, StartFrame, tick, NoFault, Fault
<1>11. CASE ReturnsDoes(r)
  BY <1>11 DEF ReturnsDoes, Shut, StaysOpen, StartFrame, tick, NoFault, Fault
<1>12. CASE ReturnedDoes(r)
  BY <1>12 DEF ReturnedDoes, Keeps, ToCleared, StartFrame, tick, NoFault,
     Fault
<1>13. CASE ReadsDoes(r)
  BY <1>13 DEF ReadsDoes, ResumeFrame, tick, NoFault, Fault
<1>14. CASE PrechecksDoes(r)
  BY <1>14 DEF PrechecksDoes, Goes, Ends, ResumeFrame, tick, NoFault, Fault
<1>15. CASE FlipsDoes(r)
  BY <1>15 DEF FlipsDoes, ToFlipped, Ends, ResumeFrame, tick, NoFault, Fault
<1>16. CASE StampsDoes(r)
  BY <1>16 DEF StampsDoes, ToStamped, Goes, ResumeFrame, tick, NoFault, Fault
<1>17. CASE RechecksDoes(r)
  BY <1>17 DEF RechecksDoes, Goes, ResumeFrame, tick, NoFault, Fault
<1>18. CASE StandsDoes(r)
  BY <1>18 DEF StandsDoes, Keeps, ToFailed, Ends, ResumeFrame, tick, NoFault,
     Fault
<1>19. CASE ConfirmsDoes(r)
  BY <1>19 DEF ConfirmsDoes, Goes, Shut, StaysOpen, ResumeFrame, tick,
     NoFault, Fault
<1>20. CASE ClearsDoes(r)
  BY <1>20 DEF ClearsDoes, ToCleared, Goes, ResumeFrame, tick, NoFault, Fault
<1>21. CASE RespawnsDoes(r)
  BY <1>21 DEF RespawnsDoes, Goes, Ends, ResumeFrame, tick, NoFault, Fault
<1>22. CASE CancelReadsDoes(r)
  BY <1>22 DEF CancelReadsDoes, CancelFrame, agents, tick, NoFault, Fault
<1>23. CASE CancelsDoes(r)
  BY <1>23 DEF CancelsDoes, ToCancelled, CancelFrame, agents, tick, NoFault,
     Fault
<1>24. CASE CancelConfirmsDoes(r)
  BY <1>24 DEF CancelConfirmsDoes, Shut, StaysOpen, CancelFrame, agents, tick,
     NoFault, Fault
<1>25. CASE CallbackDoes(r)
  BY <1>25 DEF CallbackDoes, Shut, StaysOpen, api, tick, NoFault, Fault
<1>26. ASSUME NEW a \in Attempts, WorksDoes(r, a) PROVE ExclOf(r)'
  BY <1>26 DEF WorksDoes, AgentFrame, api, agents, tick, bounds, NoFault,
     Fault
<1>27. ASSUME NEW a \in Attempts, EndsDoes(r, a) PROVE ExclOf(r)'
  BY <1>27 DEF EndsDoes, AgentFrame, api, agents, tick, bounds, NoFault, Fault
<1>28. ASSUME NEW a \in Attempts, StopsDoes(r, a) PROVE ExclOf(r)'
  BY <1>28 DEF StopsDoes, AgentFrame, api, agents, tick, bounds, NoFault,
     Fault
<1>29. ASSUME NEW a \in Attempts, FiresDoes(r, a) PROVE ExclOf(r)'
  BY <1>29 DEF FiresDoes, Keeps, ToFailed, AgentFrame, api, agents, tick,
     bounds, NoFault, Fault
<1>30. CASE DiesDoes(r)
  BY <1>30 DEF DiesDoes, Ends, agents, tick, NoFault, Fault
<1>31. CASE ListedDoes(r)
  BY <1>31 DEF ListedDoes, Shut, StaysOpen, api, agents, NoFault, Fault
<1>32. CASE ClearedDoes(r)
  BY <1>32 DEF ClearedDoes, Keeps, ToCleared, api, agents, NoFault, Fault
<1> QED  BY <1>1, <1>2, <1>3, <1>4, <1>5, <1>6, <1>7, <1>8, <1>9, <1>10,
          <1>11, <1>12, <1>13, <1>14, <1>15, <1>16, <1>17, <1>18, <1>19,
          <1>20, <1>21, <1>22, <1>23, <1>24, <1>25, <1>26, <1>27, <1>28,
          <1>29, <1>30, <1>31, <1>32, Moves

\* Every step keeps that.
LEMMA ExclStep ==
  ASSUME TypeOK, TypeOK', OrderInv, PastInv, ExclInv, [Next]_vars
  PROVE  ExclInv'
<1>1. ASSUME NEW r \in Runs, RunStep(r) PROVE ExclInv'
  <2>1. ExclOf(r)'
    BY <1>1, ExclOwn
  <2>2. \A s \in Runs \ {r} : ExclOf(s)'
    BY <1>1, Elsewhere DEF Only, Same, ExclInv, ExclOf, Underway
  <2> QED  BY <2>1, <2>2 DEF ExclInv
<1>2. CASE ListsTerminal
  <2> SUFFICES ASSUME NEW r \in Runs PROVE ExclOf(r)'
    BY DEF ExclInv
  <2>1. ListDoes(r)
    BY <1>2, ListEffect
  <2> QED
    BY <2>1, TypesAt DEF ListDoes, NoFault, api, agents, OrderInv, OrderOf,
       PastInv, PastOf, ExclInv, ExclOf, TypesOf, Underway
<1>3. CASE ApiStarts
  <2> SUFFICES ASSUME NEW r \in Runs PROVE ExclOf(r)'
    BY DEF ExclInv
  <2>1. SweepDoes(r)
    BY <1>3, SweepEffect
  <2> QED
    BY <2>1, TypesAt DEF SweepDoes, ToFailed, api, tick, OrderInv, OrderOf,
       PastInv, PastOf, ExclInv, ExclOf, TypesOf, Underway
<1>4. CASE UNCHANGED vars
  BY <1>4 DEF vars, api, agents, tick, bounds, ExclInv, ExclOf, Underway
<1> QED  BY <1>1, <1>2, <1>3, <1>4, Steps

\* A resume is let go on only past the check that no other run is active.
LEMMA PassedOwn ==
  ASSUME TypeOK, OrderInv, PastInv, ExclInv, NEW r \in Runs, RunStep(r), restarts' = 0, Passed(r)'
  PROVE  Passed(r) \/ AloneActive(r)
<1>0. TypesOf(r) /\ OrderOf(r) /\ PastOf(r) /\ ExclOf(r)
  BY TypesAt DEF OrderInv, PastInv, ExclInv
<1> USE <1>0 DEF TypesOf, OrderOf, PastOf, Past, ExclOf, Underway,
        Passed, Active, Resumable, NoCancel
<1>1. CASE CreatesDoes(r)
  BY <1>1 DEF CreatesDoes, StartFrame, tick, NoFault, Fault
<1>2. CASE ChecksDoes(r)
  BY <1>2 DEF ChecksDoes, StartFrame, tick, NoFault, Fault
<1>3. CASE YieldsDoes(r)
  BY <1>3 DEF YieldsDoes, Keeps, ToCancelled, StartFrame, tick, NoFault, Fault
<1>4. CASE ReservesDoes(r)
  BY <1>4 DEF ReservesDoes, StartFrame, tick, NoFault, Fault
<1>5. CASE StoresDoes(r)
  BY <1>5 DEF StoresDoes, StartFrame, tick, NoFault, Fault
<1>6. CASE ChargesDoes(r)
  BY <1>6 DEF ChargesDoes, StartFrame, tick, NoFault, Fault
<1>7. CASE ReleasesDoes(r)
  BY <1>7 DEF ReleasesDoes, Shut, StaysOpen, StartFrame, tick, NoFault, Fault
<1>8. CASE DeniedDoes(r)
  BY <1>8 DEF DeniedDoes, Keeps, ToFailed, StartFrame, tick, NoFault, Fault
<1>9. CASE SpawnsDoes(r)
  BY <1>9 DEF SpawnsDoes, StartFrame, tick, NoFault, Fault
<1>10. CASE UnspawnedDoes(r)
  BY <1>10 DEF UnspawnedDoes, ToFailed, StartFrame, tick, NoFault, Fault
<1>11. CASE ReturnsDoes(r)
  BY <1>11 DEF ReturnsDoes, Shut, StaysOpen, StartFrame, tick, NoFault, Fault
<1>12. CASE ReturnedDoes(r)
  BY <1>12 DEF ReturnedDoes, Keeps, ToCleared, StartFrame, tick, NoFault,
     Fault
<1>13. CASE ReadsDoes(r)
  BY <1>13 DEF ReadsDoes, ResumeFrame, tick, NoFault, Fault
<1>14. CASE PrechecksDoes(r)
  BY <1>14 DEF PrechecksDoes, Goes, Ends, ResumeFrame, tick, NoFault, Fault
<1>15. CASE FlipsDoes(r)
  BY <1>15 DEF FlipsDoes, ToFlipped, Ends, ResumeFrame, tick, NoFault, Fault
<1>16. CASE StampsDoes(r)
  BY <1>16 DEF StampsDoes, ToStamped, Goes, ResumeFrame, tick, NoFault, Fault
<1>17. CASE RechecksDoes(r)
  BY <1>17 DEF RechecksDoes, Goes, ResumeFrame, tick, NoFault, Fault
<1>18. CASE StandsDoes(r)
  BY <1>18 DEF StandsDoes, Keeps, ToFailed, Ends, ResumeFrame, tick, NoFault,
     Fault
<1>19. CASE ConfirmsDoes(r)
  BY <1>19 DEF ConfirmsDoes, Goes, Shut, StaysOpen, ResumeFrame, tick,
     NoFault, Fault
<1>20. CASE ClearsDoes(r)
  BY <1>20 DEF ClearsDoes, ToCleared, Goes, ResumeFrame, tick, NoFault, Fault
<1>21. CASE RespawnsDoes(r)
  BY <1>21 DEF RespawnsDoes, Goes, Ends, ResumeFrame, tick, NoFault, Fault
<1>22. CASE CancelReadsDoes(r)
  BY <1>22 DEF CancelReadsDoes, CancelFrame, agents, tick, NoFault, Fault
<1>23. CASE CancelsDoes(r)
  BY <1>23 DEF CancelsDoes, ToCancelled, CancelFrame, agents, tick, NoFault,
     Fault
<1>24. CASE CancelConfirmsDoes(r)
  BY <1>24 DEF CancelConfirmsDoes, Shut, StaysOpen, CancelFrame, agents, tick,
     NoFault, Fault
<1>25. CASE CallbackDoes(r)
  BY <1>25 DEF CallbackDoes, Shut, StaysOpen, api, tick, NoFault, Fault
<1>26. ASSUME NEW a \in Attempts, WorksDoes(r, a) PROVE Passed(r) \/ AloneActive(r)
  BY <1>26 DEF WorksDoes, AgentFrame, api, agents, tick, bounds, NoFault,
     Fault
<1>27. ASSUME NEW a \in Attempts, EndsDoes(r, a) PROVE Passed(r) \/ AloneActive(r)
  BY <1>27 DEF EndsDoes, AgentFrame, api, agents, tick, bounds, NoFault, Fault
<1>28. ASSUME NEW a \in Attempts, StopsDoes(r, a) PROVE Passed(r) \/ AloneActive(r)
  BY <1>28 DEF StopsDoes, AgentFrame, api, agents, tick, bounds, NoFault,
     Fault
<1>29. ASSUME NEW a \in Attempts, FiresDoes(r, a) PROVE Passed(r) \/ AloneActive(r)
  BY <1>29 DEF FiresDoes, Keeps, ToFailed, AgentFrame, api, agents, tick,
     bounds, NoFault, Fault
<1>30. CASE DiesDoes(r)
  BY <1>30 DEF DiesDoes, Ends, agents, tick, NoFault, Fault
<1>31. CASE ListedDoes(r)
  BY <1>31 DEF ListedDoes, Shut, StaysOpen, api, agents, NoFault, Fault
<1>32. CASE ClearedDoes(r)
  BY <1>32 DEF ClearedDoes, Keeps, ToCleared, api, agents, NoFault, Fault
<1> QED  BY <1>1, <1>2, <1>3, <1>4, <1>5, <1>6, <1>7, <1>8, <1>9, <1>10,
          <1>11, <1>12, <1>13, <1>14, <1>15, <1>16, <1>17, <1>18, <1>19,
          <1>20, <1>21, <1>22, <1>23, <1>24, <1>25, <1>26, <1>27, <1>28,
          <1>29, <1>30, <1>31, <1>32, Moves

\* Every step lets at most one go on.
LEMMA PassedStep ==
  ASSUME TypeOK, TypeOK', OrderInv, PastInv, ExclInv, OnePassed, [Next]_vars
  PROVE  OnePassed'
<1>1. ASSUME NEW r \in Runs, RunStep(r) PROVE OnePassed'
  <2> SUFFICES ASSUME restarts' = 0, NEW s \in Runs, NEW t \in Runs,
                      Passed(s)', Passed(t)'
               PROVE  s = t
    BY DEF OnePassed
  <2>1. /\ restarts = 0
        /\ \A u \in Runs \ {r} : Passed(u)' => Passed(u) /\ Active(doc[u])
    BY <1>1, Elsewhere DEF Only, Same, Passed
  <2>2. Passed(r)' => Passed(r) \/ AloneActive(r)
    BY <1>1, PassedOwn
  <2>3. AloneActive(r) => \A u \in Runs \ {r} : ~Active(doc[u])
    BY DEF AloneActive, Others
  <2> QED  BY <2>1, <2>2, <2>3 DEF OnePassed
<1>2. CASE ListsTerminal
  BY <1>2 DEF ListsTerminal, api, agents, OnePassed, Passed
<1>3. CASE ApiStarts
  BY <1>3, SweepEffect DEF SweepDoes, OnePassed
<1>4. CASE UNCHANGED vars
  BY <1>4 DEF vars, api, agents, bounds, OnePassed, Passed
<1> QED  BY <1>1, <1>2, <1>3, <1>4, Steps

-----------------------------------------------------------------------------
(* The time a reservation is closed with.                                  *)

\* A time that may be charged to the first attempt, with f failures so far.
OwnersEnd(m, f) == \/ m \in {Stopped(1), Resumed(2)}
                   \/ f = 1 /\ \E a \in Attempts \ {1} : m = Resumed(a)

\* The document of a later attempt has the id and no stamp.
Unstamped(r) == doc[r].handle /\ doc[r].attempt > 1 /\ doc[r].stamp = 0

\* The times that anybody has read for the end of the first attempt.
GoodReads(r) ==
  /\ listed[r].status = "failure" => OwnersEnd(listed[r].ended, faults)
  /\ cancel[r].status = "failure" => OwnersEnd(cancel[r].ended, faults)
  /\ resume[r].handle => OwnersEnd(resume[r].ended, faults)
GoodEnd(r) ==
  closing[r].status = "failure" /\ closing[r].by # "callback" =>
    OwnersEnd(closing[r].ended, faults)
GoodStamp(r) == doc[r].stamp # 0 => OwnersEnd(doc[r].stamp, faults)

\* What a resume finds on a run that has its reservation's id.
FoundByResume(r) ==
  /\ doc[r].attempt = 1 => doc[r].resumed = 0 /\ doc[r].paused \in {0, Stopped(1)}
  /\ doc[r].status = "paused" => doc[r].paused # 0
  /\ resume[r].at # "none" /\ doc[r].handle => resume[r].handle

\* A later attempt goes without its stamp only between the flip and the stamp,
\* or if that failed, and then no later agent works (whose pause would be taken
\* for the end of the first).
MissingStamp(r) ==
  Unstamped(r) =>
    /\ doc[r].paused \in {0, Stopped(1)}
    /\ doc[r].resumed = Resumed(doc[r].attempt)
    /\ \A a \in alive[r] : a = 1
    /\ resume[r].at # "spawning"
    /\ faults = 1 \/ (resume[r].at = "flipped" /\ doc[r].attempt = 2)

\* Without a sweep and with one failure at most.
Calm == faults <= 1 /\ restarts = 0
EndOf(r) == Calm => /\ GoodReads(r) /\ GoodEnd(r) /\ GoodStamp(r)
                    /\ FoundByResume(r) /\ MissingStamp(r)
EndInv == \A r \in Runs : EndOf(r)

\* What is read of a document for the end of its first attempt is a good time.
LEMMA OwnerRead ==
  ASSUME NEW r \in Runs, TypesOf(r), SuccessOf(r), EndOf(r), faults <= 1, restarts = 0,
         doc[r].handle, Superseded(doc[r]) \/ Resumable(doc[r])
  PROVE  OwnersEnd(OwnerEndedAt(doc[r]), faults)
<1>1. doc[r].attempt \in Attempts /\ doc[r].attempt \in Nat
  BY DEF TypesOf, Docs
<1>2. /\ doc[r].stamp # 0 => OwnersEnd(doc[r].stamp, faults)
      /\ doc[r].attempt = 1 => doc[r].resumed = 0 /\ doc[r].paused \in {0, Stopped(1)}
      /\ doc[r].status = "paused" => doc[r].paused # 0
      /\ Unstamped(r) => /\ doc[r].paused \in {0, Stopped(1)}
                         /\ doc[r].resumed = Resumed(doc[r].attempt)
                         /\ faults = 1 \/ doc[r].attempt = 2
  BY DEF EndOf, Calm, GoodReads, GoodEnd, GoodStamp, FoundByResume,
        MissingStamp
<1>3. CASE doc[r].stamp # 0
  BY <1>2, <1>3 DEF OwnerEndedAt
<1>4. CASE doc[r].stamp = 0 /\ doc[r].paused # 0
  <2>1. doc[r].paused = Stopped(1)
    BY <1>1, <1>2, <1>4 DEF Unstamped, TypesOf
  <2> QED  BY <2>1, <1>4 DEF OwnerEndedAt, OwnersEnd
<1>5. CASE doc[r].stamp = 0 /\ doc[r].paused = 0 /\ doc[r].attempt # 1
  <2>1. doc[r].resumed = Resumed(doc[r].attempt) /\ (faults = 1 \/ doc[r].attempt = 2)
    BY <1>1, <1>2, <1>5 DEF Unstamped, TypesOf
  <2>2. Resumed(doc[r].attempt) # 0
    BY <1>1 DEF Resumed
  <2>3. OwnerEndedAt(doc[r]) = Resumed(doc[r].attempt)
    BY <2>1, <2>2, <1>5 DEF OwnerEndedAt
  <2> QED  BY <2>1, <2>3, <1>1, <1>5 DEF OwnersEnd
<1>6. CASE doc[r].stamp = 0 /\ doc[r].paused = 0 /\ doc[r].attempt = 1
  <2>1. doc[r].done = Stopped(1) /\ doc[r].resumed = 0
    BY <1>2, <1>6 DEF SuccessOf, Resumable, Superseded
  <2> QED  BY <2>1, <1>6 DEF OwnerEndedAt, OwnersEnd
<1> QED  BY <1>3, <1>4, <1>5, <1>6

\* No time has been read at the start.
LEMMA InitEnd == Init => EndInv
<1> SUFFICES ASSUME Init, NEW r \in Runs PROVE EndOf(r)
  BY DEF EndInv
<1>1. /\ resume[r] = NoResume /\ cancel[r] = NoCancel /\ listed[r] = NoOutcome
      /\ closing[r] = NoOutcome /\ alive[r] = {}
  BY DEF Init
<1>2. doc[r] \in {Absent, [Absent EXCEPT !.status = "failed", !.done = Stopped(1)]}
  BY DEF Init
<1>3. /\ doc[r].handle = FALSE /\ doc[r].stamp = 0 /\ doc[r].resumed = 0
      /\ doc[r].paused = 0 /\ doc[r].status # "paused"
  <2>1. CASE doc[r] = Absent
    BY <2>1 DEF Absent
  <2>2. CASE doc[r] = [Absent EXCEPT !.status = "failed", !.done = Stopped(1)]
    BY <2>2 DEF Absent
  <2> QED  BY <1>2, <2>1, <2>2
<1> QED  BY <1>1, <1>3 DEF EndOf, Calm, GoodReads, GoodEnd, GoodStamp, FoundByResume,
        MissingStamp, Unstamped, NoResume, NoCancel, NoOutcome

\* A step keeps that of its run.
LEMMA EndOwn ==
  ASSUME TypeOK, OrderInv, HandleInv, PastInv, SuccessInv, EndInv, NEW r \in
         Runs, RunStep(r)
  PROVE  EndOf(r)'
<1>0. TypesOf(r) /\ OrderOf(r) /\ HandleOf(r) /\ PastOf(r) /\ SuccessOf(r) /\ EndOf(r)
  BY TypesAt DEF OrderInv, HandleInv, PastInv, SuccessInv, EndInv
<1>e. \A m : OwnersEnd(m, faults) /\ faults' \in {faults, faults + 1} /\ faults' <= 1 =>
             OwnersEnd(m, faults')
  BY <1>0 DEF TypesOf, OwnersEnd
<1>n. \A m : OwnersEnd(m, faults) => m # 0
  BY DispatchAssumption DEF OwnersEnd, Stopped, Resumed, Attempts
<1>o. faults <= 1 /\ restarts = 0 /\ doc[r].handle /\
      (Superseded(doc[r]) \/ Resumable(doc[r])) => OwnersEnd(OwnerEndedAt(doc[r]), faults)
  BY <1>0, OwnerRead
<1>a. \A a \in alive[r] : a \in Nat /\ 1 <= a /\ a <= doc[r].attempt
  <2>1. alive[r] \subseteq 1..MaxAttempt
    BY DEF TypeOK, Attempts
  <2> QED  BY <1>0, <2>1, DispatchAssumption DEF TypesOf, OrderOf
<1> USE <1>0, <1>e, <1>n, <1>o DEF TypesOf, EndOf, Calm, GoodReads, GoodEnd,
   GoodStamp, FoundByResume, MissingStamp, OrderOf, HandleOf, PastOf, Past, SuccessOf,
   Unstamped, Underway, Active, Resumable, NoCancel
<1>1. CASE CreatesDoes(r)
  BY <1>1 DEF CreatesDoes, StartFrame, tick, NoFault, Fault
<1>2. CASE ChecksDoes(r)
  BY <1>2 DEF ChecksDoes, StartFrame, tick, NoFault, Fault
<1>3. CASE YieldsDoes(r)
  BY <1>3 DEF YieldsDoes, Keeps, ToCancelled, StartFrame, tick, NoFault, Fault
<1>4. CASE ReservesDoes(r)
  BY <1>4 DEF ReservesDoes, StartFrame, tick, NoFault, Fault
<1>5. CASE StoresDoes(r)
  BY <1>5 DEF StoresDoes, StartFrame, tick, NoFault, Fault
<1>6. CASE ChargesDoes(r)
  BY <1>6 DEF ChargesDoes, StartFrame, tick, NoFault, Fault
<1>7. CASE ReleasesDoes(r)
  BY <1>7 DEF ReleasesDoes, Shut, StaysOpen, StartFrame, tick, NoFault, Fault
<1>8. CASE DeniedDoes(r)
  BY <1>8 DEF DeniedDoes, Keeps, ToFailed, StartFrame, tick, NoFault, Fault
<1>9. CASE SpawnsDoes(r)
  BY <1>9 DEF SpawnsDoes, StartFrame, tick, NoFault, Fault
<1>10. CASE UnspawnedDoes(r)
  BY <1>10 DEF UnspawnedDoes, ToFailed, StartFrame, tick, NoFault, Fault
<1>11. CASE ReturnsDoes(r)
  BY <1>11 DEF ReturnsDoes, Shut, StaysOpen, StartFrame, tick, NoFault, Fault
<1>12. CASE ReturnedDoes(r)
  BY <1>12 DEF ReturnedDoes, Keeps, ToCleared, StartFrame, tick, NoFault,
     Fault
<1>13. CASE ReadsDoes(r)
  BY <1>13 DEF ReadsDoes, ResumeFrame, tick, NoFault, Fault, Superseded
<1>14. CASE PrechecksDoes(r)
  BY <1>14 DEF PrechecksDoes, Goes, Ends, ResumeFrame, tick, NoFault, Fault
<1>15. CASE FlipsDoes(r)
  <2>1. (Calm => GoodReads(r))'
    BY <1>15 DEF FlipsDoes, ToFlipped, Ends, ResumeFrame, tick, NoFault, Fault
  <2>2. (Calm => GoodEnd(r))'
    BY <1>15 DEF FlipsDoes, ToFlipped, Ends, ResumeFrame, tick, NoFault, Fault
  <2>3. (Calm => GoodStamp(r))'
    BY <1>15 DEF FlipsDoes, ToFlipped, Ends, ResumeFrame, tick, NoFault, Fault
  <2>4. (Calm => FoundByResume(r))'
    BY <1>15 DEF FlipsDoes, ToFlipped, Ends, ResumeFrame, tick, NoFault, Fault
  <2>5. (Calm => MissingStamp(r))'
    <3>1. CASE Ends(r) /\ UNCHANGED doc
      BY <1>15, <3>1 DEF FlipsDoes, Ends, ResumeFrame, tick, NoFault
    <3>2. CASE ToFlipped(r) /\ resume'[r].at = "flipped" /\ doc[r].attempt = 1
      <4>1. \A a \in alive[r] : a = 1
        BY <3>2, <1>a
      <4>2. Calm' => Calm /\ doc'[r].paused \in {0, Stopped(1)}
        BY <1>15, <3>2 DEF FlipsDoes, ToFlipped, ResumeFrame, tick, NoFault
      <4>3. /\ doc'[r].attempt = 2 /\ doc'[r].resumed = Resumed(doc'[r].attempt)
            /\ alive' = alive
        BY <1>15, <3>2 DEF FlipsDoes, ToFlipped, ResumeFrame, tick, NoFault
      <4> QED  BY <3>2, <4>1, <4>2, <4>3
    <3>3. CASE ToFlipped(r) /\ resume'[r].at = "flipped" /\ doc[r].attempt # 1
      <4>1. doc[r].attempt > 1
        BY <3>3 DEF Docs, Attempts
      <4>2. (Calm /\ Unstamped(r))' => Calm /\ Unstamped(r)
        BY <1>15, <3>3, <4>1 DEF FlipsDoes, ToFlipped, ResumeFrame, tick, NoFault
      <4> QED
        BY <1>15, <3>3, <4>1, <4>2 DEF FlipsDoes, ToFlipped, ResumeFrame, tick, NoFault
    <3> QED  BY <1>15, <3>1, <3>2, <3>3 DEF FlipsDoes
  <2> QED  BY <2>1, <2>2, <2>3, <2>4, <2>5
<1>16. CASE StampsDoes(r)
  BY <1>16 DEF StampsDoes, ToStamped, Goes, ResumeFrame, tick, NoFault, Fault
<1>17. CASE RechecksDoes(r)
  BY <1>17 DEF RechecksDoes, Goes, ResumeFrame, tick, NoFault, Fault
<1>18. CASE StandsDoes(r)
  BY <1>18 DEF StandsDoes, Keeps, ToFailed, Ends, ResumeFrame, tick, NoFault,
     Fault
<1>19. CASE ConfirmsDoes(r)
  BY <1>19 DEF ConfirmsDoes, Goes, Shut, StaysOpen, ResumeFrame, tick,
     NoFault, Fault
<1>20. CASE ClearsDoes(r)
  BY <1>20 DEF ClearsDoes, ToCleared, Goes, ResumeFrame, tick, NoFault, Fault
<1>21. CASE RespawnsDoes(r)
  BY <1>21 DEF RespawnsDoes, Goes, Ends, ResumeFrame, tick, NoFault, Fault
<1>22. CASE CancelReadsDoes(r)
  BY <1>22 DEF CancelReadsDoes, CancelFrame, agents, tick, NoFault, Fault,
     Superseded
<1>23. CASE CancelsDoes(r)
  BY <1>23 DEF CancelsDoes, ToCancelled, CancelFrame, agents, tick, NoFault,
     Fault
<1>24. CASE CancelConfirmsDoes(r)
  BY <1>24 DEF CancelConfirmsDoes, Shut, StaysOpen, CancelFrame, agents, tick,
     NoFault, Fault
<1>25. CASE CallbackDoes(r)
  BY <1>25 DEF CallbackDoes, Shut, StaysOpen, api, tick, NoFault, Fault
<1>26. ASSUME NEW a \in Attempts, WorksDoes(r, a) PROVE EndOf(r)'
  BY <1>26 DEF WorksDoes, AgentFrame, api, agents, tick, bounds, NoFault,
     Fault
<1>27. ASSUME NEW a \in Attempts, EndsDoes(r, a) PROVE EndOf(r)'
  <2>0. Stopped(a) # 0
    BY DispatchAssumption DEF Stopped, Attempts
  <2>1. (Calm => GoodReads(r))'
    BY <1>27, <2>0 DEF EndsDoes, AgentFrame, api, agents, tick, bounds, NoFault,
       Fault
  <2>2. (Calm => GoodEnd(r))'
    BY <1>27, <2>0 DEF EndsDoes, AgentFrame, api, agents, tick, bounds, NoFault,
       Fault
  <2>3. (Calm => GoodStamp(r))'
    BY <1>27, <2>0 DEF EndsDoes, AgentFrame, api, agents, tick, bounds, NoFault,
       Fault
  <2>4. (Calm => FoundByResume(r))'
    BY <1>27, <2>0 DEF EndsDoes, AgentFrame, api, agents, tick, bounds, NoFault,
       Fault
  <2>5. (Calm => MissingStamp(r))'
    BY <1>27, <2>0 DEF EndsDoes, AgentFrame, api, agents, tick, bounds, NoFault,
       Fault
  <2> QED  BY <2>1, <2>2, <2>3, <2>4, <2>5
<1>28. ASSUME NEW a \in Attempts, StopsDoes(r, a) PROVE EndOf(r)'
  BY <1>28 DEF StopsDoes, AgentFrame, api, agents, tick, bounds, NoFault,
     Fault
<1>29. ASSUME NEW a \in Attempts, FiresDoes(r, a) PROVE EndOf(r)'
  BY <1>29 DEF FiresDoes, Keeps, ToFailed, AgentFrame, api, agents, tick,
     bounds, NoFault, Fault
<1>30. CASE DiesDoes(r)
  BY <1>30 DEF DiesDoes, Ends, agents, tick, NoFault, Fault
<1>31. CASE ListedDoes(r)
  <2>1. (Calm => GoodReads(r))'
    BY <1>31 DEF ListedDoes, Shut, StaysOpen, api, agents, NoFault, Fault,
       NoOutcome
  <2>2. (Calm => GoodEnd(r))'
    BY <1>31 DEF ListedDoes, Shut, StaysOpen, api, agents, NoFault, Fault,
       NoOutcome
  <2>3. (Calm => GoodStamp(r))'
    BY <1>31 DEF ListedDoes, Shut, StaysOpen, api, agents, NoFault, Fault,
       NoOutcome
  <2>4. (Calm => FoundByResume(r))'
    BY <1>31 DEF ListedDoes, Shut, StaysOpen, api, agents, NoFault, Fault,
       NoOutcome
  <2>5. (Calm => MissingStamp(r))'
    BY <1>31 DEF ListedDoes, Shut, StaysOpen, api, agents, NoFault, Fault,
       NoOutcome
  <2> QED  BY <2>1, <2>2, <2>3, <2>4, <2>5
<1>32. CASE ClearedDoes(r)
  BY <1>32 DEF ClearedDoes, Keeps, ToCleared, api, agents, NoFault, Fault
<1> QED  BY <1>1, <1>2, <1>3, <1>4, <1>5, <1>6, <1>7, <1>8, <1>9, <1>10,
          <1>11, <1>12, <1>13, <1>14, <1>15, <1>16, <1>17, <1>18, <1>19,
          <1>20, <1>21, <1>22, <1>23, <1>24, <1>25, <1>26, <1>27, <1>28,
          <1>29, <1>30, <1>31, <1>32, Moves

\* Every step keeps that.
LEMMA EndStep ==
  ASSUME TypeOK, TypeOK', OrderInv, HandleInv, PastInv, SuccessInv, EndInv,
         [Next]_vars
  PROVE  EndInv'
<1>1. ASSUME NEW r \in Runs, RunStep(r) PROVE EndInv'
  <2>1. EndOf(r)'
    BY <1>1, EndOwn
  <2>2. \A s \in Runs \ {r} : EndOf(s)'
    BY <1>1, Elsewhere, TypesAt DEF Only, Same, EndInv, EndOf, Calm, GoodReads,
       GoodEnd, GoodStamp, FoundByResume, MissingStamp, Unstamped, TypesOf, OwnersEnd
  <2> QED  BY <2>1, <2>2 DEF EndInv
<1>2. CASE ListsTerminal
  <2> SUFFICES ASSUME NEW r \in Runs PROVE EndOf(r)'
    BY DEF EndInv
  <2>1. ListDoes(r)
    BY <1>2, ListEffect
  <2>2. TypesOf(r) /\ SuccessOf(r) /\ EndOf(r)
    BY TypesAt DEF SuccessInv, EndInv
  <2>3. ASSUME faults <= 1, restarts = 0, listed'[r].status = "failure"
        PROVE  OwnersEnd(listed'[r].ended, faults)
    <3>1. CASE Superseded(doc[r])
      <4>1. OwnersEnd(OwnerEndedAt(doc[r]), faults) /\ listed'[r] # NoOutcome
        BY <2>2, <2>3, <3>1, OwnerRead DEF Superseded, NoOutcome
      <4> QED  BY <2>1, <3>1, <4>1 DEF ListDoes
    <3>2. CASE ~Superseded(doc[r])
      <4>1. /\ doc[r].handle /\ Terminal(doc[r]) /\ RunStatus(doc[r]) = "failure"
            /\ listed'[r].ended = doc[r].done
        BY <2>1, <2>3, <3>2 DEF ListDoes, NoOutcome
      <4>2. doc[r].attempt = 1 /\ doc[r].status = "failed"
        BY <2>2, <3>2, <4>1 DEF Superseded, Terminal, RunStatus, TypesOf
      <4> QED  BY <2>2, <4>1, <4>2 DEF SuccessOf, OwnersEnd
    <3> QED  BY <3>1, <3>2
  <2> QED
    BY <2>1, <2>2, <2>3 DEF ListDoes, NoFault, api, agents, EndOf, Calm, GoodReads,
       GoodEnd, GoodStamp, FoundByResume, MissingStamp, Unstamped
<1>3. CASE ApiStarts
  <2> SUFFICES ASSUME NEW r \in Runs PROVE EndOf(r)'
    BY DEF EndInv
  <2>1. SweepDoes(r)
    BY <1>3, SweepEffect
  <2> QED
    BY <2>1, TypesAt DEF SweepDoes, ToFailed, api, tick, OrderInv, OrderOf,
       HandleInv, HandleOf, PastInv, PastOf, SuccessInv, SuccessOf, EndInv,
       EndOf, Calm, GoodReads, GoodEnd, GoodStamp, FoundByResume,
        MissingStamp, TypesOf, Unstamped
<1>4. CASE UNCHANGED vars
  BY <1>4 DEF vars, api, agents, tick, bounds, EndInv, EndOf, Calm, GoodReads,
     GoodEnd, GoodStamp, FoundByResume, MissingStamp, Unstamped
<1> QED  BY <1>1, <1>2, <1>3, <1>4, Steps

-----------------------------------------------------------------------------
(* The theorems.                                                           *)

DispatchInv == /\ TypeOK /\ OrderInv /\ HandleInv /\ PastInv /\ FreshInv
               /\ SuccessInv /\ ExclInv /\ OnePassed /\ EndInv

\* The inductive invariant the theorems below rest on.
THEOREM DispatchInvariant == Spec => []DispatchInv
<1>1. Init => DispatchInv
  BY InitType, InitOrder, InitHandle, InitPast, InitFresh, InitSuccess, InitExcl,
     InitEnd
     DEF DispatchInv
<1>2. DispatchInv /\ [Next]_vars => DispatchInv'
  <2> SUFFICES ASSUME DispatchInv, [Next]_vars PROVE DispatchInv'
    OBVIOUS
  <2> USE DEF DispatchInv
  <2>1. TypeOK'
    BY TypeStep
  <2> QED  BY <2>1, OrderStep, HandleStep, PastStep, FreshStep, SuccessStep, ExclStep,
              PassedStep, EndStep
<1> QED  BY <1>1, <1>2, PTL DEF Spec

\* The states are of their types.
THEOREM TypesHold == Spec => []TypeOK
<1>1. DispatchInv => TypeOK
  BY DEF DispatchInv
<1> QED  BY <1>1, DispatchInvariant, PTL

\* Without a sweep, of any number of runs that were resumed at most one works:
\* the check that each resume makes after its flip sees the other one.
THEOREM ResumesAreExclusive == Spec => []ResumesExclude
<1>1. DispatchInv => ResumesExclude
  <2> SUFFICES ASSUME DispatchInv, restarts = 0, NEW r \in Runs, NEW s \in Runs,
                      Works(r), Works(s), doc[r].attempt # 1, doc[s].attempt # 1
               PROVE  r = s
    BY DEF ResumesExclude
  <2>1. doc[r].attempt > 1 /\ doc[s].attempt > 1
    BY TypesAt DEF DispatchInv, TypesOf
  <2> QED  BY <2>1 DEF DispatchInv, OnePassed, Passed, Works
<1> QED  BY <1>1, DispatchInvariant, PTL

\* Nothing closes the reservation a first attempt works under, but for a sweep and
\* the cancel that confirms what it could not write.
THEOREM FreshRunsHoldTheirSlots == Spec => []FreshRunHoldsItsSlot
<1>1. DispatchInv => FreshRunHoldsItsSlot
  <2> SUFFICES ASSUME DispatchInv, Metered, restarts = 0, NEW r \in Runs,
                      Works(r), doc[r].attempt = 1
               PROVE  slot[r] = "open" \/ (closing[r].by = "cancel" /\ faults # 0)
    BY DEF FreshRunHoldsItsSlot
  <2>1. FreshOf(r) /\ TypesOf(r)
    BY TypesAt DEF DispatchInv, FreshInv
  <2>2. 1 \in alive[r] /\ ~Over(r)
    BY <2>1 DEF Works, Active, Over
  <2> QED  BY <2>1, <2>2 DEF FreshOf, TypesOf
<1> QED  BY <1>1, DispatchInvariant, PTL

\* While a reservation is open the id that was stored stays on the document.
THEOREM OpenKeepsItsHandle == Spec => []OpenReservationKeepsItsHandle
<1>1. DispatchInv => OpenReservationKeepsItsHandle
  BY DEF DispatchInv, TypeOK, HandleInv, HandleOf, OpenReservationKeepsItsHandle
<1> QED  BY <1>1, DispatchInvariant, PTL

\* Only the success of the attempt that opened a reservation closes it as one.
THEOREM SuccessIsOwn == Spec => []SuccessIsTheOwners
<1>1. DispatchInv => SuccessIsTheOwners
  BY DEF DispatchInv, SuccessInv, SuccessOf, SuccessIsTheOwners
<1> QED  BY <1>1, DispatchInvariant, PTL

\* With one failed round trip at most and no sweep, the attempt that opened a
\* reservation is not charged for what a later attempt worked.
THEOREM EndTimeIsOwn == Spec => []EndTimeIsTheOwners
<1>1. DispatchInv => EndTimeIsTheOwners
  BY DEF DispatchInv, EndInv, EndOf, Calm, GoodReads, GoodEnd, GoodStamp, FoundByResume,
        MissingStamp, OwnersEnd, EndTimeIsTheOwners
<1> QED  BY <1>1, DispatchInvariant, PTL

=============================================================================
