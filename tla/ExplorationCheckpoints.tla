----------------------- MODULE ExplorationCheckpoints -----------------------
(***************************************************************************)
(* The durable record of a run's exploration: one row per step and one     *)
(* summary, written by the agents of the run's attempts, read back by each *)
(* resume (discovery_checkpoint_repo.go) and by the API, which admits one. *)
(*                                                                         *)
(* An agent asks whether its attempt still owns the run and then writes,   *)
(* in two round trips, so the agent of a superseded attempt may write one  *)
(* row more than it should.  A write may fail, which the agent logs and    *)
(* swallows, and rows expire.                                              *)
(*                                                                         *)
(* A step is identified by its number and the attempt that executed it: an *)
(* attempt executes a step number at most once.  So a row is its step's    *)
(* attempt, and a conversation is a sequence of attempts.                  *)
(*                                                                         *)
(* AnyOrder, CountCovered and NoFence are the definition after each of     *)
(* them with a bug; no specification uses them.                            *)
(***************************************************************************)
EXTENDS Naturals, Sequences, FiniteSetsExt

CONSTANTS MaxAttempt,  \* attempts of the run
          MaxStep,     \* maxSteps of the exploration engine
          MaxFaults    \* failed writes and expired rows

ASSUME ExplorationAssumption ==
  /\ MaxAttempt \in Nat \ {0}
  /\ MaxStep \in Nat
  /\ MaxFaults \in Nat

Attempts == 1..MaxAttempt
Steps    == 1..MaxStep
Absent   == 0               \* no row has this attempt

VARIABLES
  owner,    \* the run document's attempt
  row,      \* row[k]: the attempt of step k's row, or Absent
  summary,  \* the summary row: its attempt (or Absent) and total_steps
  at,       \* at[a]: where the agent of attempt a is
  conv,     \* conv[a]: its conversation, as the attempt of each step
  faults,
  late      \* history: writes by attempts that were no longer the owner

store == <<row, summary>>
vars  == <<owner, store, at, conv, faults, late>>

Places == {"none", "loading", "exploring", "gated", "marking", "finishing",
           "analysing", "gone"}

Goto(a, pc) == at' = [at EXCEPT ![a] = pc]

NoFault == UNCHANGED faults
Fault   == faults < MaxFaults /\ faults' = faults + 1

\* History: a write reached the store on behalf of attempt a.
Noted(a) == late' = IF a = owner THEN late ELSE late + 1

-----------------------------------------------------------------------------
(* What a reader makes of the rows.                                        *)

\* The row may follow the one before it in a prefix: written by no older an
\* attempt.
AnyOrder(k) == TRUE
InChain(k)  == k = 1 \/ row[k-1] <= row[k]

\* The replayable prefix is 1..PrefixLen: it ends before the first gap and
\* before the first row of an older attempt than the row before it.
PrefixLen == Max({k \in 0..MaxStep :
                    \A i \in 1..k : row[i] # Absent /\ InChain(i)})
Prefix == [k \in 1..PrefixLen |-> row[k]]

PrefixAttempt == IF PrefixLen = 0 THEN 0 ELSE row[PrefixLen]

\* LoadPrefix keeps the summary.
CountCovered == /\ summary.attempt # Absent
                /\ PrefixLen > 0
                /\ summary.total <= PrefixLen
SummaryTrusted == /\ summary.attempt # Absent
                  /\ PrefixLen > 0
                  /\ summary.total <= PrefixLen
                  /\ summary.attempt >= PrefixAttempt

\* ResumeState: the API admits a resume.
ResumeAdmitted == PrefixLen > 0 \/ SummaryTrusted

-----------------------------------------------------------------------------
Init ==
  /\ owner = 1
  /\ row = [k \in Steps |-> Absent]
  /\ summary = [attempt |-> Absent, total |-> 0]
  /\ at = [a \in Attempts |-> IF a = 1 THEN "exploring" ELSE "none"]
  /\ conv = [a \in Attempts |-> << >>]
  /\ faults = 0
  /\ late = 0

\* The run is resumed: its attempt moves on, and an agent is spawned for it.
\* The agent of the attempt before may be alive (RunLifecycle has the rest).
Resumes ==
  /\ owner < MaxAttempt
  /\ ResumeAdmitted
  /\ owner' = owner + 1
  /\ Goto(owner + 1, "loading")
  /\ UNCHANGED <<store, conv, faults, late>>

\* loadResumeState: nothing to replay, or a run that has moved on, ends the
\* agent; a trusted summary sends it straight to the analysis of the prefix.
Loads(a) ==
  /\ at[a] = "loading"
  /\ IF PrefixLen = 0 \/ owner # a
     THEN Goto(a, "gone") /\ UNCHANGED conv
     ELSE /\ Goto(a, IF SummaryTrusted THEN "analysing" ELSE "exploring")
          /\ conv' = [conv EXCEPT ![a] = Prefix]
  /\ UNCHANGED <<owner, store, faults, late>>

\* The engine executes the next step, and the gate before its checkpoint
\* reads who owns the run.  The gates of the replayed steps read the same and
\* write nothing, so they are left to this one.
Explores(a) ==
  /\ at[a] = "exploring"
  /\ Len(conv[a]) < MaxStep
  /\ conv' = [conv EXCEPT ![a] = Append(@, a)]
  /\ Goto(a, IF owner = a THEN "gated" ELSE "gone")
  /\ UNCHANGED <<owner, store, faults, late>>

\* SaveStep's fence: no row of a newer attempt.
NoFence(a, k)  == TRUE
RowFence(a, k) == row[k] <= a

SaveStep(a, k) == row' = [row EXCEPT ![k] = a] /\ Noted(a) /\ UNCHANGED summary

\* The row lands, or a newer attempt's row refuses it, or the write fails:
\* whether it was applied or not, the engine carries on without a checkpoint.
Saves(a) ==
  /\ at[a] = "gated"
  /\ LET k == Len(conv[a])
     IN \/ RowFence(a, k) /\ SaveStep(a, k) /\ Goto(a, "marking") /\ NoFault
        \/ ~RowFence(a, k) /\ Goto(a, "gone") /\ UNCHANGED <<store, late>> /\ NoFault
        \/ /\ Fault
           /\ Goto(a, "exploring")
           /\ \/ RowFence(a, k) /\ SaveStep(a, k)
              \/ UNCHANGED <<store, late>>
  /\ UNCHANGED <<owner, conv>>

\* MarkExplorationCheckpoint, fenced by the attempt: not applied, the agent
\* stops.
Marks(a) ==
  /\ at[a] = "marking"
  /\ Goto(a, IF owner = a THEN "exploring" ELSE "gone")
  /\ UNCHANGED <<owner, store, conv, faults, late>>

\* The loop ends, by a completion or at maxSteps, and the gate before the
\* summary reads who owns the run.
Finishes(a) ==
  /\ at[a] = "exploring"
  /\ conv[a] # << >>
  /\ Goto(a, IF owner = a THEN "finishing" ELSE "gone")
  /\ UNCHANGED <<owner, store, conv, faults, late>>

SaveSummary(a) == /\ summary' = [attempt |-> a, total |-> Len(conv[a])]
                  /\ Noted(a)
                  /\ UNCHANGED row

\* SaveExplorationSummary, under the same fence.  After a failure the
\* analysis goes on, with nothing a resume could skip exploration by.
Summarises(a) ==
  /\ at[a] = "finishing"
  /\ LET fence == summary.attempt <= a
     IN \/ fence /\ SaveSummary(a) /\ Goto(a, "analysing") /\ NoFault
        \/ ~fence /\ Goto(a, "gone") /\ UNCHANGED <<store, late>> /\ NoFault
        \/ /\ Fault
           /\ Goto(a, "analysing")
           /\ \/ fence /\ SaveSummary(a)
              \/ UNCHANGED <<store, late>>
  /\ UNCHANGED <<owner, conv>>

\* The process dies, or exits for one of the reasons RunLifecycle has.
Dies(a) ==
  /\ at[a] \notin {"none", "gone"}
  /\ Goto(a, "gone")
  /\ UNCHANGED <<owner, store, conv, faults, late>>

\* The retention index removes rows one at a time, in an order of its own.
Expires ==
  /\ Fault
  /\ \/ \E k \in Steps : /\ row[k] # Absent
                         /\ row' = [row EXCEPT ![k] = Absent]
                         /\ UNCHANGED summary
     \/ /\ summary.attempt # Absent
        /\ summary' = [attempt |-> Absent, total |-> 0]
        /\ UNCHANGED row
  /\ UNCHANGED <<owner, at, conv, late>>

AgentStep(a) == \/ Loads(a) \/ Explores(a) \/ Saves(a) \/ Marks(a)
                \/ Finishes(a) \/ Summarises(a) \/ Dies(a)

Next == Resumes \/ Expires \/ \E a \in Attempts : AgentStep(a)

Spec == Init /\ [][Next]_vars

-----------------------------------------------------------------------------
(* Properties.                                                             *)

TypeOK ==
  /\ owner \in Attempts
  /\ row \in [Steps -> 0..MaxAttempt]
  /\ summary \in [attempt : 0..MaxAttempt, total : 0..MaxStep]
  /\ at \in [Attempts -> Places]
  /\ conv \in [Attempts -> Seq(Attempts)]
  /\ faults \in 0..MaxFaults
  /\ late \in Nat

IsConversationOf(a, p) == Len(p) <= Len(conv[a]) /\ p = SubSeq(conv[a], 1, Len(p))

\* What a resume would replay is a conversation some attempt really had, and
\* not steps of two attempts that answered different questions: whatever
\* writes failed, whatever rows expired, in whatever order attempts took over
\* (LoadPrefix), as long as no superseded agent's write slipped through.
ReplayIsOneExploration ==
  late = 0 => \E a \in Attempts : IsConversationOf(a, Prefix)

\* One row that slipped through the window checkpointStep describes does no
\* harm as long as no write fails: SaveStep's fence keeps it from replacing a
\* step of the owner, and the owner replaces it.
OneLateWriteIsHarmless ==
  late = 1 /\ faults = 0 => \E a \in Attempts : IsConversationOf(a, Prefix)

\* A summary that sends a resume straight to the analysis was written over
\* exactly the steps the resume will analyse.
SummaryIsOfReplayedSteps ==
  SummaryTrusted /\ late = 0 =>
    /\ summary.total = PrefixLen
    /\ Prefix = SubSeq(conv[summary.attempt], 1, PrefixLen)

\* What the owner has been through without a failed write is what a resume
\* would get back, whatever older agents still write: the premise on which a
\* pause is offered (contiguousCheckpointThrough, pauseSignalIfResumable).
OwnersStepsReplay ==
  faults = 0 /\ late <= 1 /\ at[owner] \in {"exploring", "marking", "finishing"} =>
    /\ Len(conv[owner]) <= PrefixLen
    /\ SubSeq(Prefix, 1, Len(conv[owner])) = conv[owner]

=============================================================================
