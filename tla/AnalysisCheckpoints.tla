------------------------- MODULE AnalysisCheckpoints -------------------------
(***************************************************************************)
(* The analysis and recommendation phases of a run over several attempts:  *)
(* what each attempt stores of an area as it goes (a draft once analysed,  *)
(* a marker once validated, a checkpoint once finished) and of its         *)
(* recommendations, and what a resume restores of it.                      *)
(*                                                                         *)
(* An area yields one finding here, so an area has one verdict.  Its       *)
(* content is told by the attempt that analysed it: the RunAt of its       *)
(* analysis step.  Its id is not: a model may supply the same id again, so *)
(* a freshly analysed finding always has the id Supplied, the worst case.  *)
(*                                                                         *)
(* What exploration did is abstracted to the attempt whose steps an agent  *)
(* works on; ExplorationCheckpoints shows that a summary identifies them.  *)
(*                                                                         *)
(* The definitions that begin with Any, Always or Unfiltered, and          *)
(* KeptOnly, are the one after each of them with a bug; no specification   *)
(* uses them.                                                              *)
(***************************************************************************)
EXTENDS Naturals, FiniteSets

CONSTANTS Areas,       \* the analysis areas of the run
          MaxAttempt,  \* attempts of the run
          Cap,         \* MaxInsightsPerRun, the validation cap
          MaxFaults    \* failed analyses, and reads and writes of checkpoints

ASSUME AnalysisAssumption ==
  /\ IsFiniteSet(Areas)
  /\ MaxAttempt \in Nat \ {0}
  /\ Cap \in Nat
  /\ MaxFaults \in Nat

Attempts == 1..MaxAttempt
Nobody   == 0
Supplied == 0   \* the id of a finding that nobody reminted

\* A verdict: the content it judged (the attempt that analysed it; Nobody if
\* there is none), and whether it makes the finding eligible for Phase 5.
Verdict   == [of : 0..MaxAttempt, ok : BOOLEAN]
NoVerdict == [of |-> Nobody, ok |-> FALSE]

\* A row of an area, finished or draft: who wrote it, the exploration it was
\* computed over, its content, its verdict and the id of its finding.
Row   == [by : 0..MaxAttempt, over : 0..MaxAttempt, gen : 0..MaxAttempt,
          verdict : Verdict, id : 0..MaxAttempt]
NoRow == [by |-> Nobody, over |-> Nobody, gen |-> Nobody,
          verdict |-> NoVerdict, id |-> Supplied]
NoRows == [x \in Areas |-> NoRow]

\* The recommendations, as the findings they were reasoned from: the content
\* and the id of each area that was eligible.
Recs   == [by : 0..MaxAttempt, over : 0..MaxAttempt,
           gens : [Areas -> 0..MaxAttempt], ids : [Areas -> 0..MaxAttempt]]
NoRecs == [by |-> Nobody, over |-> Nobody, gens |-> [x \in Areas |-> Nobody],
           ids |-> [x \in Areas |-> Supplied]]

Places == {"none", "starting", "areas", "drafts", "picking", "drafting",
           "validating", "marking", "merging", "saving", "discarding",
           "recommending", "storing", "finished", "gone"}

VARIABLES
  owner,    \* the run document's attempt
  summary,  \* the attempt of the trusted exploration summary, or Nobody
  area,     \* area[x]: the checkpoint of a finished area
  draft,    \* draft[x]: the draft of an area analysed but not finished
  recs,     \* the checkpoint of the recommendations
  at,       \* at[a]: where the agent of attempt a is
  job,      \* job[a]: what it has in memory
  faults,
  late,     \* history: a superseded attempt wrote to the store
  paid      \* history: the areas stored over the current exploration

store == <<area, draft, recs>>
vars  == <<owner, summary, store, at, job, faults, late, paid>>

NoJob == [over |-> Nobody,     \* the exploration it works on
          ex |-> Nobody,       \* explorationSummaryAttempt
          kept |-> NoRows,     \* completedAreas
          drafts |-> NoRows,   \* areaDrafts
          todo |-> Areas,      \* areas the loop has not reached
          cur |-> {},          \* the area of this iteration
          step |-> NoRow,      \* its analysis
          onDisk |-> FALSE,    \* draftOnDisk
          used |-> 0,          \* insightsValidatedThisRun
          result |-> NoRows,   \* analysisLog and allInsights
          recs |-> NoRecs]     \* the recommendations it ships

Goto(a, pc) == at' = [at EXCEPT ![a] = pc]
Stops(a)    == Goto(a, "gone") /\ job' = [job EXCEPT ![a] = NoJob]
Owns(a)     == owner = a

\* The end of an iteration.
NextArea(a) == [job EXCEPT ![a].cur = {}, ![a].step = NoRow, ![a].onDisk = FALSE]

NoFault == UNCHANGED faults
Fault   == faults < MaxFaults /\ faults' = faults + 1

\* History: a write of attempt a reached the store.
Noted(a) == late' = (late \/ ~Owns(a))

Stored(a, x) == paid' = IF job[a].ex = summary THEN paid \cup {x} ELSE paid

-----------------------------------------------------------------------------
Init ==
  /\ owner = 1
  /\ summary = Nobody
  /\ area = NoRows /\ draft = NoRows /\ recs = NoRecs
  /\ at = [a \in Attempts |-> IF a = 1 THEN "starting" ELSE "none"]
  /\ job = [a \in Attempts |-> NoJob]
  /\ faults = 0
  /\ late = FALSE
  /\ paid = {}

\* The next attempt takes over, whatever became of the agent before it: one
\* that died takes no more steps, and one that finished has no more use for
\* its job.  A bound: no agent survives a second takeover.
Resumes ==
  /\ owner < MaxAttempt
  /\ owner' = owner + 1
  /\ LET left == {b \in Attempts : b < owner \/ (b = owner /\ at[b] = "finished")}
     IN /\ at' = [b \in Attempts |-> IF b = owner + 1 THEN "starting"
                                     ELSE IF b \in left THEN "gone" ELSE at[b]]
        /\ job' = [b \in Attempts |-> IF b \in left THEN NoJob ELSE job[b]]
  /\ UNCHANGED <<summary, store, faults, late, paid>>

\* A trusted summary: exploration is skipped.
SkipsExploration(a) ==
  /\ at[a] = "starting"
  /\ Owns(a) /\ summary # Nobody
  /\ job' = [job EXCEPT ![a].over = summary, ![a].ex = summary]
  /\ Goto(a, "areas")
  /\ UNCHANGED <<owner, summary, store, faults, late, paid>>

\* No summary, or one LoadPrefix does not trust: the attempt explores, and
\* its summary lands or not.  An older summary is not trusted again.
Explores(a) ==
  /\ at[a] = "starting"
  /\ Owns(a)
  /\ \/ summary' = a /\ NoFault
     \/ summary' = Nobody /\ Fault
  /\ job' = [job EXCEPT ![a].over = a, ![a].ex = summary']
  /\ Goto(a, "picking")
  /\ paid' = {}
  /\ UNCHANGED <<owner, store, late>>

-----------------------------------------------------------------------------
(* What a resume restores.                                                 *)

\* The rows computed over exploration e.
UnfilteredRows(rows, e) == rows
RowsOver(rows, e) == [x \in Areas |-> IF rows[x].over = e THEN rows[x] ELSE NoRow]

\* An area's slice of the validation budget.
Spent(r) == IF r.verdict.of # Nobody THEN 1 ELSE 0
Budget(rows) == Cardinality({x \in Areas : Spent(rows[x]) = 1})

\* loadCompletedAreas: a read that fails restores nothing.
LoadsAreas(a) ==
  /\ at[a] = "areas"
  /\ \/ job' = [job EXCEPT ![a].kept = RowsOver(area, job[a].ex)] /\ NoFault
     \/ Fault /\ UNCHANGED job
  /\ Goto(a, "drafts")
  /\ UNCHANGED <<owner, summary, store, late, paid>>

\* What a resume has spent already.
KeptOnly(kept, live)   == Budget(kept)
SpentBefore(kept, live) == Budget(kept) + Budget(live)

\* loadAreaDrafts: a finished area's row supersedes its draft.  The budget
\* already spent is counted before the loop.
LoadsDrafts(a) ==
  /\ at[a] = "drafts"
  /\ LET kept == job[a].kept
         found == RowsOver(draft, job[a].ex)
         live == [x \in Areas |-> IF kept[x] = NoRow THEN found[x] ELSE NoRow]
     IN \/ /\ job' = [job EXCEPT ![a].drafts = live,
                                 ![a].used = SpentBefore(kept, live)]
           /\ NoFault
        \/ /\ Fault
           /\ job' = [job EXCEPT ![a].used = SpentBefore(kept, NoRows)]
  /\ Goto(a, "picking")
  /\ UNCHANGED <<owner, summary, store, late, paid>>

-----------------------------------------------------------------------------
(* The area loop.  The order of the areas is that of a map's iteration.    *)

\* The gate of an iteration; then a restored area is merged as it is, under
\* an id of this attempt's.
RestoresArea(a, x) ==
  /\ at[a] = "picking" /\ x \in job[a].todo
  /\ Owns(a) /\ job[a].kept[x] # NoRow
  /\ job' = [job EXCEPT ![a].todo = @ \ {x}, ![a].result[x] = job[a].kept[x]]
  /\ UNCHANGED <<owner, summary, store, at, faults, late, paid>>

\* A draft re-enters at its validation.
RestoresDraft(a, x) ==
  /\ at[a] = "picking" /\ x \in job[a].todo
  /\ Owns(a) /\ job[a].kept[x] = NoRow /\ job[a].drafts[x] # NoRow
  /\ job' = [job EXCEPT ![a].todo = @ \ {x}, ![a].cur = {x},
                        ![a].step = job[a].drafts[x], ![a].onDisk = TRUE]
  /\ Goto(a, "validating")
  /\ UNCHANGED <<owner, summary, store, faults, late, paid>>

\* analyseArea, up to the gate before the draft: the area fails, and is left
\* for a later attempt, or is analysed.  Without a summary there is no draft.
Analyses(a, x) ==
  /\ at[a] = "picking" /\ x \in job[a].todo
  /\ Owns(a) /\ job[a].kept[x] = NoRow /\ job[a].drafts[x] = NoRow
  /\ \/ job' = [job EXCEPT ![a].todo = @ \ {x}] /\ UNCHANGED at /\ Fault
     \/ /\ NoFault
        /\ job' = [job EXCEPT
                     ![a].todo = @ \ {x}, ![a].cur = {x}, ![a].onDisk = FALSE,
                     ![a].step = [by |-> a, over |-> job[a].over, gen |-> a,
                                  verdict |-> NoVerdict, id |-> Supplied]]
        /\ Goto(a, IF job[a].ex = Nobody THEN "validating" ELSE "drafting")
  /\ UNCHANGED <<owner, summary, store, late, paid>>

\* A gate of the loop finds the run lost: the agent stops.
LosesRun(a) ==
  /\ at[a] \in {"starting", "picking", "drafting", "merging", "recommending",
                "storing"}
  /\ at[a] = "merging" => job[a].ex # Nobody
  /\ ~Owns(a)
  /\ Stops(a)
  /\ UNCHANGED <<owner, summary, store, faults, late, paid>>

\* The fence of SaveDraft and SaveArea.
Refused(rows, a, x) == rows[x].by > a

\* What SaveDraft leaves of the row it finds: nothing, its verdicts included.
KeepsVerdicts(a, x) == IF draft[x] = NoRow THEN job[a].step
                       ELSE [job[a].step EXCEPT !.verdict = draft[x].verdict]
DraftRow(a, x) == job[a].step

PutDraft(a, x) == /\ draft' = [draft EXCEPT ![x] = DraftRow(a, x)]
                  /\ Stored(a, x)
                  /\ Noted(a)
                  /\ UNCHANGED <<area, recs>>

\* SaveDraft.  Only a row that is known to have landed may take markers.
SavesDraft(a, x) ==
  /\ at[a] = "drafting" /\ x \in job[a].cur
  /\ \/ /\ ~Refused(draft, a, x) /\ PutDraft(a, x) /\ NoFault
        /\ job' = [job EXCEPT ![a].onDisk = TRUE] /\ Goto(a, "validating")
     \/ Refused(draft, a, x) /\ Stops(a) /\ NoFault
        /\ UNCHANGED <<store, late, paid>>
     \/ /\ Fault /\ Goto(a, "validating") /\ UNCHANGED job
        /\ \/ ~Refused(draft, a, x) /\ PutDraft(a, x)
           \/ UNCHANGED <<store, late, paid>>
  /\ UNCHANGED <<owner, summary>>

\* validateInsights: a restored verdict stands; past the cap the finding is
\* skipped; otherwise it is checked.
Validates(a, x) ==
  /\ at[a] = "validating" /\ x \in job[a].cur
  /\ LET step == job[a].step
     IN IF step.verdict # NoVerdict \/ job[a].used >= Cap
        THEN Goto(a, "merging") /\ UNCHANGED job
        ELSE /\ \E ok \in BOOLEAN :
                  job' = [job EXCEPT ![a].step.verdict = [of |-> step.gen, ok |-> ok],
                                     ![a].used = @ + 1]
             /\ Goto(a, "marking")
  /\ UNCHANGED <<owner, summary, store, faults, late, paid>>

\* An attempt records its verdicts on a row it knows to be there, whoever wrote it.
MayMark(a, x) == job[a].onDisk /\ draft[x] # NoRow /\ draft[x].by <= a

\* SaveInsightVerdict, without a gate of its own.  No match is no error.
Marks(a, x) ==
  /\ at[a] = "marking" /\ x \in job[a].cur
  /\ \/ /\ MayMark(a, x)
        /\ draft' = [draft EXCEPT ![x].verdict = job[a].step.verdict]
        /\ Noted(a) /\ NoFault
     \/ ~MayMark(a, x) /\ UNCHANGED <<draft, late>> /\ NoFault
     \/ Fault /\ UNCHANGED <<draft, late>>
  /\ Goto(a, "merging")
  /\ UNCHANGED <<owner, summary, area, recs, job, paid>>

\* The finding joins the result; one that came from a draft is reminted.  The
\* gate before the area's checkpoint follows, where there is to be one.
Merges(a, x) ==
  /\ at[a] = "merging" /\ x \in job[a].cur
  /\ Owns(a) \/ job[a].ex = Nobody
  /\ LET step == [job[a].step EXCEPT
                    !.by = a,
                    !.id = IF job[a].drafts[x] # NoRow THEN a ELSE @]
     IN job' = [IF job[a].ex = Nobody THEN NextArea(a)
                ELSE [job EXCEPT ![a].step = step] EXCEPT ![a].result[x] = step]
  /\ Goto(a, IF job[a].ex = Nobody THEN "picking" ELSE "saving")
  /\ UNCHANGED <<owner, summary, store, faults, late, paid>>

PutArea(a, x) == /\ area' = [area EXCEPT ![x] = job[a].step]
                 /\ Stored(a, x)
                 /\ Noted(a)
                 /\ UNCHANGED <<draft, recs>>

\* Where an agent goes with an area's checkpoint written, or perhaps not.
AlwaysDiscarding(landed) == "discarding"
AfterSave(landed) == IF landed THEN "discarding" ELSE "picking"

\* SaveArea.  The draft is discarded only when the row is known to have landed.
SavesArea(a, x) ==
  /\ at[a] = "saving" /\ x \in job[a].cur
  /\ \/ ~Refused(area, a, x) /\ PutArea(a, x) /\ NoFault
        /\ Goto(a, AfterSave(TRUE)) /\ UNCHANGED job
     \/ Refused(area, a, x) /\ Stops(a) /\ NoFault
        /\ UNCHANGED <<store, late, paid>>
     \/ /\ Fault /\ Goto(a, AfterSave(FALSE))
        /\ job' = IF AfterSave(FALSE) = "picking" THEN NextArea(a) ELSE job
        /\ \/ ~Refused(area, a, x) /\ PutArea(a, x)
           \/ UNCHANGED <<store, late, paid>>
  /\ UNCHANGED <<owner, summary>>

\* DeleteByArea: best effort, and not fenced.
DiscardsDraft(a, x) ==
  /\ at[a] = "discarding" /\ x \in job[a].cur
  /\ \/ draft' = [draft EXCEPT ![x] = NoRow] /\ Noted(a) /\ NoFault
     \/ Fault /\ UNCHANGED <<draft, late>>
  /\ Goto(a, "picking") /\ job' = NextArea(a)
  /\ UNCHANGED <<owner, summary, area, recs, paid>>

-----------------------------------------------------------------------------
(* The recommendations.                                                    *)

Eligible(a) == {x \in Areas : job[a].result[x].verdict.ok}

\* The content, and the stored ids, of what an attempt reasons from.
Generation(a) == [x \in Areas |-> IF x \in Eligible(a) THEN job[a].result[x].gen
                                                       ELSE Nobody]
StoredIds(a)  == [x \in Areas |-> IF x \in Eligible(a) THEN job[a].result[x].id
                                                       ELSE Supplied]

Reasoned(r) == {x \in Areas : r.gens[x] # Nobody}

\* restorableRecommendations: over this exploration, reasoned from as many
\* findings, each of them restored here from the row that vouches for its id
\* and, by its fingerprint, with the content it had.
AnyGeneration(a) == recs # NoRecs /\ recs.over = job[a].ex
Restorable(a) ==
  /\ recs # NoRecs /\ recs.over = job[a].ex
  /\ recs.gens = Generation(a)
  /\ Cardinality(Reasoned(recs)) = Cardinality(Eligible(a))
  /\ \A x \in Reasoned(recs) : /\ x \in Eligible(a)
                               /\ job[a].kept[x] # NoRow
                               /\ recs.ids[x] = job[a].kept[x].id

\* Phase 5: after its gate, the stored recommendations are restored, or there
\* is nothing to recommend, or new ones are generated.  A read that fails
\* restores nothing.
Recommends(a) ==
  /\ at[a] = "recommending" /\ Owns(a)
  /\ LET fresh == [by |-> a, over |-> job[a].ex, gens |-> Generation(a),
                   ids |-> StoredIds(a)]
         skipped == job[a].over # a
     IN \/ /\ skipped /\ Restorable(a) /\ NoFault
           /\ job' = [job EXCEPT ![a].recs = recs, ![a].kept = NoRows]
           /\ Goto(a, "finished")
        \/ /\ IF skipped /\ Restorable(a) THEN Fault ELSE NoFault
           /\ job' = [job EXCEPT ![a].recs = fresh, ![a].kept = NoRows]
           /\ Goto(a, IF Eligible(a) = {} \/ job[a].ex = Nobody
                      THEN "finished" ELSE "storing")
  /\ UNCHANGED <<owner, summary, store, late, paid>>

\* The loop is over, and what only the loop uses is let go.
EndsLoop(a) ==
  /\ at[a] = "picking" /\ job[a].todo = {}
  /\ Goto(a, "recommending")
  /\ job' = [job EXCEPT ![a].drafts = NoRows, ![a].used = 0]
  /\ UNCHANGED <<owner, summary, store, faults, late, paid>>

\* checkpointRecommendations; its gate and its write are one step here, since
\* nothing but a later row of the same kind is compared with the row.
StoresRecs(a) ==
  /\ at[a] = "storing" /\ Owns(a)
  /\ \/ recs.by <= a /\ recs' = job[a].recs /\ NoFault
     \/ Fault /\ recs' \in {recs, job[a].recs}
  /\ Goto(a, "finished")
  /\ UNCHANGED <<owner, summary, area, draft, job, late, paid>>

AreaStep(a, x) == \/ RestoresArea(a, x) \/ RestoresDraft(a, x) \/ Analyses(a, x)
                  \/ SavesDraft(a, x) \/ Validates(a, x) \/ Marks(a, x)
                  \/ Merges(a, x) \/ SavesArea(a, x) \/ DiscardsDraft(a, x)

AgentStep(a) == \/ SkipsExploration(a) \/ Explores(a)
                \/ LoadsAreas(a) \/ LoadsDrafts(a)
                \/ \E x \in Areas : AreaStep(a, x)
                \/ LosesRun(a) \/ EndsLoop(a) \/ Recommends(a) \/ StoresRecs(a)

Next == Resumes \/ \E a \in Attempts : AgentStep(a)

Spec == Init /\ [][Next]_vars

-----------------------------------------------------------------------------
(* Properties.                                                             *)

TypeOK ==
  /\ owner \in Attempts
  /\ summary \in 0..MaxAttempt
  /\ area \in [Areas -> Row] /\ draft \in [Areas -> Row]
  /\ recs \in Recs
  /\ at \in [Attempts -> Places]
  /\ \A a \in Attempts :
       /\ job[a].kept \in [Areas -> Row] /\ job[a].drafts \in [Areas -> Row]
       /\ job[a].result \in [Areas -> Row] /\ job[a].step \in Row
       /\ job[a].recs \in Recs
  /\ faults \in 0..MaxFaults

Results(a) == {job[a].result[x] : x \in Areas} \cup {job[a].step}

\* A finding carries a verdict only of its own content: ids that a model hands
\* out again, lost drafts and agents of several attempts never let a verdict
\* of one analysis pass for that of another (draftOnDisk, SaveInsightVerdict).
\* It takes that no superseded agent's row landed: one that replaces the draft
\* the owner restored is marked with the owner's verdicts under the same ids.
VerdictJudgedThisFinding ==
  ~late => \A a \in Attempts : \A r \in Results(a) : r.verdict.of \in {Nobody, r.gen}

\* Everything an attempt ships was computed over the exploration it ships, so
\* that the step numbers its findings cite are those of its own steps.
ResultCitesOwnSteps ==
  \A a \in Attempts : \A r \in Results(a) : r.gen # Nobody => r.over = job[a].over

\* The recommendations an attempt ships were reasoned from the findings it
\* ships, however they came to be restored.
RecsAreAboutTheResult ==
  \A a \in Attempts : at[a] = "finished" => job[a].recs.gens = Generation(a)

\* The findings an attempt ships as validated are within the cap, restored
\* ones included, in whatever order its areas come.
ValidationsWithinCap ==
  faults = 0 /\ ~late =>
    \A a \in Attempts :
      Cardinality({x \in Areas : job[a].result[x].verdict.of # Nobody}) <= Cap

\* An area that was stored over the current exploration can be restored until
\* the run ends, as a draft or finished: the draft goes only once the row that
\* replaces it has landed.
StoredAreaStaysRestorable ==
  ~late => \A x \in Areas :
    x \in paid => summary \in {area[x].over, draft[x].over}

=============================================================================
