---------------------- MODULE AnalysisCheckpoints_proofs ----------------------
(***************************************************************************)
(* For any number of areas, attempts and faults, and any validation cap:    *)
(* a verdict is of the finding that carries it, what an attempt ships was   *)
(* computed over the exploration it ships and its recommendations are about *)
(* its findings, the cap holds over resumes, and an area once stored can be *)
(* restored.                                                                *)
(***************************************************************************)
EXTENDS AnalysisCheckpoints, FiniteSetTheorems, TLAPS

USE AnalysisAssumption DEF Attempts, Nobody, Supplied

-----------------------------------------------------------------------------
(* What an agent has in memory, and how a step changes it.                 *)

Job == [over : 0..MaxAttempt, ex : 0..MaxAttempt,
        kept : [Areas -> Row], drafts : [Areas -> Row],
        todo : SUBSET Areas, cur : SUBSET Areas, step : Row, onDisk : BOOLEAN,
        used : Nat, result : [Areas -> Row], recs : Recs]

Typed ==
  /\ owner \in Attempts
  /\ summary \in 0..MaxAttempt
  /\ area \in [Areas -> Row] /\ draft \in [Areas -> Row]
  /\ recs \in Recs
  /\ at \in [Attempts -> Places]
  /\ job \in [Attempts -> Job]
  /\ faults \in 0..MaxFaults
  /\ late \in BOOLEAN
  /\ paid \subseteq Areas

\* The empty rows, recommendations and memory are of their types.
LEMMA NoTypes ==
  NoRow \in Row /\ NoRows \in [Areas -> Row] /\ NoRecs \in Recs /\ NoJob \in Job
<1>1. NoRow \in Row
  BY DEF NoRow, Row, NoVerdict, Verdict
<1>2. NoRows \in [Areas -> Row]
  BY <1>1 DEF NoRows
<1>3. NoRecs \in Recs
  BY DEF NoRecs, Recs
<1> QED  BY <1>1, <1>2, <1>3 DEF NoJob, Job

\* The fields of no row, and of every one of no rows.
LEMMA NoRowFields ==
  /\ NoRow.by = 0 /\ NoRow.over = 0 /\ NoRow.gen = 0 /\ NoRow.verdict = NoVerdict
  /\ NoRow.verdict.of = 0 /\ \A x \in Areas : NoRows[x] = NoRow
BY DEF NoRow, NoVerdict, NoRows

\* The fields of an empty memory.
LEMMA NoJobFields ==
  /\ NoJob.over = 0 /\ NoJob.ex = 0 /\ NoJob.kept = NoRows /\ NoJob.drafts = NoRows
  /\ NoJob.todo = Areas /\ NoJob.cur = {} /\ NoJob.step = NoRow /\ ~NoJob.onDisk
  /\ NoJob.used = 0 /\ NoJob.result = NoRows /\ NoJob.recs = NoRecs
BY DEF NoJob

Others(a) == \A b \in Attempts : b # a => job'[b] = job[b] /\ at'[b] = at[b]

\* The agent of attempt a comes to pc with j in memory, and no other moves.
Becomes(a, pc, j) == /\ at' \in [Attempts -> Places] /\ at'[a] = pc
                     /\ job' \in [Attempts -> Job] /\ job'[a] = j
                     /\ Others(a)

\* One that is assigned a place and a memory comes to have them.
LEMMA Assigns ==
  ASSUME Typed, NEW a \in Attempts, NEW pc \in Places, NEW j \in Job,
         at' = [at EXCEPT ![a] = pc], job' = [job EXCEPT ![a] = j]
  PROVE  Becomes(a, pc, j)
BY DEF Becomes, Others, Typed

\* One that keeps its memory.
LEMMA Keeps ==
  ASSUME Typed, NEW a \in Attempts, NEW pc \in Places,
         at' = [at EXCEPT ![a] = pc], job' = job
  PROVE  Becomes(a, pc, job[a])
BY DEF Becomes, Others, Typed

\* One that keeps its place.
LEMMA Rests ==
  ASSUME Typed, NEW a \in Attempts, NEW j \in Job,
         at' = at, job' = [job EXCEPT ![a] = j]
  PROVE  Becomes(a, at[a], j)
BY DEF Becomes, Others, Typed

\* A memory of another exploration.
LEMMA JobOver ==
  ASSUME NEW j \in Job, NEW o \in 0..MaxAttempt, NEW e \in 0..MaxAttempt
  PROVE  [j EXCEPT !.over = o, !.ex = e] \in Job
BY DEF Job

\* A memory of another analysis.
LEMMA JobStep ==
  ASSUME NEW j \in Job, NEW s \in Row, NEW n \in Nat
  PROVE  [j EXCEPT !.step = s, !.used = n] \in Job
BY DEF Job

\* A row that is set among rows.
LEMMA SetRow ==
  ASSUME NEW rows \in [Areas -> Row], NEW x \in Areas, NEW r \in Row
  PROVE  LET new == [rows EXCEPT ![x] = r]
         IN /\ new \in [Areas -> Row] /\ new[x] = r
            /\ \A y \in Areas : y # x => new[y] = rows[y]
OBVIOUS

\* The rows over an exploration.
LEMMA RowsOverType ==
  ASSUME NEW rows \in [Areas -> Row], NEW e
  PROVE  /\ RowsOver(rows, e) \in [Areas -> Row]
         /\ \A x \in Areas : RowsOver(rows, e)[x] = IF rows[x].over = e THEN rows[x] ELSE NoRow
BY NoTypes DEF RowsOver

LiveRows(a) == [x \in Areas |-> IF job[a].kept[x] = NoRow
                                THEN RowsOver(draft, job[a].ex)[x] ELSE NoRow]

\* A finding as an attempt merges it.
MergedStep(a, x) == [job[a].step EXCEPT
                       !.by = a,
                       !.id = IF job[a].drafts[x] # NoRow THEN a ELSE @]

\* A finding as an attempt analyses it.
Analysed(a) == [by |-> a, over |-> job[a].over, gen |-> a, verdict |-> NoVerdict,
                id |-> Supplied]

\* What an attempt reasons out anew.
FreshRecs(a) == [by |-> a, over |-> job[a].ex, gens |-> Generation(a), ids |-> StoredIds(a)]

\* A merged finding is the finding, as this attempt's.
LEMMA Merged ==
  ASSUME Typed, NEW a \in Attempts, NEW x \in Areas
  PROVE  LET s == MergedStep(a, x)
             r == job[a].step
         IN /\ s \in Row /\ s.by = a /\ s # NoRow
            /\ s.over = r.over /\ s.gen = r.gen /\ s.verdict = r.verdict
<1> DEFINE r == job[a].step
           i == IF job[a].drafts[x] # NoRow THEN a ELSE r.id
           q == [r EXCEPT !.by = a]
           s == [q EXCEPT !.id = i]
<1>1. r \in Row /\ i \in 0..MaxAttempt
  <2>1. r \in Row
    BY DEF Typed, Job
  <2>2. r.id \in 0..MaxAttempt
    BY <2>1 DEF Row
  <2> QED  BY <2>1, <2>2
<1>2. q \in Row
  BY <1>1 DEF Row
<1>3. s \in Row
  BY <1>1, <1>2 DEF Row
<1>4. s.by = a /\ s.over = r.over /\ s.gen = r.gen /\ s.verdict = r.verdict
  BY <1>1 DEF Row
<1>5. s = MergedStep(a, x)
  BY <1>1 DEF MergedStep, Row
<1>6. s # NoRow
  <2> HIDE DEF s
  <2> QED  BY <1>4, NoRowFields
<1> QED  BY <1>3, <1>4, <1>5, <1>6

\* An analysed finding is one of this attempt, without a verdict.
LEMMA AnalysedType ==
  ASSUME Typed, NEW a \in Attempts
  PROVE  LET s == Analysed(a)
         IN /\ s \in Row /\ s.by = a /\ s # NoRow
            /\ s.over = job[a].over /\ s.gen = a /\ s.verdict = NoVerdict
<1>1. job[a].over \in 0..MaxAttempt
  BY DEF Typed, Job
<1>2. Analysed(a) \in Row
  BY <1>1 DEF Analysed, Row, NoVerdict, Verdict
<1> QED  BY <1>2, NoRowFields DEF Analysed

\* The recommendations an attempt makes are recommendations.
LEMMA FreshRecsType ==
  ASSUME Typed, NEW a \in Attempts
  PROVE  FreshRecs(a) \in Recs
<1>1. job[a].ex \in 0..MaxAttempt /\ \A x \in Areas : job[a].result[x] \in Row
  BY DEF Typed, Job
<1>2. \A x \in Areas : job[a].result[x].gen \in 0..MaxAttempt
                         /\ job[a].result[x].id \in 0..MaxAttempt
  BY <1>1 DEF Row
<1>3. Generation(a) \in [Areas -> 0..MaxAttempt] /\ StoredIds(a) \in [Areas -> 0..MaxAttempt]
  BY <1>2 DEF Generation, StoredIds
<1> QED  BY <1>1, <1>3 DEF FreshRecs, Recs

-----------------------------------------------------------------------------
(* The steps of an agent.                                                  *)

\* A resume that skips exploration.
LEMMA SkipsShape ==
  ASSUME Typed, NEW a \in Attempts, SkipsExploration(a)
  PROVE  Becomes(a, "areas", [job[a] EXCEPT !.over = summary, !.ex = summary])
<1> DEFINE j == [job[a] EXCEPT !.over = summary, !.ex = summary]
<1>1. j \in Job
  <2>1. job[a] \in Job /\ summary \in 0..MaxAttempt
    BY DEF Typed
  <2> QED  BY <2>1, JobOver
<1>2. job' = [job EXCEPT ![a] = j]
  BY DEF SkipsExploration, Typed, Job
<1> QED  BY <1>1, <1>2, Assigns DEF SkipsExploration, Goto, Places

\* An attempt that explores.
LEMMA ExploresShape ==
  ASSUME Typed, NEW a \in Attempts, Explores(a)
  PROVE  /\ Becomes(a, "picking", [job[a] EXCEPT !.over = a, !.ex = summary'])
         /\ summary' = a \/ (summary' = Nobody /\ Fault)
<1> DEFINE j == [job[a] EXCEPT !.over = a, !.ex = summary']
<1>1. summary' \in 0..MaxAttempt /\ (summary' = a \/ (summary' = Nobody /\ Fault))
  BY DEF Explores
<1>2. j \in Job
  <2>1. job[a] \in Job /\ a \in 0..MaxAttempt
    BY DEF Typed
  <2> QED  BY <1>1, <2>1, JobOver
<1>3. job' = [job EXCEPT ![a] = j]
  BY DEF Explores, Typed, Job
<1> QED  BY <1>1, <1>2, <1>3, Assigns DEF Explores, Goto, Places

\* The finished areas of a resume.
LEMMA LoadsAreasShape ==
  ASSUME Typed, NEW a \in Attempts, LoadsAreas(a)
  PROVE  \/ NoFault /\ Becomes(a, "drafts",
                               [job[a] EXCEPT !.kept = RowsOver(area, job[a].ex)])
         \/ Fault /\ Becomes(a, "drafts", job[a])
<1> DEFINE j == [job[a] EXCEPT !.kept = RowsOver(area, job[a].ex)]
<1>1. CASE Fault /\ job' = job
  BY <1>1, Keeps DEF LoadsAreas, Goto, Places
<1>2. CASE NoFault /\ job' = [job EXCEPT ![a].kept = RowsOver(area, job[a].ex)]
  <2>1. job[a] \in Job /\ RowsOver(area, job[a].ex) \in [Areas -> Row]
    BY RowsOverType DEF Typed
  <2>2. j \in Job
    BY <2>1 DEF Job
  <2>3. job' = [job EXCEPT ![a] = j]
    BY <1>2 DEF Typed
  <2> QED  BY <1>2, <2>2, <2>3, Assigns DEF LoadsAreas, Goto, Places
<1> QED  BY <1>1, <1>2 DEF LoadsAreas

\* The rows that are alive are rows.
LEMMA LiveRowsType ==
  ASSUME Typed, NEW a \in Attempts
  PROVE  /\ LiveRows(a) \in [Areas -> Row]
         /\ \A x \in Areas :
              LiveRows(a)[x] = IF job[a].kept[x] = NoRow /\ draft[x].over = job[a].ex
                               THEN draft[x] ELSE NoRow
<1>1. /\ RowsOver(draft, job[a].ex) \in [Areas -> Row]
      /\ \A x \in Areas : RowsOver(draft, job[a].ex)[x] =
                            IF draft[x].over = job[a].ex THEN draft[x] ELSE NoRow
  BY RowsOverType DEF Typed
<1> QED  BY <1>1, NoTypes DEF LiveRows

\* A budget is a number.
LEMMA BudgetType == ASSUME NEW rows PROVE Budget(rows) \in Nat
<1>1. IsFiniteSet({x \in Areas : Spent(rows[x]) = 1})
  BY FS_Subset
<1> QED  BY <1>1, FS_CardinalityType DEF Budget

\* The drafts of a resume, those of finished areas left out.
LEMMA LoadsDraftsShape ==
  ASSUME Typed, NEW a \in Attempts, LoadsDrafts(a)
  PROVE  \/ /\ NoFault
            /\ Becomes(a, "picking",
                       [job[a] EXCEPT !.drafts = LiveRows(a),
                                      !.used = SpentBefore(job[a].kept, LiveRows(a))])
         \/ /\ Fault
            /\ Becomes(a, "picking",
                       [job[a] EXCEPT !.used = SpentBefore(job[a].kept, NoRows)])
<1> DEFINE b == SpentBefore(job[a].kept, LiveRows(a))
           c == SpentBefore(job[a].kept, NoRows)
           j == [job[a] EXCEPT !.drafts = LiveRows(a), !.used = b]
           k == [job[a] EXCEPT !.used = c]
<1>1. b \in Nat /\ c \in Nat
  BY BudgetType DEF SpentBefore
<1>2. j \in Job /\ k \in Job
  <2>1. job[a] \in Job
    BY DEF Typed
  <2> HIDE DEF b, c
  <2> QED  BY <1>1, <2>1, LiveRowsType DEF Job
<1>3. CASE NoFault /\ job' = [job EXCEPT ![a] = j]
  BY <1>2, <1>3, Assigns DEF LoadsDrafts, Goto, Places
<1>4. CASE Fault /\ job' = [job EXCEPT ![a] = k]
  BY <1>2, <1>4, Assigns DEF LoadsDrafts, Goto, Places
<1>5. \/ NoFault /\ job' = [job EXCEPT ![a] = j]
      \/ Fault /\ job' = [job EXCEPT ![a] = k]
  <2>1. \/ NoFault /\ job' = [job EXCEPT ![a].drafts = LiveRows(a), ![a].used = b]
        \/ Fault /\ job' = [job EXCEPT ![a].used = c]
    BY DEF LoadsDrafts, LiveRows
  <2> HIDE DEF b, c
  <2> QED  BY <2>1 DEF Typed, Job
<1> QED  BY <1>3, <1>4, <1>5

\* A finished area that is restored.
LEMMA RestoresAreaShape ==
  ASSUME Typed, NEW a \in Attempts, NEW x \in Areas, RestoresArea(a, x)
  PROVE  Becomes(a, "picking",
                 [job[a] EXCEPT !.todo = job[a].todo \ {x},
                                !.result = [job[a].result EXCEPT ![x] = job[a].kept[x]]])
<1> DEFINE res == [job[a].result EXCEPT ![x] = job[a].kept[x]]
           j == [job[a] EXCEPT !.todo = job[a].todo \ {x}, !.result = res]
<1>1. job[a] \in Job
  BY DEF Typed
<1>2. res \in [Areas -> Row]
  BY <1>1 DEF Job
<1>3. j \in Job
  <2> HIDE DEF res
  <2> QED  BY <1>1, <1>2 DEF Job
<1>4. job' = [job EXCEPT ![a] = j]
  BY <1>1 DEF RestoresArea, Typed, Job
<1>5. at' = at /\ at[a] = "picking"
  BY DEF RestoresArea
<1> QED  BY <1>3, <1>4, <1>5, Rests

\* A draft that is restored.
LEMMA RestoresDraftShape ==
  ASSUME Typed, NEW a \in Attempts, NEW x \in Areas, RestoresDraft(a, x)
  PROVE  Becomes(a, "validating",
                 [job[a] EXCEPT !.todo = job[a].todo \ {x}, !.cur = {x},
                                !.step = job[a].drafts[x], !.onDisk = TRUE])
<1> DEFINE j == [job[a] EXCEPT !.todo = job[a].todo \ {x}, !.cur = {x},
                               !.step = job[a].drafts[x], !.onDisk = TRUE]
<1>1. job[a] \in Job
  BY DEF Typed
<1>2. j \in Job
  BY <1>1 DEF Job
<1>3. job' = [job EXCEPT ![a] = j]
  BY <1>1 DEF RestoresDraft, Typed, Job
<1> QED  BY <1>2, <1>3, Assigns DEF RestoresDraft, Goto, Places

\* An area that is analysed, or whose analysis fails.
LEMMA AnalysesShape ==
  ASSUME Typed, NEW a \in Attempts, NEW x \in Areas, Analyses(a, x)
  PROVE  \/ Fault /\ Becomes(a, "picking", [job[a] EXCEPT !.todo = job[a].todo \ {x}])
         \/ /\ NoFault
            /\ Becomes(a, IF job[a].ex = Nobody THEN "validating" ELSE "drafting",
                       [job[a] EXCEPT !.todo = job[a].todo \ {x}, !.cur = {x},
                                      !.onDisk = FALSE, !.step = Analysed(a)])
<1> DEFINE k == [job[a] EXCEPT !.todo = job[a].todo \ {x}]
           j == [job[a] EXCEPT !.todo = job[a].todo \ {x}, !.cur = {x},
                               !.onDisk = FALSE, !.step = Analysed(a)]
<1>1. job[a] \in Job
  BY DEF Typed
<1>2. k \in Job
  BY <1>1 DEF Job
<1>3. j \in Job
  BY <1>1, AnalysedType DEF Job
<1>4. CASE Fault /\ at' = at /\ job' = [job EXCEPT ![a].todo = @ \ {x}]
  <2>1. job' = [job EXCEPT ![a] = k]
    BY <1>1, <1>4 DEF Typed
  <2>2. at[a] = "picking"
    BY DEF Analyses
  <2> QED  BY <1>2, <1>4, <2>1, <2>2, Rests
<1>5. CASE /\ NoFault
           /\ Goto(a, IF job[a].ex = Nobody THEN "validating" ELSE "drafting")
           /\ job' = [job EXCEPT ![a].todo = @ \ {x}, ![a].cur = {x},
                                 ![a].onDisk = FALSE, ![a].step = Analysed(a)]
  <2>1. job' = [job EXCEPT ![a] = j]
    BY <1>1, <1>5 DEF Typed, Job
  <2> QED  BY <1>3, <1>5, <2>1, Assigns DEF Goto, Places
<1> QED  BY <1>4, <1>5 DEF Analyses, Analysed

\* An agent that stops.
LEMMA StopsShape ==
  ASSUME Typed, NEW a \in Attempts, Stops(a)
  PROVE  Becomes(a, "gone", NoJob)
BY NoTypes, Assigns DEF Stops, Goto, Places

\* A draft that is written, refused, or perhaps written.
LEMMA SavesDraftShape ==
  ASSUME Typed, NEW a \in Attempts, NEW x \in Areas, SavesDraft(a, x)
  PROVE  \/ /\ NoFault /\ ~Refused(draft, a, x) /\ PutDraft(a, x)
            /\ Becomes(a, "validating", [job[a] EXCEPT !.onDisk = TRUE])
         \/ /\ NoFault /\ Refused(draft, a, x) /\ UNCHANGED <<store, late, paid>>
            /\ Becomes(a, "gone", NoJob)
         \/ /\ Fault /\ (\/ ~Refused(draft, a, x) /\ PutDraft(a, x)
                         \/ UNCHANGED <<store, late, paid>>)
            /\ Becomes(a, "validating", job[a])
<1> DEFINE j == [job[a] EXCEPT !.onDisk = TRUE]
<1>1. job[a] \in Job
  BY DEF Typed
<1>2. j \in Job
  BY <1>1 DEF Job
<1>3. ASSUME job' = [job EXCEPT ![a].onDisk = TRUE], Goto(a, "validating")
      PROVE  Becomes(a, "validating", j)
  <2>1. job' = [job EXCEPT ![a] = j]
    BY <1>1, <1>3 DEF Typed
  <2> QED  BY <1>2, <1>3, <2>1, Assigns DEF Goto, Places
<1>4. ASSUME job' = job, Goto(a, "validating")
      PROVE  Becomes(a, "validating", job[a])
  BY <1>4, Keeps DEF Goto, Places
<1> QED  BY <1>3, <1>4, StopsShape DEF SavesDraft

\* A finding that is checked, or not.
LEMMA ValidatesShape ==
  ASSUME Typed, NEW a \in Attempts, NEW x \in Areas, Validates(a, x)
  PROVE  LET r == job[a].step
         IN \/ /\ r.verdict # NoVerdict \/ job[a].used >= Cap
               /\ Becomes(a, "merging", job[a])
            \/ /\ r.verdict = NoVerdict /\ job[a].used < Cap
               /\ \E s \in Row :
                    /\ s.by = r.by /\ s.over = r.over /\ s.gen = r.gen /\ s.id = r.id
                    /\ s.verdict.of = r.gen
                    /\ Becomes(a, "marking",
                               [job[a] EXCEPT !.step = s, !.used = job[a].used + 1])
<1> DEFINE r == job[a].step
<1>1. job[a] \in Job /\ r \in Row /\ job[a].used \in Nat
  BY DEF Typed, Job
<1>2. CASE r.verdict # NoVerdict \/ job[a].used >= Cap
  BY <1>2, Keeps DEF Validates, Goto, Places
<1>3. CASE ~(r.verdict # NoVerdict \/ job[a].used >= Cap)
  <2>1. PICK ok \in BOOLEAN :
          job' = [job EXCEPT ![a].step.verdict = [of |-> r.gen, ok |-> ok],
                             ![a].used = @ + 1]
    BY <1>3 DEF Validates
  <2> DEFINE v == [of |-> r.gen, ok |-> ok]
             s == [r EXCEPT !.verdict = v]
             j == [job[a] EXCEPT !.step = s, !.used = job[a].used + 1]
  <2>2. v \in Verdict
    BY <1>1 DEF Verdict, Row
  <2>3. s \in Row
    BY <1>1, <2>2 DEF Row
  <2>4. /\ s.by = r.by /\ s.over = r.over /\ s.gen = r.gen /\ s.id = r.id
        /\ s.verdict.of = r.gen
    BY <1>1 DEF Row
  <2>5. job' = [job EXCEPT ![a] = j]
    BY <1>1, <2>1 DEF Typed, Job
  <2>6. j \in Job
    <3>1. job[a].used + 1 \in Nat
      BY <1>1
    <3> HIDE DEF s, r
    <3> QED  BY <1>1, <2>3, <3>1, JobStep
  <2>7. Becomes(a, "marking", j)
    <3> HIDE DEF j
    <3> QED  BY <1>3, <2>5, <2>6, Assigns DEF Validates, Goto, Places
  <2>8. r.verdict = NoVerdict /\ job[a].used < Cap
    BY <1>1, <1>3
  <2> QED  BY <2>3, <2>4, <2>7, <2>8
<1> QED  BY <1>2, <1>3

\* A marker that is written, or not.
LEMMA MarksShape ==
  ASSUME Typed, NEW a \in Attempts, NEW x \in Areas, Marks(a, x)
  PROVE  Becomes(a, "merging", job[a])
BY Keeps DEF Marks, Goto, Places

\* The end of an iteration.
LEMMA NextAreaShape ==
  ASSUME Typed, NEW a \in Attempts, Goto(a, "picking"), job' = NextArea(a)
  PROVE  Becomes(a, "picking", [job[a] EXCEPT !.cur = {}, !.step = NoRow, !.onDisk = FALSE])
<1> DEFINE j == [job[a] EXCEPT !.cur = {}, !.step = NoRow, !.onDisk = FALSE]
<1>1. job[a] \in Job
  BY DEF Typed
<1>2. j \in Job
  BY <1>1, NoTypes DEF Job
<1>3. job' = [job EXCEPT ![a] = j]
  BY <1>1 DEF NextArea, Typed, Job
<1> QED  BY <1>2, <1>3, Assigns DEF Goto, Places

\* A finding that joins the result, on the way to its checkpoint or to the
\* next area.
LEMMA MergesShape ==
  ASSUME Typed, NEW a \in Attempts, NEW x \in Areas, Merges(a, x)
  PROVE  LET s == MergedStep(a, x)
             res == [job[a].result EXCEPT ![x] = s]
         IN \/ /\ job[a].ex = Nobody
               /\ Becomes(a, "picking", [job[a] EXCEPT !.cur = {}, !.step = NoRow,
                                                       !.onDisk = FALSE, !.result = res])
            \/ /\ job[a].ex # Nobody
               /\ Becomes(a, "saving", [job[a] EXCEPT !.step = s, !.result = res])
<1> DEFINE s == MergedStep(a, x)
           res == [job[a].result EXCEPT ![x] = s]
           j == [job[a] EXCEPT !.cur = {}, !.step = NoRow, !.onDisk = FALSE, !.result = res]
           k == [job[a] EXCEPT !.step = s, !.result = res]
<1>1. job[a] \in Job /\ s \in Row
  BY Merged DEF Typed
<1>2. res \in [Areas -> Row]
  <2> HIDE DEF s
  <2> QED  BY <1>1 DEF Job
<1>3. j \in Job /\ k \in Job
  <2> HIDE DEF s, res
  <2> QED  BY <1>1, <1>2, NoTypes DEF Job
<1>4. CASE job[a].ex = Nobody
  <2>1. job' = [job EXCEPT ![a] = j]
    BY <1>1, <1>4 DEF Merges, MergedStep, NextArea, Typed, Job
  <2>2. at' = [at EXCEPT ![a] = "picking"]
    BY <1>4 DEF Merges, Goto
  <2> HIDE DEF j
  <2>3. Becomes(a, "picking", j)
    BY <1>3, <2>1, <2>2, Assigns DEF Places
  <2> QED  BY <1>4, <2>3 DEF j
<1>5. CASE job[a].ex # Nobody
  <2>1. job' = [job EXCEPT ![a] = k]
    BY <1>1, <1>5 DEF Merges, MergedStep, Typed, Job
  <2>2. at' = [at EXCEPT ![a] = "saving"]
    BY <1>5 DEF Merges, Goto
  <2> HIDE DEF k
  <2>3. Becomes(a, "saving", k)
    BY <1>3, <2>1, <2>2, Assigns DEF Places
  <2> QED  BY <1>5, <2>3 DEF k
<1> QED  BY <1>4, <1>5

\* A checkpoint that is written, refused, or perhaps written.
LEMMA SavesAreaShape ==
  ASSUME Typed, NEW a \in Attempts, NEW x \in Areas, SavesArea(a, x)
  PROVE  \/ /\ NoFault /\ ~Refused(area, a, x) /\ PutArea(a, x)
            /\ Becomes(a, "discarding", job[a])
         \/ /\ NoFault /\ Refused(area, a, x) /\ UNCHANGED <<store, late, paid>>
            /\ Becomes(a, "gone", NoJob)
         \/ /\ Fault /\ (\/ ~Refused(area, a, x) /\ PutArea(a, x)
                         \/ UNCHANGED <<store, late, paid>>)
            /\ Becomes(a, "picking", [job[a] EXCEPT !.cur = {}, !.step = NoRow,
                                                    !.onDisk = FALSE])
<1>1. ASSUME job' = job, Goto(a, "discarding")
      PROVE  Becomes(a, "discarding", job[a])
  BY <1>1, Keeps DEF Goto, Places
<1> QED  BY <1>1, StopsShape, NextAreaShape DEF SavesArea, AfterSave

\* A draft that is discarded, or perhaps not.
LEMMA DiscardsShape ==
  ASSUME Typed, NEW a \in Attempts, NEW x \in Areas, DiscardsDraft(a, x)
  PROVE  Becomes(a, "picking", [job[a] EXCEPT !.cur = {}, !.step = NoRow, !.onDisk = FALSE])
BY NextAreaShape DEF DiscardsDraft

\* The end of the loop.
LEMMA EndsLoopShape ==
  ASSUME Typed, NEW a \in Attempts, EndsLoop(a)
  PROVE  Becomes(a, "recommending", [job[a] EXCEPT !.drafts = NoRows, !.used = 0])
<1> DEFINE j == [job[a] EXCEPT !.drafts = NoRows, !.used = 0]
<1>1. job[a] \in Job
  BY DEF Typed
<1>2. j \in Job
  BY <1>1, NoTypes DEF Job
<1>3. job' = [job EXCEPT ![a] = j]
  BY <1>1 DEF EndsLoop, Typed, Job
<1> QED  BY <1>2, <1>3, Assigns DEF EndsLoop, Goto, Places

\* The recommendations, restored or new.
LEMMA RecommendsShape ==
  ASSUME Typed, NEW a \in Attempts, Recommends(a)
  PROVE  \E r \in Recs, pc \in {"finished", "storing"} :
           /\ Becomes(a, pc, [job[a] EXCEPT !.recs = r, !.kept = NoRows])
           /\ r.gens = Generation(a)
<1>1. job[a] \in Job /\ FreshRecs(a) \in Recs /\ recs \in Recs
  BY FreshRecsType DEF Typed
<1>2. ASSUME NEW r \in Recs, NEW pc \in {"finished", "storing"}, r.gens = Generation(a),
             job' = [job EXCEPT ![a].recs = r, ![a].kept = NoRows], Goto(a, pc)
      PROVE  Becomes(a, pc, [job[a] EXCEPT !.recs = r, !.kept = NoRows])
  <2> DEFINE j == [job[a] EXCEPT !.recs = r, !.kept = NoRows]
  <2>1. j \in Job
    BY <1>1, NoTypes DEF Job
  <2>2. job' = [job EXCEPT ![a] = j]
    BY <1>1, <1>2 DEF Typed, Job
  <2> HIDE DEF j
  <2>3. pc \in Places /\ at' = [at EXCEPT ![a] = pc]
    BY <1>2 DEF Goto, Places
  <2>4. Becomes(a, pc, j)
    BY <2>1, <2>2, <2>3, Assigns
  <2> QED  BY <2>4 DEF j
<1>3. CASE /\ Restorable(a) /\ Goto(a, "finished")
           /\ job' = [job EXCEPT ![a].recs = recs, ![a].kept = NoRows]
  <2>1. recs.gens = Generation(a)
    BY <1>3 DEF Restorable
  <2> QED  BY <1>1, <1>2, <1>3, <2>1
<1>4. CASE /\ job' = [job EXCEPT ![a].recs = FreshRecs(a), ![a].kept = NoRows]
           /\ Goto(a, IF Eligible(a) = {} \/ job[a].ex = Nobody
                      THEN "finished" ELSE "storing")
  <2>1. FreshRecs(a).gens = Generation(a)
    BY DEF FreshRecs
  <2>2. Goto(a, "finished") \/ Goto(a, "storing")
    BY <1>4
  <2> QED  BY <1>1, <1>2, <1>4, <2>1, <2>2
<1> QED  BY <1>3, <1>4 DEF Recommends, FreshRecs

\* Recommendations that are stored, or not.
LEMMA StoresRecsShape ==
  ASSUME Typed, NEW a \in Attempts, StoresRecs(a)
  PROVE  Becomes(a, "finished", job[a])
BY Keeps DEF StoresRecs, Goto, Places

-----------------------------------------------------------------------------
(* The types.                                                              *)

\* A draft that takes a verdict is otherwise the draft it was.
LEMMA MarkedRow ==
  ASSUME Typed, NEW x \in Areas, NEW v \in Verdict
  PROVE  LET new == [draft EXCEPT ![x].verdict = v]
         IN /\ new \in [Areas -> Row]
            /\ new[x].by = draft[x].by /\ new[x].over = draft[x].over
            /\ new[x].gen = draft[x].gen /\ new[x].verdict = v
            /\ \A y \in Areas : y # x => new[y] = draft[y]
<1>1. draft \in [Areas -> Row] /\ draft[x] \in Row
  BY DEF Typed
<1> DEFINE r == [draft[x] EXCEPT !.verdict = v]
           new == [draft EXCEPT ![x] = r]
<1>2. /\ r \in Row /\ r.by = draft[x].by /\ r.over = draft[x].over /\ r.gen = draft[x].gen
      /\ r.verdict = v
  BY <1>1 DEF Row
<1>3. new = [draft EXCEPT ![x].verdict = v]
  BY <1>1
<1>4. new \in [Areas -> Row] /\ new[x] = r /\ \A y \in Areas : y # x => new[y] = draft[y]
  <2> HIDE DEF r
  <2> QED  BY <1>1, <1>2
<1> QED  BY <1>2, <1>3, <1>4

\* A fault more, or none, is within the bound.
LEMMA FaultType ==
  ASSUME Typed, NoFault \/ Fault
  PROVE  faults' \in 0..MaxFaults
BY DEF Typed, NoFault, Fault

\* What a finding in memory is.
LEMMA StepType ==
  ASSUME Typed, NEW a \in Attempts
  PROVE  job[a].step \in Row /\ job[a].step.verdict \in Verdict /\ job[a].recs \in Recs
<1>1. job[a].step \in Row /\ job[a].recs \in Recs
  BY DEF Typed, Job
<1> QED  BY <1>1 DEF Row

\* A row that is written is a row, among the other rows.
LEMMA PutRow ==
  ASSUME Typed, NEW a \in Attempts, NEW x \in Areas
  PROVE  /\ PutDraft(a, x) =>
              /\ draft' \in [Areas -> Row] /\ draft'[x] = job[a].step
              /\ \A y \in Areas : y # x => draft'[y] = draft[y]
              /\ late' = (late \/ owner # a) /\ area' = area /\ recs' = recs
              /\ paid' \subseteq Areas
              /\ paid' = IF job[a].ex = summary THEN paid \cup {x} ELSE paid
         /\ PutArea(a, x) =>
              /\ area' \in [Areas -> Row] /\ area'[x] = job[a].step
              /\ \A y \in Areas : y # x => area'[y] = area[y]
              /\ late' = (late \/ owner # a) /\ draft' = draft /\ recs' = recs
              /\ paid' \subseteq Areas
              /\ paid' = IF job[a].ex = summary THEN paid \cup {x} ELSE paid
<1>1. job[a].step \in Row
  BY StepType
<1>2. draft \in [Areas -> Row] /\ area \in [Areas -> Row] /\ paid \subseteq Areas
  BY DEF Typed
<1> QED  BY <1>1, <1>2 DEF PutDraft, PutArea, DraftRow, Stored, Noted, Owns

\* The steps of an area keep the types.
LEMMA AreaStepTyped ==
  ASSUME Typed, NEW a \in Attempts, NEW x \in Areas, AreaStep(a, x)
  PROVE  Typed'
<1>1. CASE RestoresArea(a, x)
  BY <1>1, RestoresAreaShape DEF RestoresArea, Becomes, Typed, store
<1>2. CASE RestoresDraft(a, x)
  BY <1>2, RestoresDraftShape DEF RestoresDraft, Becomes, Typed, store
<1>3. CASE Analyses(a, x)
  <2>1. faults' \in 0..MaxFaults
    BY <1>3, FaultType DEF Analyses
  <2>2. at' \in [Attempts -> Places] /\ job' \in [Attempts -> Job]
    BY <1>3, AnalysesShape DEF Becomes
  <2> QED  BY <1>3, <2>1, <2>2 DEF Analyses, Typed, store
<1>4. CASE SavesDraft(a, x)
  <2>1. faults' \in 0..MaxFaults
    BY <1>4, FaultType DEF SavesDraft
  <2>2. at' \in [Attempts -> Places] /\ job' \in [Attempts -> Job]
    BY <1>4, SavesDraftShape DEF Becomes
  <2>3. PutDraft(a, x) \/ UNCHANGED <<store, late, paid>>
    BY <1>4 DEF SavesDraft
  <2>4. owner' = owner /\ summary' = summary
    BY <1>4 DEF SavesDraft
  <2> QED  BY <2>1, <2>2, <2>3, <2>4, PutRow DEF Typed, store
<1>5. CASE Validates(a, x)
  <2>1. at' \in [Attempts -> Places] /\ job' \in [Attempts -> Job]
    BY <1>5, ValidatesShape DEF Becomes
  <2> QED  BY <1>5, <2>1 DEF Validates, Typed, store
<1>6. CASE Marks(a, x)
  <2>1. faults' \in 0..MaxFaults
    BY <1>6, FaultType DEF Marks
  <2>2. at' \in [Attempts -> Places] /\ job' \in [Attempts -> Job]
    BY <1>6, MarksShape DEF Becomes
  <2>3. draft' = draft \/ draft' = [draft EXCEPT ![x].verdict = job[a].step.verdict]
    BY <1>6 DEF Marks
  <2>4. draft' \in [Areas -> Row]
    BY <2>3, StepType, MarkedRow DEF Typed
  <2>5. late' \in BOOLEAN
    BY <1>6 DEF Marks, Noted, Typed
  <2> QED  BY <1>6, <2>1, <2>2, <2>4, <2>5 DEF Marks, Typed
<1>7. CASE Merges(a, x)
  <2>1. at' \in [Attempts -> Places] /\ job' \in [Attempts -> Job]
    BY <1>7, MergesShape DEF Becomes
  <2> QED  BY <1>7, <2>1 DEF Merges, Typed, store
<1>8. CASE SavesArea(a, x)
  <2>1. faults' \in 0..MaxFaults
    BY <1>8, FaultType DEF SavesArea
  <2>2. at' \in [Attempts -> Places] /\ job' \in [Attempts -> Job]
    BY <1>8, SavesAreaShape DEF Becomes
  <2>3. PutArea(a, x) \/ UNCHANGED <<store, late, paid>>
    BY <1>8 DEF SavesArea
  <2>4. owner' = owner /\ summary' = summary
    BY <1>8 DEF SavesArea
  <2> QED  BY <2>1, <2>2, <2>3, <2>4, PutRow DEF Typed, store
<1>9. CASE DiscardsDraft(a, x)
  <2>1. faults' \in 0..MaxFaults
    BY <1>9, FaultType DEF DiscardsDraft
  <2>2. at' \in [Attempts -> Places] /\ job' \in [Attempts -> Job]
    BY <1>9, DiscardsShape DEF Becomes
  <2>3. draft' \in [Areas -> Row] /\ late' \in BOOLEAN
    BY <1>9, NoTypes DEF DiscardsDraft, Noted, Typed
  <2> QED  BY <1>9, <2>1, <2>2, <2>3 DEF DiscardsDraft, Typed
<1> QED  BY <1>1, <1>2, <1>3, <1>4, <1>5, <1>6, <1>7, <1>8, <1>9 DEF AreaStep

\* So do the other steps of an agent.
LEMMA AgentStepTyped ==
  ASSUME Typed, NEW a \in Attempts, AgentStep(a)
  PROVE  Typed'
<1>1. CASE SkipsExploration(a)
  BY <1>1, SkipsShape DEF SkipsExploration, Becomes, Typed, store
<1>2. CASE Explores(a)
  <2>1. faults' \in 0..MaxFaults /\ summary' \in 0..MaxAttempt
    BY <1>2, FaultType DEF Explores
  <2>2. at' \in [Attempts -> Places] /\ job' \in [Attempts -> Job]
    BY <1>2, ExploresShape DEF Becomes
  <2> QED  BY <1>2, <2>1, <2>2 DEF Explores, Typed, store
<1>3. CASE LoadsAreas(a)
  <2>1. faults' \in 0..MaxFaults
    BY <1>3, FaultType DEF LoadsAreas
  <2>2. at' \in [Attempts -> Places] /\ job' \in [Attempts -> Job]
    BY <1>3, LoadsAreasShape DEF Becomes
  <2> QED  BY <1>3, <2>1, <2>2 DEF LoadsAreas, Typed, store
<1>4. CASE LoadsDrafts(a)
  <2>1. faults' \in 0..MaxFaults
    BY <1>4, LoadsDraftsShape, FaultType
  <2>2. at' \in [Attempts -> Places] /\ job' \in [Attempts -> Job]
    BY <1>4, LoadsDraftsShape DEF Becomes
  <2> QED  BY <1>4, <2>1, <2>2 DEF LoadsDrafts, Typed, store
<1>5. CASE \E x \in Areas : AreaStep(a, x)
  BY <1>5, AreaStepTyped
<1>6. CASE LosesRun(a)
  <2>1. at' \in [Attempts -> Places] /\ job' \in [Attempts -> Job]
    BY <1>6, StopsShape DEF LosesRun, Becomes
  <2> QED  BY <1>6, <2>1 DEF LosesRun, Typed, store
<1>7. CASE EndsLoop(a)
  <2>1. at' \in [Attempts -> Places] /\ job' \in [Attempts -> Job]
    BY <1>7, EndsLoopShape DEF Becomes
  <2> QED  BY <1>7, <2>1 DEF EndsLoop, Typed, store
<1>8. CASE Recommends(a)
  <2>1. faults' \in 0..MaxFaults
    BY <1>8, FaultType DEF Recommends
  <2>2. at' \in [Attempts -> Places] /\ job' \in [Attempts -> Job]
    BY <1>8, RecommendsShape DEF Becomes
  <2> QED  BY <1>8, <2>1, <2>2 DEF Recommends, Typed, store
<1>9. CASE StoresRecs(a)
  <2>1. faults' \in 0..MaxFaults
    BY <1>9, FaultType DEF StoresRecs
  <2>2. at' \in [Attempts -> Places] /\ job' \in [Attempts -> Job]
    BY <1>9, StoresRecsShape DEF Becomes
  <2>3. recs' \in Recs
    BY <1>9, StepType DEF StoresRecs, Typed
  <2> QED  BY <1>9, <2>1, <2>2, <2>3 DEF StoresRecs, Typed
<1> QED  BY <1>1, <1>2, <1>3, <1>4, <1>5, <1>6, <1>7, <1>8, <1>9 DEF AgentStep

\* A takeover starts the next attempt, and clears away those before the last
\* and one that has finished.
LEMMA ResumesShape ==
  ASSUME Typed, Resumes
  PROVE  /\ Typed'
         /\ owner' = owner + 1 /\ owner' \in Attempts
         /\ at'[owner'] = "starting" /\ job'[owner'] = job[owner']
         /\ \A b \in Attempts \ {owner'} :
              \/ at'[b] = at[b] /\ job'[b] = job[b]
              \/ at'[b] = "gone" /\ job'[b] = NoJob
<1>1. owner' = owner + 1 /\ owner' \in Attempts
  BY DEF Resumes, Typed
<1>2. \A b \in Attempts :
        /\ at'[b] \in Places
        /\ b = owner' => at'[b] = "starting" /\ job'[b] = job[b]
        /\ b # owner' => \/ at'[b] = at[b] /\ job'[b] = job[b]
                         \/ at'[b] = "gone" /\ job'[b] = NoJob
  <2> SUFFICES ASSUME NEW b \in Attempts
               PROVE  /\ at'[b] \in Places
                      /\ b = owner' => at'[b] = "starting" /\ job'[b] = job[b]
                      /\ b # owner' => \/ at'[b] = at[b] /\ job'[b] = job[b]
                                       \/ at'[b] = "gone" /\ job'[b] = NoJob
    OBVIOUS
  <2> DEFINE left == {c \in Attempts : c < owner \/ (c = owner /\ at[c] = "finished")}
  <2>1. /\ at'[b] = IF b = owner + 1 THEN "starting" ELSE IF b \in left THEN "gone" ELSE at[b]
        /\ job'[b] = IF b \in left THEN NoJob ELSE job[b]
    BY DEF Resumes
  <2>2. b = owner + 1 => b \notin left
    BY DEF Typed
  <2>3. at[b] \in Places
    BY DEF Typed
  <2> HIDE DEF left
  <2> QED  BY <1>1, <2>1, <2>2, <2>3 DEF Places
<1>3. at' \in [Attempts -> Places] /\ job' \in [Attempts -> Job]
  <2>1. DOMAIN at' = Attempts /\ DOMAIN job' = Attempts
    BY DEF Resumes
  <2>2. \A b \in Attempts : job'[b] \in Job
    BY <1>2, NoTypes DEF Typed
  <2> DEFINE left == {c \in Attempts : c < owner \/ (c = owner /\ at[c] = "finished")}
  <2>3. /\ at' = [b \in Attempts |-> at'[b]]
        /\ job' = [b \in Attempts |-> job'[b]]
    BY DEF Resumes
  <2> QED  BY <1>2, <2>2, <2>3
<1>4. Typed'
  BY <1>1, <1>3 DEF Resumes, Typed, store
<1> QED  BY <1>1, <1>2, <1>4

-----------------------------------------------------------------------------
(* What holds of each agent by itself.                                     *)

Working   == {"drafting", "validating", "marking", "merging", "saving", "discarding"}
Before    == {"none", "starting", "gone"}
Loading   == {"areas", "drafts"}
AfterLoop == {"recommending", "storing", "finished"}

\* An agent that has not set out, or that stopped, has nothing in memory.
Idle(a) == at[a] \in Before => job[a] = NoJob

\* An agent works on an exploration, and stores nothing unless that has a
\* summary.
Explored(a) ==
  /\ job[a].over <= a
  /\ at[a] \notin Before => job[a].over # Nobody
  /\ job[a].ex \in {Nobody, job[a].over}
  /\ at[a] \in Loading \cup {"drafting", "saving", "discarding"} => job[a].ex # Nobody

\* All it has of an area is over the exploration it works on.
OverItsSteps(a) ==
  /\ \A x \in Areas :
       /\ job[a].kept[x] # NoRow => job[a].kept[x].over = job[a].over
       /\ job[a].drafts[x] # NoRow => job[a].drafts[x].over = job[a].over
       /\ job[a].result[x] # NoRow => job[a].result[x].over = job[a].over
  /\ job[a].step # NoRow => job[a].step.over = job[a].over

\* The loop has one area at a time, and comes to it once.
OneArea(a) ==
  /\ \A x, y \in job[a].cur : x = y
  /\ job[a].cur \cap job[a].todo = {}
  /\ at[a] \in Working => job[a].step # NoRow
  /\ at[a] \notin Working => job[a].cur = {} /\ job[a].step = NoRow /\ ~job[a].onDisk
  /\ at[a] \in AfterLoop => job[a].todo = {}

\* What is written is this attempt's, as it stands in the result.
WritesItsStep(a) ==
  /\ at[a] = "drafting" => ~job[a].onDisk
  /\ at[a] \in {"drafting", "saving", "discarding"} => job[a].step.by = a
  /\ at[a] = "marking" => job[a].step.verdict.of = job[a].step.gen
  /\ at[a] \in {"saving", "discarding"} =>
       \A x \in job[a].cur : job[a].result[x] = job[a].step

\* An area is restored finished, or as a draft, or not at all.
RestoredOnce(a) ==
  /\ at[a] \in Loading => /\ job[a].todo = Areas
                          /\ job[a].drafts = NoRows /\ job[a].result = NoRows
  /\ at[a] = "areas" => job[a].kept = NoRows
  /\ \A x \in Areas : job[a].kept[x] # NoRow => job[a].drafts[x] = NoRow

\* Recommendations, once made, are about the findings.
Advice(a) ==
  at[a] \in {"storing", "finished"} => job[a].recs.gens = Generation(a)

Local(a) == /\ Idle(a) /\ Explored(a) /\ OverItsSteps(a) /\ OneArea(a)
            /\ WritesItsStep(a) /\ RestoredOnce(a) /\ Advice(a)

\* It is of one agent's memory alone.
LEMMA LocalOfAgent ==
  ASSUME NEW b \in Attempts, job'[b] = job[b], at'[b] = at[b], Local(b)
  PROVE  Local(b)'
BY DEF Local, Idle, Explored, OverItsSteps, OneArea, WritesItsStep, RestoredOnce, Advice,
       Generation, Eligible

\* It holds of an agent that has nothing in memory.
LEMMA LocalOfNone ==
  ASSUME NEW b \in Attempts, job'[b] = NoJob, at'[b] \in Before
  PROVE  Local(b)'
BY NoJobFields, NoRowFields
   DEF Local, Idle, Explored, OverItsSteps, OneArea, WritesItsStep, RestoredOnce, Advice,
       Before, Loading, Working, AfterLoop

\* The start of an attempt.
LEMMA StartLocal ==
  ASSUME Typed, NEW a \in Attempts, Local(a), summary <= a,
         SkipsExploration(a) \/ Explores(a)
  PROVE  Local(a)'
<1>1. at[a] = "starting"
  BY DEF SkipsExploration, Explores
<1>2. job[a] = NoJob
  BY <1>1 DEF Local, Idle, Before
<1>3. NoJob \in Job
  BY NoTypes
<1>4. CASE SkipsExploration(a)
  <2>1. Becomes(a, "areas", [NoJob EXCEPT !.over = summary, !.ex = summary])
    BY <1>2, <1>4, SkipsShape
  <2>2. summary # Nobody /\ summary \in 0..MaxAttempt
    BY <1>4 DEF SkipsExploration, Typed
  <2> QED
    BY <1>3, <2>1, <2>2, NoJobFields, NoRowFields
       DEF Local, Idle, Explored, OverItsSteps, OneArea, WritesItsStep, RestoredOnce, Advice,
           Before, Loading, Working, AfterLoop, Becomes, Job
<1>5. CASE Explores(a)
  <2>1. Becomes(a, "picking", [NoJob EXCEPT !.over = a, !.ex = summary'])
    BY <1>2, <1>5, ExploresShape
  <2>2. summary' \in {Nobody, a}
    BY <1>5, ExploresShape
  <2> QED
    BY <1>3, <2>1, <2>2, NoJobFields, NoRowFields
       DEF Local, Idle, Explored, OverItsSteps, OneArea, WritesItsStep, RestoredOnce, Advice,
           Before, Loading, Working, AfterLoop, Becomes, Job
<1> QED  BY <1>4, <1>5

\* What a resume loads.
LEMMA LoadLocal ==
  ASSUME Typed, NEW a \in Attempts, Local(a), LoadsAreas(a) \/ LoadsDrafts(a)
  PROVE  Local(a)'
<1> DEFINE j == job[a]
<1>1. j \in Job /\ at[a] \in Loading
  BY DEF Typed, LoadsAreas, LoadsDrafts, Loading
<1>2. j.ex # Nobody /\ j.ex = j.over /\ j.result = NoRows /\ j.todo = Areas
      /\ j.drafts = NoRows
  BY <1>1 DEF Local, Explored, RestoredOnce
<1>3. CASE LoadsAreas(a)
  <2> DEFINE k == RowsOver(area, j.ex)
  <2>1. /\ k \in [Areas -> Row]
        /\ \A x \in Areas : k[x] # NoRow => k[x].over = j.over
    BY <1>2, RowsOverType DEF Typed
  <2>2. at[a] = "areas"
    BY <1>3 DEF LoadsAreas
  <2>3. \/ Becomes(a, "drafts", [j EXCEPT !.kept = k])
        \/ Becomes(a, "drafts", j)
    BY <1>3, LoadsAreasShape
  <2> HIDE DEF j, k
  <2>4. Idle(a)' /\ Explored(a)'
    BY <1>1, <1>2, <2>3 DEF Local, Idle, Explored, Before, Loading, Becomes, Job, j
  <2>8. /\ job'[a].kept = k \/ job'[a].kept = j.kept
        /\ job'[a].over = j.over /\ job'[a].drafts = j.drafts
        /\ job'[a].result = j.result /\ job'[a].step = j.step
    BY <1>1, <2>3 DEF Becomes, Job
  <2>5. OverItsSteps(a)'
    BY <2>1, <2>8 DEF Local, OverItsSteps, j
  <2>6. OneArea(a)' /\ WritesItsStep(a)'
    BY <1>1, <1>2, <2>2, <2>3
       DEF Local, OneArea, WritesItsStep, Working, AfterLoop, Becomes, Job, j
  <2>7. RestoredOnce(a)' /\ Advice(a)'
    BY <1>1, <1>2, <2>2, <2>3, NoRowFields
       DEF Local, RestoredOnce, Advice, Loading, Becomes, Job, j
  <2> QED  BY <2>4, <2>5, <2>6, <2>7 DEF Local
<1>4. CASE LoadsDrafts(a)
  <2> DEFINE k == LiveRows(a)
             b == SpentBefore(j.kept, k)
             c == SpentBefore(j.kept, NoRows)
  <2>1. /\ k \in [Areas -> Row]
        /\ \A x \in Areas : /\ k[x] # NoRow => k[x].over = j.over
                            /\ j.kept[x] # NoRow => k[x] = NoRow
    BY <1>2, LiveRowsType
  <2>2. at[a] = "drafts"
    BY <1>4 DEF LoadsDrafts
  <2>3. \/ Becomes(a, "picking", [j EXCEPT !.drafts = k, !.used = b])
        \/ Becomes(a, "picking", [j EXCEPT !.used = c])
    BY <1>4, LoadsDraftsShape
  <2> HIDE DEF j, k, b, c
  <2>4. Idle(a)' /\ Explored(a)'
    BY <1>1, <1>2, <2>3 DEF Local, Idle, Explored, Before, Loading, Becomes, Job, j
  <2>8. /\ job'[a].drafts = k \/ job'[a].drafts = j.drafts
        /\ job'[a].over = j.over /\ job'[a].kept = j.kept
        /\ job'[a].result = j.result /\ job'[a].step = j.step
        /\ at'[a] = "picking"
    BY <1>1, <2>3 DEF Becomes, Job
  <2>5. OverItsSteps(a)'
    BY <2>1, <2>8 DEF Local, OverItsSteps, j
  <2>6. OneArea(a)' /\ WritesItsStep(a)'
    BY <1>1, <1>2, <2>2, <2>3
       DEF Local, OneArea, WritesItsStep, Working, AfterLoop, Becomes, Job, j
  <2>7. RestoredOnce(a)' /\ Advice(a)'
    BY <2>1, <2>8 DEF Local, RestoredOnce, Advice, Loading, j
  <2> QED  BY <2>4, <2>5, <2>6, <2>7 DEF Local
<1> QED  BY <1>3, <1>4

\* An area that is restored, or analysed.
LEMMA PickLocal ==
  ASSUME Typed, NEW a \in Attempts, NEW x \in Areas, Local(a),
         RestoresArea(a, x) \/ RestoresDraft(a, x) \/ Analyses(a, x)
  PROVE  Local(a)'
<1> DEFINE j == job[a]
           r == Analysed(a)
           rest == j.todo \ {x}
           res == [j.result EXCEPT ![x] = j.kept[x]]
<1>1. j \in Job /\ at[a] = "picking" /\ x \in j.todo
  BY DEF Typed, RestoresArea, RestoresDraft, Analyses
<1>2. j.cur = {} /\ j.step = NoRow
  BY <1>1 DEF Local, OneArea, Working
<1>3. CASE RestoresArea(a, x)
  <2>1. j.kept[x] # NoRow
    BY <1>3 DEF RestoresArea
  <2>2. res[x] = j.kept[x] /\ \A y \in Areas : y # x => res[y] = j.result[y]
    BY <1>1 DEF Job
  <2>3. Becomes(a, "picking", [j EXCEPT !.todo = rest, !.result = res])
    BY <1>3, RestoresAreaShape
  <2> HIDE DEF j, res
  <2>4. Idle(a)' /\ Explored(a)'
    BY <1>1, <2>3 DEF Local, Idle, Explored, Before, Loading, Becomes, Job, j
  <2>8. /\ job'[a].over = j.over /\ job'[a].kept = j.kept
        /\ job'[a].drafts = j.drafts /\ job'[a].step = j.step /\ job'[a].result = res
    BY <1>1, <2>3 DEF Becomes, Job
  <2>5. OverItsSteps(a)'
    BY <2>1, <2>2, <2>8 DEF Local, OverItsSteps, j
  <2>6. OneArea(a)' /\ WritesItsStep(a)'
    BY <1>1, <1>2, <2>3
       DEF Local, OneArea, WritesItsStep, Working, AfterLoop, Becomes, Job, j
  <2>7. RestoredOnce(a)' /\ Advice(a)'
    BY <1>1, <2>3 DEF Local, RestoredOnce, Advice, Loading, Becomes, Job, j
  <2> QED  BY <2>4, <2>5, <2>6, <2>7 DEF Local
<1>4. CASE RestoresDraft(a, x)
  <2>1. j.drafts[x] # NoRow
    BY <1>4 DEF RestoresDraft
  <2>2. Becomes(a, "validating", [j EXCEPT !.todo = rest, !.cur = {x},
                                           !.step = j.drafts[x], !.onDisk = TRUE])
    BY <1>4, RestoresDraftShape
  <2> HIDE DEF j
  <2>3. Idle(a)' /\ Explored(a)'
    BY <1>1, <2>2 DEF Local, Idle, Explored, Before, Loading, Becomes, Job, j
  <2>4. OverItsSteps(a)'
    BY <1>1, <2>1, <2>2 DEF Local, OverItsSteps, Becomes, Job, j
  <2>5. OneArea(a)' /\ WritesItsStep(a)'
    BY <1>1, <1>2, <2>1, <2>2
       DEF Local, OneArea, WritesItsStep, Working, AfterLoop, Becomes, Job, j
  <2>6. RestoredOnce(a)' /\ Advice(a)'
    BY <1>1, <2>2 DEF Local, RestoredOnce, Advice, Loading, Becomes, Job, j
  <2> QED  BY <2>3, <2>4, <2>5, <2>6 DEF Local
<1>5. CASE Analyses(a, x)
  <2>1. r # NoRow /\ r.by = a /\ r.over = j.over
    BY AnalysedType
  <2>2. \/ Becomes(a, "picking", [j EXCEPT !.todo = rest])
        \/ /\ j.ex = Nobody
           /\ Becomes(a, "validating", [j EXCEPT !.todo = rest, !.cur = {x},
                                                 !.onDisk = FALSE, !.step = r])
        \/ /\ j.ex # Nobody
           /\ Becomes(a, "drafting", [j EXCEPT !.todo = rest, !.cur = {x},
                                               !.onDisk = FALSE, !.step = r])
    BY <1>5, AnalysesShape
  <2> HIDE DEF j, r
  <2>3. Idle(a)' /\ Explored(a)'
    BY <1>1, <2>2 DEF Local, Idle, Explored, Before, Loading, Becomes, Job, j
  <2>8. /\ job'[a].over = j.over /\ job'[a].kept = j.kept
        /\ job'[a].drafts = j.drafts /\ job'[a].result = j.result
        /\ job'[a].step \in {NoRow, r}
    BY <1>1, <1>2, <2>2 DEF Becomes, Job
  <2>4. OverItsSteps(a)'
    BY <2>1, <2>8 DEF Local, OverItsSteps, j
  <2>7. /\ job'[a].todo = rest
        /\ \/ /\ at'[a] = "picking" /\ job'[a].cur = {} /\ job'[a].step = NoRow
              /\ ~job'[a].onDisk
           \/ /\ at'[a] \in {"validating", "drafting"} /\ job'[a].cur = {x}
              /\ job'[a].step = r /\ ~job'[a].onDisk
    <3>1. ~j.onDisk
      BY <1>1 DEF Local, OneArea, Working, j
    <3> QED  BY <1>1, <1>2, <2>2, <3>1 DEF Becomes, Job
  <2>5. OneArea(a)' /\ WritesItsStep(a)'
    BY <2>1, <2>7 DEF OneArea, WritesItsStep, Working, AfterLoop
  <2>6. RestoredOnce(a)' /\ Advice(a)'
    BY <1>1, <2>2 DEF Local, RestoredOnce, Advice, Loading, Becomes, Job, j
  <2> QED  BY <2>3, <2>4, <2>5, <2>6 DEF Local
<1> QED  BY <1>3, <1>4, <1>5

\* A finding on its way to its checkpoint.
LEMMA StepLocal ==
  ASSUME Typed, NEW a \in Attempts, NEW x \in Areas, Local(a),
         SavesDraft(a, x) \/ Validates(a, x) \/ Marks(a, x)
  PROVE  Local(a)'
<1> DEFINE j == job[a]
<1>1. j \in Job /\ at[a] \in {"drafting", "validating", "marking"} /\ x \in j.cur
  BY DEF Typed, SavesDraft, Validates, Marks
<1>2. j.step # NoRow
  BY <1>1 DEF Local, OneArea, Working
<1>3. CASE Becomes(a, "gone", NoJob)
  BY <1>3, LocalOfNone DEF Becomes, Before
<1>4. ASSUME /\ job'[a].over = j.over /\ job'[a].ex = j.ex /\ job'[a].kept = j.kept
             /\ job'[a].drafts = j.drafts /\ job'[a].todo = j.todo /\ job'[a].cur = j.cur
             /\ job'[a].result = j.result
             /\ job'[a].step # NoRow /\ job'[a].step.over = j.over,
             at'[a] = "marking" => job'[a].step.verdict.of = job'[a].step.gen,
             at'[a] \in {"validating", "marking", "merging"}
      PROVE  Local(a)'
  <2>1. Idle(a)' /\ Explored(a)'
    BY <1>1, <1>4 DEF Local, Idle, Explored, Before, Loading
  <2>2. OverItsSteps(a)'
    BY <1>4 DEF Local, OverItsSteps
  <2>3. OneArea(a)'
    BY <1>4 DEF Local, OneArea, Working, AfterLoop
  <2>4. WritesItsStep(a)'
    BY <1>4 DEF Local, WritesItsStep
  <2>5. RestoredOnce(a)' /\ Advice(a)'
    BY <1>4 DEF Local, RestoredOnce, Advice, Loading
  <2> QED  BY <2>1, <2>2, <2>3, <2>4, <2>5 DEF Local
<1>5. j.step.over = j.over
  BY <1>2 DEF Local, OverItsSteps
<1>6. CASE SavesDraft(a, x)
  <2>1. \/ Becomes(a, "gone", NoJob)
        \/ Becomes(a, "validating", j)
        \/ Becomes(a, "validating", [j EXCEPT !.onDisk = TRUE])
    BY <1>6, SavesDraftShape
  <2> HIDE DEF j
  <2>2. CASE Becomes(a, "validating", j)
    BY <1>2, <1>4, <1>5, <2>2 DEF Becomes
  <2>3. CASE Becomes(a, "validating", [j EXCEPT !.onDisk = TRUE])
    <3>1. /\ job'[a].over = j.over /\ job'[a].ex = j.ex /\ job'[a].kept = j.kept
          /\ job'[a].drafts = j.drafts /\ job'[a].todo = j.todo /\ job'[a].cur = j.cur
          /\ job'[a].result = j.result /\ job'[a].step = j.step /\ at'[a] = "validating"
      BY <1>1, <2>3 DEF Becomes, Job
    <3> QED  BY <1>2, <1>4, <1>5, <3>1
  <2> QED  BY <1>3, <2>1, <2>2, <2>3
<1>7. CASE Validates(a, x)
  <2>1. \/ Becomes(a, "merging", j)
        \/ \E s \in Row : /\ s.gen = j.step.gen /\ s.verdict.of = j.step.gen
                          /\ s.over = j.step.over /\ s.by = j.step.by /\ s.id = j.step.id
                          /\ Becomes(a, "marking", [j EXCEPT !.step = s, !.used = j.used + 1])
    BY <1>7, ValidatesShape
  <2>2. CASE Becomes(a, "merging", j)
    BY <1>2, <1>4, <1>5, <2>2 DEF Becomes
  <2>3. ASSUME NEW s \in Row, s.gen = j.step.gen, s.verdict.of = j.step.gen,
               s.over = j.step.over, s.by = j.step.by,
               Becomes(a, "marking", [j EXCEPT !.step = s, !.used = j.used + 1])
        PROVE  Local(a)'
    <3> HIDE DEF j
    <3>1. /\ job'[a].over = j.over /\ job'[a].ex = j.ex /\ job'[a].kept = j.kept
          /\ job'[a].drafts = j.drafts /\ job'[a].todo = j.todo /\ job'[a].cur = j.cur
          /\ job'[a].result = j.result /\ job'[a].step = s /\ at'[a] = "marking"
      BY <1>1, <2>3 DEF Becomes, Job
    <3>2. s # NoRow
      <4>1. j.over # 0
        BY <1>1 DEF Local, Explored, Before, j
      <4> QED  BY <1>5, <2>3, <4>1, NoRowFields
    <3> QED  BY <1>4, <1>5, <2>3, <3>1, <3>2
  <2> QED  BY <2>1, <2>2, <2>3
<1>8. CASE Marks(a, x)
  <2>1. Becomes(a, "merging", j)
    BY <1>8, MarksShape
  <2> QED  BY <1>2, <1>4, <1>5, <2>1 DEF Becomes
<1> QED  BY <1>6, <1>7, <1>8

\* The end of an iteration, its area in the result or given up.
LEMMA NextLocal ==
  ASSUME Typed, NEW a \in Attempts, Local(a), at[a] \in Working,
         Becomes(a, "picking", [job[a] EXCEPT !.cur = {}, !.step = NoRow, !.onDisk = FALSE])
  PROVE  Local(a)'
<1> DEFINE j == job[a]
<1>1. j \in Job
  BY DEF Typed
<1> HIDE DEF j
<1>2. /\ job'[a].over = j.over /\ job'[a].ex = j.ex /\ job'[a].kept = j.kept
      /\ job'[a].drafts = j.drafts /\ job'[a].todo = j.todo /\ job'[a].result = j.result
      /\ job'[a].cur = {} /\ job'[a].step = NoRow /\ ~job'[a].onDisk
      /\ at'[a] = "picking"
  BY <1>1 DEF Becomes, Job, j
<1>3. Idle(a)' /\ Explored(a)'
  BY <1>2 DEF Local, Idle, Explored, Before, Loading, Working, j
<1>4. OverItsSteps(a)'
  BY <1>2 DEF Local, OverItsSteps, j
<1>5. OneArea(a)' /\ WritesItsStep(a)'
  BY <1>2 DEF OneArea, WritesItsStep, Working, AfterLoop
<1>6. RestoredOnce(a)' /\ Advice(a)'
  BY <1>2 DEF Local, RestoredOnce, Advice, Loading, j
<1> QED  BY <1>3, <1>4, <1>5, <1>6 DEF Local

\* A finding that joins the result.
LEMMA MergesLocal ==
  ASSUME Typed, NEW a \in Attempts, NEW x \in Areas, Local(a), Merges(a, x)
  PROVE  Local(a)'
<1> DEFINE j == job[a]
           s == MergedStep(a, x)
           res == [j.result EXCEPT ![x] = s]
<1>1. j \in Job /\ at[a] = "merging" /\ x \in j.cur
  BY DEF Typed, Merges
<1>2. s # NoRow /\ s.by = a /\ s.over = j.over
  <2>1. s # NoRow /\ s.by = a /\ s.over = j.step.over
    BY Merged
  <2>2. j.step # NoRow
    BY <1>1 DEF Local, OneArea, Working
  <2> QED  BY <2>1, <2>2 DEF Local, OverItsSteps
<1>3. res[x] = s /\ \A y \in Areas : y # x => res[y] = j.result[y]
  BY <1>1 DEF Job
<1>4. \/ /\ j.ex = Nobody
         /\ Becomes(a, "picking", [j EXCEPT !.cur = {}, !.step = NoRow,
                                            !.onDisk = FALSE, !.result = res])
      \/ /\ j.ex # Nobody
         /\ Becomes(a, "saving", [j EXCEPT !.step = s, !.result = res])
  BY MergesShape
<1> HIDE DEF j, s, res
<1>5. /\ job'[a].over = j.over /\ job'[a].ex = j.ex /\ job'[a].kept = j.kept
      /\ job'[a].drafts = j.drafts /\ job'[a].todo = j.todo /\ job'[a].result = res
      /\ \/ /\ at'[a] = "picking" /\ job'[a].cur = {} /\ job'[a].step = NoRow
            /\ ~job'[a].onDisk
         \/ /\ at'[a] = "saving" /\ job'[a].cur = j.cur /\ job'[a].step = s
            /\ j.ex # Nobody
  BY <1>1, <1>4 DEF Becomes, Job
<1>6. Idle(a)' /\ Explored(a)'
  BY <1>1, <1>5 DEF Local, Idle, Explored, Before, Loading, j
<1>7. OverItsSteps(a)'
  BY <1>2, <1>3, <1>5 DEF Local, OverItsSteps, j
<1>8. OneArea(a)'
  BY <1>2, <1>5 DEF Local, OneArea, Working, AfterLoop, j
<1>9. WritesItsStep(a)'
  <2>1. \A y \in j.cur : y = x
    BY <1>1 DEF Local, OneArea, j
  <2> QED  BY <1>2, <1>3, <1>5, <2>1 DEF WritesItsStep
<1>10. RestoredOnce(a)' /\ Advice(a)'
  BY <1>5 DEF Local, RestoredOnce, Advice, Loading, j
<1> QED  BY <1>6, <1>7, <1>8, <1>9, <1>10 DEF Local

\* A checkpoint, and the draft it replaces.
LEMMA SaveLocal ==
  ASSUME Typed, NEW a \in Attempts, NEW x \in Areas, Local(a),
         SavesArea(a, x) \/ DiscardsDraft(a, x)
  PROVE  Local(a)'
<1> DEFINE j == job[a]
<1>1. at[a] \in {"saving", "discarding"} /\ at[a] \in Working
  BY DEF SavesArea, DiscardsDraft, Working
<1>2. \/ Becomes(a, "discarding", j) /\ at[a] = "saving"
      \/ Becomes(a, "gone", NoJob)
      \/ Becomes(a, "picking", [j EXCEPT !.cur = {}, !.step = NoRow, !.onDisk = FALSE])
  BY SavesAreaShape, DiscardsShape DEF SavesArea
<1>3. CASE Becomes(a, "discarding", j) /\ at[a] = "saving"
  <2>1. at'[a] = "discarding" /\ at[a] = "saving" /\ job'[a] = job[a]
    BY <1>3 DEF Becomes
  <2>2. Idle(a)' /\ Explored(a)' /\ OverItsSteps(a)'
    BY <2>1 DEF Local, Idle, Explored, OverItsSteps, Before, Loading
  <2>3. OneArea(a)' /\ WritesItsStep(a)'
    BY <2>1 DEF Local, OneArea, WritesItsStep, Working, AfterLoop
  <2>4. RestoredOnce(a)' /\ Advice(a)'
    BY <2>1 DEF Local, RestoredOnce, Advice, Loading
  <2> QED  BY <2>2, <2>3, <2>4 DEF Local
<1>4. CASE Becomes(a, "gone", NoJob)
  BY <1>4, LocalOfNone DEF Becomes, Before
<1> QED  BY <1>1, <1>2, <1>3, <1>4, NextLocal

\* The loop is over; the recommendations are made, and stored.
LEMMA AdviceLocal ==
  ASSUME Typed, NEW a \in Attempts, Local(a),
         EndsLoop(a) \/ Recommends(a) \/ StoresRecs(a)
  PROVE  Local(a)'
<1> DEFINE j == job[a]
<1>1. j \in Job /\ at[a] \in {"picking", "recommending", "storing"}
  BY DEF Typed, EndsLoop, Recommends, StoresRecs
<1>2. j.cur = {} /\ j.step = NoRow /\ ~j.onDisk /\ j.todo = {}
  <2>1. at[a] = "picking" => j.todo = {}
    BY DEF EndsLoop, Recommends, StoresRecs
  <2> QED  BY <1>1, <2>1 DEF Local, OneArea, Working, AfterLoop
<1>3. ASSUME /\ job'[a].over = j.over /\ job'[a].ex = j.ex
             /\ job'[a].kept = j.kept \/ job'[a].kept = NoRows
             /\ job'[a].drafts = j.drafts \/ job'[a].drafts = NoRows
             /\ job'[a].todo = j.todo /\ job'[a].cur = j.cur /\ job'[a].result = j.result
             /\ job'[a].step = j.step /\ job'[a].onDisk = j.onDisk,
             at'[a] \in AfterLoop,
             at'[a] # "recommending" => job'[a].recs.gens = Generation(a)
      PROVE  Local(a)'
  <2>1. Idle(a)' /\ Explored(a)'
    BY <1>1, <1>3 DEF Local, Idle, Explored, Before, Loading, AfterLoop
  <2>2. OverItsSteps(a)'
    BY <1>3, NoRowFields DEF Local, OverItsSteps
  <2>3. OneArea(a)'
    BY <1>2, <1>3 DEF Local, OneArea, Working, AfterLoop
  <2>4. WritesItsStep(a)'
    BY <1>3 DEF Local, WritesItsStep, AfterLoop
  <2>5. RestoredOnce(a)'
    BY <1>3, NoRowFields DEF Local, RestoredOnce, Loading, AfterLoop
  <2>6. Advice(a)'
    <3>1. Generation(a)' = Generation(a)
      BY <1>3 DEF Generation, Eligible
    <3> QED  BY <1>3, <3>1 DEF Advice
  <2> QED  BY <2>1, <2>2, <2>3, <2>4, <2>5, <2>6 DEF Local
<1>4. CASE EndsLoop(a)
  <2>1. Becomes(a, "recommending", [j EXCEPT !.drafts = NoRows, !.used = 0])
    BY <1>4, EndsLoopShape
  <2> HIDE DEF j
  <2> QED  BY <1>1, <1>3, <2>1 DEF Becomes, Job, AfterLoop
<1>5. CASE Recommends(a)
  <2>1. PICK r \in Recs, pc \in {"finished", "storing"} :
          Becomes(a, pc, [j EXCEPT !.recs = r, !.kept = NoRows]) /\ r.gens = Generation(a)
    BY <1>5, RecommendsShape
  <2> HIDE DEF j
  <2> QED  BY <1>1, <1>3, <2>1 DEF Becomes, Job, AfterLoop
<1>6. CASE StoresRecs(a)
  <2>1. Becomes(a, "finished", j)
    BY <1>6, StoresRecsShape
  <2>2. j.recs.gens = Generation(a)
    BY <1>6 DEF StoresRecs, Local, Advice
  <2> QED  BY <1>3, <2>1, <2>2 DEF Becomes, AfterLoop
<1> QED  BY <1>4, <1>5, <1>6

\* Every step of an agent.
LEMMA AgentLocal ==
  ASSUME Typed, NEW a \in Attempts, Local(a), owner = a => summary <= a, AgentStep(a)
  PROVE  /\ Local(a)' /\ Others(a)
         /\ at[a] \notin {"none", "gone", "finished"} /\ at'[a] # "none"
<1>1. CASE LosesRun(a)
  <2>1. Becomes(a, "gone", NoJob)
    BY <1>1, StopsShape DEF LosesRun
  <2> QED  BY <1>1, <2>1, LocalOfNone DEF Becomes, Before, LosesRun
<1>2. CASE SkipsExploration(a) \/ Explores(a)
  <2>1. Local(a)'
    BY <1>2, StartLocal DEF SkipsExploration, Explores, Owns
  <2> QED  BY <1>2, <2>1, SkipsShape, ExploresShape DEF Becomes, SkipsExploration, Explores
<1>3. CASE LoadsAreas(a) \/ LoadsDrafts(a)
  <2>1. Local(a)'
    BY <1>3, LoadLocal
  <2> QED  BY <1>3, <2>1, LoadsAreasShape, LoadsDraftsShape
           DEF Becomes, LoadsAreas, LoadsDrafts
<1>4. CASE EndsLoop(a) \/ Recommends(a) \/ StoresRecs(a)
  <2>1. Local(a)'
    BY <1>4, AdviceLocal
  <2>2. \E pc \in {"recommending", "storing", "finished"}, j \in Job : Becomes(a, pc, j)
    BY <1>4, EndsLoopShape, RecommendsShape, StoresRecsShape DEF Becomes, Typed
  <2> QED  BY <1>4, <2>1, <2>2 DEF Becomes, EndsLoop, Recommends, StoresRecs
<1>5. CASE \E x \in Areas : AreaStep(a, x)
  <2>1. PICK x \in Areas : AreaStep(a, x)
    BY <1>5
  <2>2. Local(a)'
    BY <2>1, PickLocal, StepLocal, MergesLocal, SaveLocal DEF AreaStep
  <2>3. at[a] \in {"picking"} \cup Working
    BY <2>1 DEF AreaStep, RestoresArea, RestoresDraft, Analyses, SavesDraft, Validates, Marks,
                Merges, SavesArea, DiscardsDraft, Working
  <2>4. \E pc \in {"picking", "gone"} \cup Working : at'[a] = pc /\ Others(a)
    <3>1. CASE RestoresArea(a, x) \/ RestoresDraft(a, x) \/ Analyses(a, x)
      BY <3>1, RestoresAreaShape, RestoresDraftShape, AnalysesShape DEF Becomes, Working
    <3>2. CASE SavesDraft(a, x) \/ Validates(a, x) \/ Marks(a, x)
      BY <3>2, SavesDraftShape, ValidatesShape, MarksShape DEF Becomes, Working
    <3>3. CASE Merges(a, x) \/ SavesArea(a, x) \/ DiscardsDraft(a, x)
      BY <3>3, MergesShape, SavesAreaShape, DiscardsShape DEF Becomes, Working
    <3> QED  BY <2>1, <3>1, <3>2, <3>3 DEF AreaStep
  <2> QED  BY <2>2, <2>3, <2>4 DEF Working
<1> QED  BY <1>1, <1>2, <1>3, <1>4, <1>5 DEF AgentStep

-----------------------------------------------------------------------------
(* The order of the attempts.                                              *)

\* Only the owner's predecessors and the owner have set out; what is stored
\* is by one of these, and over an exploration of theirs.
Order ==
  /\ at[owner] \notin {"none", "gone"}
  /\ at[owner] # "starting" => job[owner].ex = summary
  /\ summary <= owner
  /\ \A a \in Attempts : a > owner => at[a] = "none"
  /\ \A x \in Areas : /\ area[x].by <= owner /\ area[x].over <= owner
                      /\ draft[x].by <= owner /\ draft[x].over <= owner
  /\ at[owner] = "starting" =>
       \A x \in Areas : area[x].over # owner /\ draft[x].over # owner

AnalysisInv == Typed /\ (\A a \in Attempts : Local(a)) /\ Order

\* An agent writes its own finding, or marks a draft; what it stores of an
\* area it works on is all that it leaves behind.
LEMMA WritesItsOwn ==
  ASSUME Typed, NEW a \in Attempts, AgentStep(a)
  PROVE  /\ owner' = owner
         /\ \A x \in Areas :
              /\ \/ area'[x] = area[x]
                 \/ at[a] = "saving" /\ x \in job[a].cur /\ area'[x] = job[a].step
              /\ \/ draft'[x] = draft[x]
                 \/ at[a] = "drafting" /\ x \in job[a].cur /\ draft'[x] = job[a].step
                 \/ at[a] = "discarding" /\ x \in job[a].cur /\ draft'[x] = NoRow
                 \/ /\ at[a] = "marking" /\ x \in job[a].cur /\ MayMark(a, x)
                    /\ draft'[x].by = draft[x].by /\ draft'[x].over = draft[x].over
                    /\ draft'[x].gen = draft[x].gen
                    /\ draft'[x].verdict = job[a].step.verdict
<1>1. CASE UNCHANGED <<owner, store>>
  BY <1>1 DEF store
<1>3. CASE \E y \in Areas : SavesDraft(a, y)
  <2>1. PICK y \in Areas : SavesDraft(a, y)
    BY <1>3
  <2>2. PutDraft(a, y) \/ UNCHANGED store
    BY <2>1 DEF SavesDraft
  <2>3. owner' = owner /\ at[a] = "drafting" /\ y \in job[a].cur
    BY <2>1 DEF SavesDraft
  <2> QED  BY <2>2, <2>3, PutRow DEF store
<1>4. CASE \E y \in Areas : SavesArea(a, y)
  <2>1. PICK y \in Areas : SavesArea(a, y)
    BY <1>4
  <2>2. PutArea(a, y) \/ UNCHANGED store
    BY <2>1 DEF SavesArea
  <2>3. owner' = owner /\ at[a] = "saving" /\ y \in job[a].cur
    BY <2>1 DEF SavesArea
  <2> QED  BY <2>2, <2>3, PutRow DEF store
<1>5. CASE \E y \in Areas : Marks(a, y)
  <2>1. PICK y \in Areas : Marks(a, y)
    BY <1>5
  <2>2. \/ draft' = draft
        \/ MayMark(a, y) /\ draft' = [draft EXCEPT ![y].verdict = job[a].step.verdict]
    BY <2>1 DEF Marks
  <2>3. owner' = owner /\ area' = area /\ at[a] = "marking" /\ y \in job[a].cur
    BY <2>1 DEF Marks
  <2>4. job[a].step.verdict \in Verdict
    BY StepType
  <2>5. CASE draft' = draft
    BY <2>3, <2>5
  <2>6. CASE MayMark(a, y) /\ draft' = [draft EXCEPT ![y].verdict = job[a].step.verdict]
    <3>1. /\ draft'[y].by = draft[y].by /\ draft'[y].over = draft[y].over
          /\ draft'[y].gen = draft[y].gen /\ draft'[y].verdict = job[a].step.verdict
          /\ \A x \in Areas : x # y => draft'[x] = draft[x]
      BY <2>4, <2>6, MarkedRow
    <3> QED  BY <2>3, <2>6, <3>1
  <2> QED  BY <2>2, <2>5, <2>6
<1>6. CASE \E y \in Areas : DiscardsDraft(a, y)
  <2>1. PICK y \in Areas : DiscardsDraft(a, y)
    BY <1>6
  <2>2. draft' = draft \/ draft' = [draft EXCEPT ![y] = NoRow]
    BY <2>1 DEF DiscardsDraft
  <2>3. owner' = owner /\ area' = area /\ at[a] = "discarding" /\ y \in job[a].cur
    BY <2>1 DEF DiscardsDraft
  <2> QED  BY <2>2, <2>3 DEF Typed
<1>7. CASE StoresRecs(a)
  BY <1>7 DEF StoresRecs
<1>8. \/ UNCHANGED <<owner, store>>
      \/ \E y \in Areas : SavesDraft(a, y) \/ SavesArea(a, y) \/ Marks(a, y) \/ DiscardsDraft(a, y)
      \/ StoresRecs(a)
  <2>1. ASSUME NEW y \in Areas, AreaStep(a, y)
        PROVE  \/ UNCHANGED <<owner, store>>
               \/ SavesDraft(a, y) \/ SavesArea(a, y) \/ Marks(a, y) \/ DiscardsDraft(a, y)
    BY <2>1 DEF AreaStep, RestoresArea, RestoresDraft, Analyses, Validates, Merges
  <2>2. CASE \E y \in Areas : AreaStep(a, y)
    BY <2>1, <2>2
  <2>3. CASE \/ SkipsExploration(a) \/ Explores(a) \/ LoadsAreas(a) \/ LoadsDrafts(a)
             \/ LosesRun(a) \/ EndsLoop(a) \/ Recommends(a)
    BY <2>3 DEF SkipsExploration, Explores, LoadsAreas, LoadsDrafts, LosesRun, EndsLoop,
                Recommends
  <2> QED  BY <2>2, <2>3 DEF AgentStep
<1> QED  BY <1>1, <1>3, <1>4, <1>5, <1>6, <1>7, <1>8

\* The exploration and its summary are settled at the start of an attempt, by
\* the owner.
LEMMA SettledAtStart ==
  ASSUME Typed, NEW a \in Attempts, AgentStep(a)
  PROVE  \/ /\ summary' = summary
            /\ at'[a] = "gone" \/ (job'[a].ex = job[a].ex /\ job'[a].over = job[a].over)
            /\ at'[a] # "starting"
            /\ at[a] = "starting" => owner # a
            /\ at'[a] = "gone" => owner # a \/ \E x \in job[a].cur \cap Areas :
                                    area[x].by > a \/ draft[x].by > a
            /\ at[a] # "none"
         \/ /\ at[a] = "starting" /\ owner = a
            /\ job'[a].ex = summary'
            /\ summary' \in {summary, Nobody, a}
            /\ at'[a] \in {"areas", "picking"}
<1> DEFINE Late == owner # a \/ \E x \in job[a].cur \cap Areas :
                                  area[x].by > a \/ draft[x].by > a
           Settled == /\ summary' = summary
                      /\ at'[a] = "gone" \/ (job'[a].ex = job[a].ex /\ job'[a].over = job[a].over)
                      /\ at'[a] # "starting"
                      /\ at[a] = "starting" => owner # a
                      /\ at'[a] = "gone" => Late
                      /\ at[a] # "none"
<1>1. CASE SkipsExploration(a)
  <2>1. Becomes(a, "areas", [job[a] EXCEPT !.over = summary, !.ex = summary])
    BY <1>1, SkipsShape
  <2>2. job[a] \in Job
    BY DEF Typed
  <2> QED  BY <1>1, <2>1, <2>2 DEF Becomes, SkipsExploration, Owns, Job
<1>2. CASE Explores(a)
  <2>1. Becomes(a, "picking", [job[a] EXCEPT !.over = a, !.ex = summary'])
        /\ summary' \in {a, Nobody}
    BY <1>2, ExploresShape
  <2>2. job[a] \in Job
    BY DEF Typed
  <2> QED  BY <1>2, <2>1, <2>2 DEF Becomes, Explores, Owns, Job
<1>3. CASE LosesRun(a)
  <2>1. Becomes(a, "gone", NoJob)
    BY <1>3, StopsShape DEF LosesRun
  <2> QED  BY <1>3, <2>1 DEF Becomes, LosesRun, Owns
<1>4. CASE LoadsAreas(a) \/ LoadsDrafts(a)
  <2>1. job[a] \in Job /\ summary' = summary /\ at[a] \in {"areas", "drafts"}
    BY <1>4 DEF LoadsAreas, LoadsDrafts, Typed
  <2>2. at'[a] \in {"drafts", "picking"} /\ job'[a].ex = job[a].ex /\ job'[a].over = job[a].over
    BY <1>4, <2>1, LoadsAreasShape, LoadsDraftsShape DEF Becomes, Job
  <2> QED  BY <2>1, <2>2
<1>5. CASE EndsLoop(a) \/ Recommends(a) \/ StoresRecs(a)
  <2>1. job[a] \in Job /\ summary' = summary /\ at[a] \in {"picking", "recommending", "storing"}
    BY <1>5 DEF EndsLoop, Recommends, StoresRecs, Typed
  <2>2. at'[a] \in AfterLoop /\ job'[a].ex = job[a].ex /\ job'[a].over = job[a].over
    <3>1. CASE EndsLoop(a)
      BY <2>1, <3>1, EndsLoopShape DEF Becomes, Job, AfterLoop
    <3>2. CASE Recommends(a)
      BY <2>1, <3>2, RecommendsShape DEF Becomes, Job, AfterLoop
    <3>3. CASE StoresRecs(a)
      BY <3>3, StoresRecsShape DEF Becomes, AfterLoop
    <3> QED  BY <1>5, <3>1, <3>2, <3>3
  <2> QED  BY <2>1, <2>2 DEF AfterLoop
<1>6. CASE \E x \in Areas : AreaStep(a, x)
  <2>1. PICK x \in Areas : AreaStep(a, x)
    BY <1>6
  <2>2. job[a] \in Job /\ summary' = summary /\ at[a] \notin {"starting", "none"}
    BY <2>1 DEF AreaStep, RestoresArea, RestoresDraft, Analyses, SavesDraft, Validates, Marks,
                Merges, SavesArea, DiscardsDraft, Typed
  <2>3. CASE RestoresArea(a, x) \/ RestoresDraft(a, x) \/ Analyses(a, x)
    <3>1. /\ at'[a] \in {"picking", "validating", "drafting"}
          /\ job'[a].ex = job[a].ex /\ job'[a].over = job[a].over
      <4>1. CASE RestoresArea(a, x)
        BY <2>2, <4>1, RestoresAreaShape DEF Becomes, Job
      <4>2. CASE RestoresDraft(a, x)
        <5> DEFINE j == job[a]
        <5>1. Becomes(a, "validating", [j EXCEPT !.todo = j.todo \ {x}, !.cur = {x},
                                                 !.step = j.drafts[x], !.onDisk = TRUE])
          BY <4>2, RestoresDraftShape
        <5> HIDE DEF j
        <5>2. job'[a].ex = j.ex /\ job'[a].over = j.over /\ at'[a] = "validating"
          BY <2>2, <5>1 DEF Becomes, Job, j
        <5> QED  BY <5>2 DEF j
      <4>3. CASE Analyses(a, x)
        <5> DEFINE j == job[a]
                   r == Analysed(a)
        <5>1. \/ Becomes(a, "picking", [j EXCEPT !.todo = j.todo \ {x}])
              \/ \E pc \in {"validating", "drafting"} :
                   Becomes(a, pc, [j EXCEPT !.todo = j.todo \ {x}, !.cur = {x},
                                            !.onDisk = FALSE, !.step = r])
          BY <4>3, AnalysesShape
        <5> HIDE DEF j, r
        <5>2. /\ job'[a].ex = j.ex /\ job'[a].over = j.over
              /\ at'[a] \in {"picking", "validating", "drafting"}
          BY <2>2, <5>1 DEF Becomes, Job, j
        <5> QED  BY <5>2 DEF j
      <4> QED  BY <2>3, <4>1, <4>2, <4>3
    <3> QED  BY <2>2, <3>1
  <2>4. CASE Validates(a, x) \/ Marks(a, x) \/ Merges(a, x) \/ DiscardsDraft(a, x)
    <3>1. /\ at'[a] \in {"picking", "marking", "merging", "saving"}
          /\ job'[a].ex = job[a].ex /\ job'[a].over = job[a].over
      <4>1. CASE Validates(a, x)
        <5> DEFINE j == job[a]
        <5>1. \/ Becomes(a, "merging", j)
              \/ \E s \in Row : Becomes(a, "marking", [j EXCEPT !.step = s, !.used = j.used + 1])
          BY <4>1, ValidatesShape
        <5> HIDE DEF j
        <5>2. /\ job'[a].ex = j.ex /\ job'[a].over = j.over
              /\ at'[a] \in {"merging", "marking"}
          BY <2>2, <5>1 DEF Becomes, Job, j
        <5> QED  BY <5>2 DEF j
      <4>2. CASE Marks(a, x)
        BY <4>2, MarksShape DEF Becomes
      <4>3. CASE Merges(a, x)
        <5> DEFINE j == job[a]
                   s == MergedStep(a, x)
                   res == [j.result EXCEPT ![x] = s]
        <5>1. \/ Becomes(a, "picking", [j EXCEPT !.cur = {}, !.step = NoRow,
                                                 !.onDisk = FALSE, !.result = res])
              \/ Becomes(a, "saving", [j EXCEPT !.step = s, !.result = res])
          BY <4>3, MergesShape
        <5> HIDE DEF j, s, res
        <5>2. /\ job'[a].ex = j.ex /\ job'[a].over = j.over
              /\ at'[a] \in {"picking", "saving"}
          BY <2>2, <5>1 DEF Becomes, Job, j
        <5> QED  BY <5>2 DEF j
      <4>4. CASE DiscardsDraft(a, x)
        BY <2>2, <4>4, DiscardsShape DEF Becomes, Job
      <4> QED  BY <2>4, <4>1, <4>2, <4>3, <4>4
    <3> QED  BY <2>2, <3>1
  <2>5. CASE SavesDraft(a, x) \/ SavesArea(a, x)
    <3>1. \/ /\ at'[a] \in {"picking", "validating", "discarding"}
             /\ job'[a].ex = job[a].ex /\ job'[a].over = job[a].over
          \/ at'[a] = "gone" /\ (Refused(draft, a, x) \/ Refused(area, a, x))
      <4>1. CASE SavesDraft(a, x)
        BY <2>2, <4>1, SavesDraftShape DEF Becomes, Job
      <4>2. CASE SavesArea(a, x)
        BY <2>2, <4>2, SavesAreaShape DEF Becomes, Job
      <4> QED  BY <2>5, <4>1, <4>2
    <3>2. x \in job[a].cur
      BY <2>5 DEF SavesDraft, SavesArea
    <3> QED  BY <2>2, <3>1, <3>2 DEF Refused
  <2> QED  BY <2>1, <2>3, <2>4, <2>5 DEF AreaStep
<1> QED  BY <1>1, <1>2, <1>3, <1>4, <1>5, <1>6 DEF AgentStep

\* A step of an agent keeps the order.
LEMMA AgentOrder ==
  ASSUME AnalysisInv, NEW a \in Attempts, AgentStep(a)
  PROVE  Order'
<1>1. Typed /\ Local(a) /\ Order /\ a <= owner /\ owner \in Attempts /\ summary \in 0..MaxAttempt
  <2>1. at[a] # "none"
    BY SettledAtStart DEF AnalysisInv
  <2> QED  BY <2>1 DEF AnalysisInv, Order, Typed
<1>2. Others(a) /\ owner' = owner /\ at'[a] # "none"
  BY <1>1, AgentLocal, WritesItsOwn DEF Order
<1>3. at'[owner] \notin {"none", "gone"}
  <2>1. CASE a = owner
    <3>1. at'[a] # "gone"
      <4>1. \A x \in Areas : area[x] \in Row /\ draft[x] \in Row
        BY <1>1 DEF Typed
      <4>2. \A x \in Areas : area[x].by \in Nat /\ draft[x].by \in Nat
        BY <4>1 DEF Row
      <4>3. \A x \in Areas : ~(area[x].by > a) /\ ~(draft[x].by > a)
        BY <1>1, <2>1, <4>2 DEF Order
      <4>4. at'[a] = "gone" => owner # a \/ \E x \in Areas : area[x].by > a \/ draft[x].by > a
        BY <1>1, SettledAtStart
      <4> QED  BY <2>1, <4>3, <4>4
    <3> QED  BY <1>2, <2>1, <3>1
  <2>2. CASE a # owner
    BY <1>1, <1>2, <2>2 DEF Others, Order
  <2> QED  BY <2>1, <2>2
<1>4. summary' <= owner /\ (a # owner => summary' = summary)
  BY <1>1, SettledAtStart DEF Order
<1>5. at'[owner] # "starting" => job'[owner].ex = summary'
  <2>1. CASE a = owner
    BY <1>1, <1>3, <2>1, SettledAtStart DEF Order
  <2>2. CASE a # owner
    BY <1>1, <1>2, <1>4, <2>2 DEF Others, Order
  <2> QED  BY <2>1, <2>2
<1>6. \A b \in Attempts : b > owner => at'[b] = "none"
  BY <1>1, <1>2 DEF Others, Order
<1>7. at[a] \in {"saving", "drafting"} => /\ job[a].step.by = a /\ job[a].step.over = job[a].over
                                          /\ job[a].over <= a
  BY <1>1 DEF Local, WritesItsStep, OneArea, OverItsSteps, Explored, Working
<1>8. ASSUME NEW x \in Areas
      PROVE  /\ area'[x].by <= owner /\ area'[x].over <= owner
             /\ draft'[x].by <= owner /\ draft'[x].over <= owner
             /\ at'[owner] = "starting" => area'[x].over # owner /\ draft'[x].over # owner
  <2>1. at'[owner] = "starting" => a < owner /\ at[owner] = "starting"
    <3>1. at'[a] # "starting"
      BY <1>1, SettledAtStart
    <3> QED  BY <1>1, <1>2, <3>1 DEF Others
  <2>2. job[a].over \in 0..MaxAttempt
    BY <1>1 DEF Typed, Job
  <2>3. /\ area'[x].by <= owner /\ area'[x].over <= owner
        /\ at'[owner] = "starting" => area'[x].over # owner
    <3>1. CASE area'[x] = area[x]
      BY <1>1, <2>1, <3>1 DEF Order
    <3>2. CASE at[a] = "saving" /\ area'[x] = job[a].step
      BY <1>1, <1>7, <2>1, <2>2, <3>2
    <3> QED  BY <1>1, <3>1, <3>2, WritesItsOwn
  <2>4. /\ draft'[x].by <= owner /\ draft'[x].over <= owner
        /\ at'[owner] = "starting" => draft'[x].over # owner
    <3>1. CASE draft'[x].by = draft[x].by /\ draft'[x].over = draft[x].over
      BY <1>1, <2>1, <3>1 DEF Order
    <3>2. CASE at[a] = "drafting" /\ draft'[x] = job[a].step
      BY <1>1, <1>7, <2>1, <2>2, <3>2
    <3>3. CASE draft'[x] = NoRow
      BY <1>1, <3>3, NoRowFields
    <3> QED  BY <1>1, <3>1, <3>2, <3>3, WritesItsOwn
  <2> QED  BY <2>3, <2>4
<1> QED  BY <1>2, <1>3, <1>4, <1>5, <1>6, <1>8 DEF Order

\* So does a takeover.
LEMMA ResumesInv ==
  ASSUME AnalysisInv, Resumes
  PROVE  AnalysisInv'
<1>1. Typed /\ Order /\ \A b \in Attempts : Local(b)
  BY DEF AnalysisInv
<1>2. UNCHANGED <<summary, area, draft>>
  BY DEF Resumes, store
<1>3. owner \in Attempts /\ owner' = owner + 1 /\ owner' \in Attempts /\ at[owner'] = "none"
  <2>1. owner \in Attempts /\ owner' = owner + 1 /\ owner' \in Attempts
    BY <1>1, ResumesShape DEF Typed
  <2> QED  BY <1>1, <2>1 DEF Order
<1>4. ASSUME NEW b \in Attempts PROVE Local(b)'
  <2>1. CASE b = owner'
    <3>1. job'[b] = NoJob /\ at'[b] \in Before
      BY <1>1, <1>3, <2>1, ResumesShape DEF Local, Idle, Before
    <3> QED  BY <3>1, LocalOfNone
  <2>2. CASE b # owner'
    BY <1>1, <2>2, ResumesShape, LocalOfAgent, LocalOfNone DEF Before
  <2> QED  BY <2>1, <2>2
<1>5. Order'
  <2>1. at'[owner'] = "starting" /\ summary' <= owner'
    BY <1>1, <1>2, <1>3, ResumesShape DEF Order, Typed
  <2>2. \A b \in Attempts : b > owner' => at'[b] = "none"
    <3> SUFFICES ASSUME NEW b \in Attempts, b > owner' PROVE at'[b] = "none"
      OBVIOUS
    <3>1. b > owner /\ b \notin {c \in Attempts : c < owner \/ (c = owner /\ at[c] = "finished")}
      BY <1>3
    <3>2. at[b] = "none" /\ b # owner + 1
      BY <1>1, <1>3, <3>1 DEF Order
    <3> QED  BY <3>1, <3>2 DEF Resumes
  <2>3. ASSUME NEW x \in Areas
        PROVE  /\ area'[x].by <= owner' /\ area'[x].over < owner'
               /\ draft'[x].by <= owner' /\ draft'[x].over < owner'
    <3>1. area[x] \in Row /\ draft[x] \in Row
      BY <1>1 DEF Typed
    <3>2. /\ area[x].by \in Nat /\ area[x].over \in Nat
          /\ draft[x].by \in Nat /\ draft[x].over \in Nat
      BY <3>1 DEF Row
    <3>3. /\ area[x].by <= owner /\ area[x].over <= owner
          /\ draft[x].by <= owner /\ draft[x].over <= owner
      BY <1>1 DEF Order
    <3> QED  BY <1>2, <1>3, <3>2, <3>3
  <2>4. ASSUME NEW x \in Areas
        PROVE  /\ area'[x].over <= owner' /\ draft'[x].over <= owner'
               /\ area'[x].over # owner' /\ draft'[x].over # owner'
    <3>1. area'[x] \in Row /\ draft'[x] \in Row
      BY <1>1, <1>2 DEF Typed
    <3>2. area'[x].over \in Nat /\ draft'[x].over \in Nat
      BY <3>1 DEF Row
    <3> QED  BY <1>3, <2>3, <3>2
  <2> QED  BY <2>1, <2>2, <2>3, <2>4 DEF Order
<1>6. Typed'
  BY <1>1, ResumesShape
<1> QED  BY <1>4, <1>5, <1>6 DEF AnalysisInv

\* An agent's step keeps the invariant.
LEMMA AgentInv ==
  ASSUME AnalysisInv, NEW a \in Attempts, AgentStep(a)
  PROVE  AnalysisInv'
<1>1. Typed /\ Order /\ \A b \in Attempts : Local(b)
  BY DEF AnalysisInv
<1>2. owner = a => summary <= a
  BY <1>1 DEF Order
<1>3. Typed' /\ Order'
  BY <1>1, AgentStepTyped, AgentOrder
<1>4. Local(a)' /\ Others(a)
  BY <1>1, <1>2, AgentLocal
<1>5. ASSUME NEW b \in Attempts PROVE Local(b)'
  <2>1. CASE b = a
    BY <1>4, <2>1
  <2>2. CASE b # a
    BY <1>1, <1>4, <2>2, LocalOfAgent DEF Others
  <2> QED  BY <2>1, <2>2
<1> QED  BY <1>3, <1>5 DEF AnalysisInv

\* The invariant is inductive.
THEOREM AnalysisInvariant == Spec => []AnalysisInv
<1>1. Init => AnalysisInv
  <2> SUFFICES ASSUME Init PROVE AnalysisInv
    OBVIOUS
  <2>1. Typed
    <3>1. owner \in Attempts /\ summary \in 0..MaxAttempt /\ faults \in 0..MaxFaults
      BY DEF Init
    <3>2. at \in [Attempts -> Places] /\ job \in [Attempts -> Job]
      BY NoTypes DEF Init, Places
    <3>3. area \in [Areas -> Row] /\ draft \in [Areas -> Row] /\ recs \in Recs
      BY NoTypes DEF Init
    <3> QED  BY <3>1, <3>2, <3>3 DEF Init, Typed
  <2>2. ASSUME NEW b \in Attempts PROVE Local(b)
    BY NoJobFields, NoRowFields
       DEF Init, Local, Idle, Explored, OverItsSteps, OneArea, WritesItsStep, RestoredOnce,
           Advice, Before, Loading, Working, AfterLoop
  <2>3. Order
    BY NoRowFields DEF Init, Order
  <2> QED  BY <2>1, <2>2, <2>3 DEF AnalysisInv
<1>2. AnalysisInv /\ [Next]_vars => AnalysisInv'
  <2> SUFFICES ASSUME AnalysisInv, [Next]_vars PROVE AnalysisInv'
    OBVIOUS
  <2>1. CASE UNCHANGED vars
    <3>1. Typed'
      BY <2>1 DEF vars, store, AnalysisInv, Typed
    <3>2. ASSUME NEW b \in Attempts PROVE Local(b)'
      BY <2>1, LocalOfAgent DEF vars, AnalysisInv
    <3>3. Order'
      BY <2>1 DEF vars, store, AnalysisInv, Order
    <3> QED  BY <3>1, <3>2, <3>3 DEF AnalysisInv
  <2> QED  BY <2>1, ResumesInv, AgentInv DEF Next
<1> QED  BY <1>1, <1>2, PTL DEF Spec

-----------------------------------------------------------------------------
(* What each step of an agent leaves in its memory and in the store.       *)

SameRun        == owner' = owner /\ summary' = summary
SameStore      == area' = area /\ draft' = draft
SameHistory    == faults' = faults /\ late' = late /\ paid' = paid
SameOver(a)    == job'[a].over = job[a].over /\ job'[a].ex = job[a].ex
SameLoaded(a)  == job'[a].kept = job[a].kept /\ job'[a].drafts = job[a].drafts
SameArea(a)    == /\ job'[a].cur = job[a].cur /\ job'[a].step = job[a].step
                  /\ job'[a].onDisk = job[a].onDisk
NoArea(a)      == job'[a].cur = {} /\ job'[a].step = NoRow /\ ~job'[a].onDisk
SameResult(a)  == job'[a].result = job[a].result
SameTodo(a)    == job'[a].todo = job[a].todo
SameUsed(a)    == job'[a].used = job[a].used
SameJob(a)     == /\ SameOver(a) /\ SameLoaded(a) /\ SameArea(a)
                  /\ SameResult(a) /\ SameTodo(a) /\ SameUsed(a)
Leaves(a, x)   == job'[a].todo = job[a].todo \ {x}
Wrote(a)       == late' = (late \/ owner # a)

\* An agent that stops leaves nothing behind.
Gone(a) == at'[a] = "gone" /\ job'[a] = NoJob /\ SameStore /\ SameHistory

\* A resume that skips exploration.
LEMMA SkipsFields ==
  ASSUME Typed, NEW a \in Attempts, SkipsExploration(a)
  PROVE  /\ at[a] = "starting" /\ at'[a] = "areas" /\ owner = a /\ summary # Nobody
         /\ job'[a].over = summary /\ job'[a].ex = summary
         /\ SameLoaded(a) /\ SameArea(a) /\ SameResult(a) /\ SameTodo(a) /\ SameUsed(a)
         /\ SameRun /\ SameStore /\ SameHistory /\ Others(a)
<1> DEFINE j == job[a]
<1>1. j \in Job
  BY DEF Typed
<1>2. Becomes(a, "areas", [j EXCEPT !.over = summary, !.ex = summary])
  BY SkipsShape
<1>3. /\ at[a] = "starting" /\ owner = a /\ summary # Nobody
      /\ SameRun /\ SameStore /\ SameHistory
  BY DEF SkipsExploration, Owns, SameRun, SameStore, SameHistory, store
<1> HIDE DEF j
<1> QED
  BY <1>1, <1>2, <1>3
     DEF Becomes, Job, SameLoaded, SameArea, SameResult, SameTodo, SameUsed, j

\* An attempt that explores.
LEMMA ExploresFields ==
  ASSUME Typed, NEW a \in Attempts, Explores(a)
  PROVE  /\ at[a] = "starting" /\ at'[a] = "picking" /\ owner = a
         /\ job'[a].over = a /\ job'[a].ex = summary'
         /\ SameLoaded(a) /\ SameArea(a) /\ SameResult(a) /\ SameTodo(a) /\ SameUsed(a)
         /\ owner' = owner /\ SameStore /\ Others(a)
         /\ late' = late /\ paid' = {}
         /\ \/ summary' = a /\ faults' = faults
            \/ summary' = Nobody /\ faults' # 0
<1> DEFINE j == job[a]
           e == summary'
<1>1. j \in Job
  BY DEF Typed
<1>2. Becomes(a, "picking", [j EXCEPT !.over = a, !.ex = e])
  BY ExploresShape
<1>3. /\ at[a] = "starting" /\ owner = a /\ owner' = owner /\ late' = late /\ paid' = {}
      /\ SameStore
      /\ \/ summary' = a /\ faults' = faults
         \/ summary' = Nobody /\ faults' = faults + 1
  BY DEF Explores, Owns, SameStore, store, NoFault, Fault
<1>4. faults \in Nat
  BY DEF Typed
<1> HIDE DEF j, e
<1>5. /\ at'[a] = "picking" /\ job'[a].over = a /\ job'[a].ex = e /\ Others(a)
      /\ SameLoaded(a) /\ SameArea(a) /\ SameResult(a) /\ SameTodo(a) /\ SameUsed(a)
  BY <1>1, <1>2 DEF Becomes, Job, SameLoaded, SameArea, SameResult, SameTodo, SameUsed, j
<1> QED  BY <1>3, <1>4, <1>5 DEF e

\* A fault is one more.
LEMMA FaultCounts ==
  ASSUME Typed, Fault
  PROVE  faults' # 0
BY DEF Typed, Fault

\* The finished areas of a resume.
LEMMA LoadsAreasFields ==
  ASSUME Typed, NEW a \in Attempts, LoadsAreas(a)
  PROVE  /\ at[a] = "areas" /\ at'[a] = "drafts"
         /\ \/ faults' = faults /\ job'[a].kept = RowsOver(area, job[a].ex)
            \/ faults' # 0 /\ job'[a].kept = job[a].kept
         /\ job'[a].drafts = job[a].drafts
         /\ SameOver(a) /\ SameArea(a) /\ SameResult(a) /\ SameTodo(a) /\ SameUsed(a)
         /\ SameRun /\ SameStore /\ late' = late /\ paid' = paid /\ Others(a)
<1> DEFINE j == job[a]
           k == RowsOver(area, j.ex)
<1>1. j \in Job
  BY DEF Typed
<1>2. \/ faults' = faults /\ Becomes(a, "drafts", [j EXCEPT !.kept = k])
      \/ faults' # 0 /\ Becomes(a, "drafts", j)
  BY LoadsAreasShape, FaultCounts DEF NoFault
<1>3. /\ at[a] = "areas" /\ SameRun /\ SameStore /\ late' = late /\ paid' = paid
  BY DEF LoadsAreas, SameRun, SameStore, store
<1> HIDE DEF j, k
<1>4. /\ at'[a] = "drafts" /\ Others(a)
      /\ \/ faults' = faults /\ job'[a].kept = k
         \/ faults' # 0 /\ job'[a].kept = j.kept
      /\ job'[a].drafts = j.drafts
      /\ SameOver(a) /\ SameArea(a) /\ SameResult(a) /\ SameTodo(a) /\ SameUsed(a)
  BY <1>1, <1>2 DEF Becomes, Job, SameOver, SameArea, SameResult, SameTodo, SameUsed, j
<1> QED  BY <1>3, <1>4 DEF j, k

\* The drafts of a resume.
LEMMA LoadsDraftsFields ==
  ASSUME Typed, NEW a \in Attempts, LoadsDrafts(a)
  PROVE  /\ at[a] = "drafts" /\ at'[a] = "picking"
         /\ \/ /\ faults' = faults /\ job'[a].drafts = LiveRows(a)
               /\ job'[a].used = SpentBefore(job[a].kept, LiveRows(a))
            \/ faults' # 0 /\ job'[a].drafts = job[a].drafts
         /\ job'[a].kept = job[a].kept
         /\ SameOver(a) /\ SameArea(a) /\ SameResult(a) /\ SameTodo(a)
         /\ SameRun /\ SameStore /\ late' = late /\ paid' = paid /\ Others(a)
<1> DEFINE j == job[a]
           k == LiveRows(a)
           b == SpentBefore(j.kept, k)
           c == SpentBefore(j.kept, NoRows)
<1>1. j \in Job
  BY DEF Typed
<1>2. \/ faults' = faults /\ Becomes(a, "picking", [j EXCEPT !.drafts = k, !.used = b])
      \/ faults' # 0 /\ Becomes(a, "picking", [j EXCEPT !.used = c])
  BY LoadsDraftsShape, FaultCounts DEF NoFault
<1>3. /\ at[a] = "drafts" /\ SameRun /\ SameStore /\ late' = late /\ paid' = paid
  BY DEF LoadsDrafts, SameRun, SameStore, store
<1> HIDE DEF j, k, b, c
<1>4. /\ at'[a] = "picking" /\ Others(a)
      /\ \/ faults' = faults /\ job'[a].drafts = k /\ job'[a].used = b
         \/ faults' # 0 /\ job'[a].drafts = j.drafts
      /\ job'[a].kept = j.kept
      /\ SameOver(a) /\ SameArea(a) /\ SameResult(a) /\ SameTodo(a)
  BY <1>1, <1>2 DEF Becomes, Job, SameOver, SameArea, SameResult, SameTodo, j
<1> QED  BY <1>3, <1>4 DEF j, k, b, c

\* An area that is restored.
LEMMA RestoresAreaFields ==
  ASSUME Typed, NEW a \in Attempts, NEW x \in Areas, RestoresArea(a, x)
  PROVE  /\ at[a] = "picking" /\ at'[a] = "picking" /\ owner = a
         /\ x \in job[a].todo /\ Leaves(a, x) /\ job[a].kept[x] # NoRow
         /\ job'[a].result[x] = job[a].kept[x]
         /\ \A y \in Areas \ {x} : job'[a].result[y] = job[a].result[y]
         /\ SameOver(a) /\ SameLoaded(a) /\ SameArea(a) /\ SameUsed(a)
         /\ SameRun /\ SameStore /\ SameHistory /\ Others(a)
<1> DEFINE j == job[a]
           res == [j.result EXCEPT ![x] = j.kept[x]]
           t == j.todo \ {x}
<1>1. j \in Job /\ j.result \in [Areas -> Row]
  BY DEF Typed, Job
<1>2. Becomes(a, "picking", [j EXCEPT !.todo = t, !.result = res])
  BY RestoresAreaShape
<1>3. /\ at[a] = "picking" /\ owner = a /\ x \in job[a].todo /\ job[a].kept[x] # NoRow
      /\ SameRun /\ SameStore /\ SameHistory
  BY DEF RestoresArea, Owns, SameRun, SameStore, SameHistory, store
<1>4. res[x] = j.kept[x] /\ \A y \in Areas \ {x} : res[y] = j.result[y]
  BY <1>1
<1> HIDE DEF j, res, t
<1>5. /\ at'[a] = "picking" /\ Others(a) /\ job'[a].todo = t /\ job'[a].result = res
      /\ SameOver(a) /\ SameLoaded(a) /\ SameArea(a) /\ SameUsed(a)
  BY <1>1, <1>2 DEF Becomes, Job, SameOver, SameLoaded, SameArea, SameUsed, j
<1> QED  BY <1>3, <1>4, <1>5 DEF Leaves, j, t

\* A draft that is restored.
LEMMA RestoresDraftFields ==
  ASSUME Typed, NEW a \in Attempts, NEW x \in Areas, RestoresDraft(a, x)
  PROVE  /\ at[a] = "picking" /\ at'[a] = "validating" /\ owner = a
         /\ x \in job[a].todo /\ Leaves(a, x)
         /\ job[a].kept[x] = NoRow /\ job[a].drafts[x] # NoRow
         /\ job'[a].cur = {x} /\ job'[a].step = job[a].drafts[x] /\ job'[a].onDisk
         /\ SameOver(a) /\ SameLoaded(a) /\ SameResult(a) /\ SameUsed(a)
         /\ SameRun /\ SameStore /\ SameHistory /\ Others(a)
<1> DEFINE j == job[a]
           t == j.todo \ {x}
           s == j.drafts[x]
<1>1. j \in Job
  BY DEF Typed
<1>2. Becomes(a, "validating", [j EXCEPT !.todo = t, !.cur = {x}, !.step = s, !.onDisk = TRUE])
  BY RestoresDraftShape
<1>3. /\ at[a] = "picking" /\ owner = a /\ x \in job[a].todo
      /\ job[a].kept[x] = NoRow /\ job[a].drafts[x] # NoRow
      /\ SameRun /\ SameStore /\ SameHistory
  BY DEF RestoresDraft, Owns, SameRun, SameStore, SameHistory, store
<1> HIDE DEF j, t, s
<1>4. /\ at'[a] = "validating" /\ Others(a) /\ job'[a].todo = t /\ job'[a].cur = {x}
      /\ job'[a].step = s /\ job'[a].onDisk
      /\ SameOver(a) /\ SameLoaded(a) /\ SameResult(a) /\ SameUsed(a)
  BY <1>1, <1>2 DEF Becomes, Job, SameOver, SameLoaded, SameResult, SameUsed, j
<1> QED  BY <1>3, <1>4 DEF Leaves, j, t, s

\* An area that is analysed, or given up.
LEMMA AnalysesFields ==
  ASSUME Typed, NEW a \in Attempts, NEW x \in Areas, Analyses(a, x)
  PROVE  /\ at[a] = "picking" /\ owner = a /\ x \in job[a].todo /\ Leaves(a, x)
         /\ job[a].kept[x] = NoRow /\ job[a].drafts[x] = NoRow
         /\ \/ at'[a] = "picking" /\ SameArea(a) /\ faults' # 0
            \/ /\ at'[a] = IF job[a].ex = Nobody THEN "validating" ELSE "drafting"
               /\ job'[a].cur = {x} /\ job'[a].step = Analysed(a) /\ ~job'[a].onDisk
               /\ faults' = faults
         /\ SameOver(a) /\ SameLoaded(a) /\ SameResult(a) /\ SameUsed(a)
         /\ SameRun /\ SameStore /\ late' = late /\ paid' = paid /\ Others(a)
<1> DEFINE j == job[a]
           t == j.todo \ {x}
           s == Analysed(a)
           pc == IF j.ex = Nobody THEN "validating" ELSE "drafting"
<1>1. j \in Job
  BY DEF Typed
<1>2. \/ faults' # 0 /\ Becomes(a, "picking", [j EXCEPT !.todo = t])
      \/ /\ faults' = faults
         /\ Becomes(a, pc, [j EXCEPT !.todo = t, !.cur = {x}, !.onDisk = FALSE, !.step = s])
  BY AnalysesShape, FaultCounts DEF NoFault
<1>3. /\ at[a] = "picking" /\ owner = a /\ x \in job[a].todo
      /\ job[a].kept[x] = NoRow /\ job[a].drafts[x] = NoRow
      /\ SameRun /\ SameStore /\ late' = late /\ paid' = paid
  BY DEF Analyses, Owns, SameRun, SameStore, store
<1> HIDE DEF j, t, s, pc
<1>4. /\ Others(a) /\ job'[a].todo = t
      /\ \/ at'[a] = "picking" /\ SameArea(a) /\ faults' # 0
         \/ /\ at'[a] = pc /\ faults' = faults
            /\ job'[a].cur = {x} /\ job'[a].step = s /\ ~job'[a].onDisk
      /\ SameOver(a) /\ SameLoaded(a) /\ SameResult(a) /\ SameUsed(a)
  BY <1>1, <1>2 DEF Becomes, Job, SameOver, SameLoaded, SameArea, SameResult, SameUsed, j
<1> QED  BY <1>3, <1>4 DEF Leaves, j, t, s, pc

\* A draft that is written, refused, or perhaps written.
LEMMA SavesDraftFields ==
  ASSUME Typed, NEW a \in Attempts, NEW x \in Areas, SavesDraft(a, x)
  PROVE  /\ at[a] = "drafting" /\ x \in job[a].cur /\ SameRun /\ Others(a)
         /\ \/ Gone(a) /\ Refused(draft, a, x)
            \/ /\ at'[a] = "validating"
               /\ SameOver(a) /\ SameLoaded(a) /\ SameResult(a) /\ SameTodo(a) /\ SameUsed(a)
               /\ job'[a].cur = job[a].cur /\ job'[a].step = job[a].step
               /\ \/ PutDraft(a, x) /\ faults' = faults /\ job'[a].onDisk
                  \/ PutDraft(a, x) /\ faults' # 0 /\ job'[a].onDisk = job[a].onDisk
                  \/ /\ SameStore /\ late' = late /\ paid' = paid /\ faults' # 0
                     /\ job'[a].onDisk = job[a].onDisk
<1> DEFINE j == job[a]
<1>1. j \in Job
  BY DEF Typed
<1>2. \/ /\ faults' = faults /\ PutDraft(a, x)
         /\ Becomes(a, "validating", [j EXCEPT !.onDisk = TRUE])
      \/ /\ faults' = faults /\ SameStore /\ late' = late /\ paid' = paid
         /\ Refused(draft, a, x) /\ Becomes(a, "gone", NoJob)
      \/ /\ faults' # 0 /\ PutDraft(a, x) /\ Becomes(a, "validating", j)
      \/ /\ faults' # 0 /\ SameStore /\ late' = late /\ paid' = paid
         /\ Becomes(a, "validating", j)
  BY SavesDraftShape, FaultCounts DEF NoFault, store, SameStore
<1>3. at[a] = "drafting" /\ x \in job[a].cur /\ SameRun
  BY DEF SavesDraft, SameRun
<1>4. CASE /\ faults' = faults /\ PutDraft(a, x)
           /\ Becomes(a, "validating", [j EXCEPT !.onDisk = TRUE])
  <2> HIDE DEF j
  <2>1. /\ at'[a] = "validating" /\ Others(a)
        /\ SameOver(a) /\ SameLoaded(a) /\ SameResult(a) /\ SameTodo(a) /\ SameUsed(a)
        /\ job'[a].cur = j.cur /\ job'[a].step = j.step /\ job'[a].onDisk
    BY <1>1, <1>4 DEF Becomes, Job, SameOver, SameLoaded, SameResult, SameTodo, SameUsed, j
  <2> QED  BY <1>3, <1>4, <2>1 DEF j
<1>5. CASE Becomes(a, "gone", NoJob) /\ faults' = faults /\ SameStore /\ late' = late
           /\ paid' = paid /\ Refused(draft, a, x)
  BY <1>3, <1>5 DEF Becomes, Gone, SameHistory
<1>6. CASE /\ Becomes(a, "validating", j) /\ faults' # 0
           /\ PutDraft(a, x) \/ (SameStore /\ late' = late /\ paid' = paid)
  BY <1>3, <1>6 DEF Becomes, SameOver, SameLoaded, SameResult, SameTodo, SameUsed
<1> QED  BY <1>2, <1>4, <1>5, <1>6

\* A finding that is checked, or not.
LEMMA ValidatesFields ==
  ASSUME Typed, NEW a \in Attempts, NEW x \in Areas, Validates(a, x)
  PROVE  /\ at[a] = "validating" /\ x \in job[a].cur
         /\ \/ at'[a] = "merging" /\ SameJob(a)
            \/ /\ at'[a] = "marking"
               /\ job[a].step.verdict = NoVerdict /\ job[a].used < Cap
               /\ job'[a].step \in Row
               /\ job'[a].step.by = job[a].step.by /\ job'[a].step.over = job[a].step.over
               /\ job'[a].step.gen = job[a].step.gen
               /\ job'[a].step.verdict.of = job[a].step.gen
               /\ job'[a].cur = job[a].cur /\ job'[a].onDisk = job[a].onDisk
               /\ job'[a].used = job[a].used + 1
               /\ SameOver(a) /\ SameLoaded(a) /\ SameResult(a) /\ SameTodo(a)
         /\ SameRun /\ SameStore /\ SameHistory /\ Others(a)
<1> DEFINE j == job[a]
<1>1. j \in Job
  BY DEF Typed
<1>2. /\ at[a] = "validating" /\ x \in job[a].cur /\ SameRun /\ SameStore /\ SameHistory
  BY DEF Validates, SameRun, SameStore, SameHistory, store
<1>3. CASE Becomes(a, "merging", j)
  BY <1>2, <1>3 DEF Becomes, SameJob, SameOver, SameLoaded, SameArea, SameResult, SameTodo,
                    SameUsed
<1>4. ASSUME NEW s \in Row, j.step.verdict = NoVerdict, j.used < Cap,
             s.by = j.step.by, s.over = j.step.over, s.gen = j.step.gen,
             s.verdict.of = j.step.gen,
             Becomes(a, "marking", [j EXCEPT !.step = s, !.used = j.used + 1])
      PROVE  /\ at'[a] = "marking" /\ Others(a)
             /\ job'[a].step = s
             /\ job'[a].cur = job[a].cur /\ job'[a].onDisk = job[a].onDisk
             /\ job'[a].used = job[a].used + 1
             /\ SameOver(a) /\ SameLoaded(a) /\ SameResult(a) /\ SameTodo(a)
  <2> HIDE DEF j
  <2> QED  BY <1>1, <1>4 DEF Becomes, Job, SameOver, SameLoaded, SameResult, SameTodo, j
<1> QED  BY <1>2, <1>3, <1>4, ValidatesShape

\* A marker that is written, or not.
LEMMA MarksFields ==
  ASSUME Typed, NEW a \in Attempts, NEW x \in Areas, Marks(a, x)
  PROVE  /\ at[a] = "marking" /\ at'[a] = "merging" /\ x \in job[a].cur /\ SameJob(a)
         /\ \/ /\ MayMark(a, x) /\ Wrote(a) /\ faults' = faults
               /\ draft'[x].by = draft[x].by /\ draft'[x].over = draft[x].over
               /\ draft'[x].gen = draft[x].gen /\ draft'[x].verdict = job[a].step.verdict
               /\ \A y \in Areas \ {x} : draft'[y] = draft[y]
            \/ ~MayMark(a, x) /\ draft' = draft /\ late' = late /\ faults' = faults
            \/ draft' = draft /\ late' = late /\ faults' # 0
         /\ SameRun /\ area' = area /\ paid' = paid /\ Others(a)
<1>1. Becomes(a, "merging", job[a])
  BY MarksShape
<1>2. /\ at[a] = "marking" /\ x \in job[a].cur /\ SameRun /\ area' = area /\ paid' = paid
  BY DEF Marks, SameRun
<1>3. \/ /\ MayMark(a, x) /\ Wrote(a) /\ faults' = faults
         /\ draft' = [draft EXCEPT ![x].verdict = job[a].step.verdict]
      \/ ~MayMark(a, x) /\ draft' = draft /\ late' = late /\ faults' = faults
      \/ draft' = draft /\ late' = late /\ faults' # 0
  BY FaultCounts DEF Marks, NoFault, Noted, Owns, Wrote
<1>4. ASSUME draft' = [draft EXCEPT ![x].verdict = job[a].step.verdict]
      PROVE  /\ draft'[x].by = draft[x].by /\ draft'[x].over = draft[x].over
             /\ draft'[x].gen = draft[x].gen /\ draft'[x].verdict = job[a].step.verdict
             /\ \A y \in Areas \ {x} : draft'[y] = draft[y]
  <2>1. job[a].step.verdict \in Verdict
    BY StepType
  <2>2. /\ draft'[x].by = draft[x].by /\ draft'[x].over = draft[x].over
        /\ draft'[x].gen = draft[x].gen /\ draft'[x].verdict = job[a].step.verdict
        /\ \A y \in Areas : y # x => draft'[y] = draft[y]
    BY <1>4, <2>1, MarkedRow
  <2> QED  BY <2>2
<1>5. SameJob(a) /\ at'[a] = "merging" /\ Others(a)
  BY <1>1 DEF Becomes, SameJob, SameOver, SameLoaded, SameArea, SameResult, SameTodo, SameUsed
<1> QED  BY <1>2, <1>3, <1>4, <1>5

\* A finding that joins the result.
LEMMA MergesFields ==
  ASSUME Typed, NEW a \in Attempts, NEW x \in Areas, Merges(a, x)
  PROVE  /\ at[a] = "merging" /\ x \in job[a].cur
         /\ job'[a].result[x].gen = job[a].step.gen
         /\ job'[a].result[x].verdict = job[a].step.verdict
         /\ \A y \in Areas \ {x} : job'[a].result[y] = job[a].result[y]
         /\ \/ /\ job[a].ex = Nobody /\ at'[a] = "picking" /\ NoArea(a)
            \/ /\ at'[a] = "saving" /\ job'[a].step = job'[a].result[x]
               /\ job'[a].cur = job[a].cur /\ job'[a].onDisk = job[a].onDisk
         /\ SameOver(a) /\ SameLoaded(a) /\ SameTodo(a) /\ SameUsed(a)
         /\ SameRun /\ SameStore /\ SameHistory /\ Others(a)
<1> DEFINE j == job[a]
           s == MergedStep(a, x)
           res == [j.result EXCEPT ![x] = s]
<1>1. j \in Job /\ j.result \in [Areas -> Row]
  BY DEF Typed, Job
<1>2. s.gen = j.step.gen /\ s.verdict = j.step.verdict
  BY Merged
<1>3. res[x] = s /\ \A y \in Areas \ {x} : res[y] = j.result[y]
  BY <1>1
<1>4. \/ /\ j.ex = Nobody
         /\ Becomes(a, "picking", [j EXCEPT !.cur = {}, !.step = NoRow,
                                            !.onDisk = FALSE, !.result = res])
      \/ Becomes(a, "saving", [j EXCEPT !.step = s, !.result = res])
  BY MergesShape
<1>5. /\ at[a] = "merging" /\ x \in job[a].cur /\ SameRun /\ SameStore /\ SameHistory
  BY DEF Merges, SameRun, SameStore, SameHistory, store
<1> HIDE DEF j, s, res
<1>6. /\ Others(a) /\ job'[a].result = res
      /\ \/ j.ex = Nobody /\ at'[a] = "picking" /\ NoArea(a)
         \/ /\ at'[a] = "saving" /\ job'[a].step = s
            /\ job'[a].cur = j.cur /\ job'[a].onDisk = j.onDisk
      /\ SameOver(a) /\ SameLoaded(a) /\ SameTodo(a) /\ SameUsed(a)
  BY <1>1, <1>4 DEF Becomes, Job, NoArea, SameOver, SameLoaded, SameTodo, SameUsed, j
<1> QED  BY <1>2, <1>3, <1>5, <1>6 DEF j

\* The end of an iteration.
LEMMA NextAreaFields ==
  ASSUME Typed, NEW a \in Attempts,
         Becomes(a, "picking", [job[a] EXCEPT !.cur = {}, !.step = NoRow, !.onDisk = FALSE])
  PROVE  /\ at'[a] = "picking" /\ Others(a) /\ NoArea(a)
         /\ SameOver(a) /\ SameLoaded(a) /\ SameResult(a) /\ SameTodo(a) /\ SameUsed(a)
<1> DEFINE j == job[a]
<1>1. j \in Job
  BY DEF Typed
<1> HIDE DEF j
<1> QED
  BY <1>1 DEF Becomes, Job, NoArea, SameOver, SameLoaded, SameResult, SameTodo, SameUsed, j

\* A checkpoint that is written, refused, or perhaps written.
LEMMA SavesAreaFields ==
  ASSUME Typed, NEW a \in Attempts, NEW x \in Areas, SavesArea(a, x)
  PROVE  /\ at[a] = "saving" /\ x \in job[a].cur /\ SameRun /\ Others(a)
         /\ \/ Gone(a) /\ Refused(area, a, x)
            \/ /\ at'[a] = "discarding" /\ SameJob(a) /\ PutArea(a, x) /\ faults' = faults
            \/ /\ at'[a] = "picking" /\ NoArea(a)
               /\ SameOver(a) /\ SameLoaded(a) /\ SameResult(a) /\ SameTodo(a) /\ SameUsed(a)
               /\ faults' # 0
               /\ PutArea(a, x) \/ (SameStore /\ late' = late /\ paid' = paid)
<1>1. at[a] = "saving" /\ x \in job[a].cur /\ SameRun
  BY DEF SavesArea, SameRun
<1>2. \/ /\ faults' = faults /\ PutArea(a, x) /\ Becomes(a, "discarding", job[a])
      \/ /\ faults' = faults /\ SameStore /\ late' = late /\ paid' = paid
         /\ Refused(area, a, x) /\ Becomes(a, "gone", NoJob)
      \/ /\ faults' # 0 /\ (PutArea(a, x) \/ (SameStore /\ late' = late /\ paid' = paid))
         /\ Becomes(a, "picking", [job[a] EXCEPT !.cur = {}, !.step = NoRow, !.onDisk = FALSE])
  BY SavesAreaShape, FaultCounts DEF NoFault, store, SameStore
<1>3. CASE /\ faults' = faults /\ PutArea(a, x) /\ Becomes(a, "discarding", job[a])
  BY <1>1, <1>3 DEF Becomes, SameJob, SameOver, SameLoaded, SameArea, SameResult, SameTodo,
                    SameUsed
<1>4. CASE /\ faults' = faults /\ SameStore /\ late' = late /\ paid' = paid
           /\ Refused(area, a, x) /\ Becomes(a, "gone", NoJob)
  BY <1>1, <1>4 DEF Becomes, Gone, SameHistory
<1>5. CASE /\ faults' # 0 /\ (PutArea(a, x) \/ (SameStore /\ late' = late /\ paid' = paid))
           /\ Becomes(a, "picking", [job[a] EXCEPT !.cur = {}, !.step = NoRow, !.onDisk = FALSE])
  BY <1>1, <1>5, NextAreaFields
<1> QED  BY <1>2, <1>3, <1>4, <1>5

\* A draft that is discarded, or perhaps not.
LEMMA DiscardsFields ==
  ASSUME Typed, NEW a \in Attempts, NEW x \in Areas, DiscardsDraft(a, x)
  PROVE  /\ at[a] = "discarding" /\ at'[a] = "picking" /\ x \in job[a].cur /\ NoArea(a)
         /\ \/ /\ Wrote(a) /\ faults' = faults /\ draft'[x] = NoRow
               /\ \A y \in Areas \ {x} : draft'[y] = draft[y]
            \/ draft' = draft /\ late' = late /\ faults' # 0
         /\ SameOver(a) /\ SameLoaded(a) /\ SameResult(a) /\ SameTodo(a) /\ SameUsed(a)
         /\ SameRun /\ area' = area /\ paid' = paid /\ Others(a)
<1>1. /\ at[a] = "discarding" /\ x \in job[a].cur /\ SameRun /\ area' = area /\ paid' = paid
      /\ \/ Wrote(a) /\ faults' = faults /\ draft' = [draft EXCEPT ![x] = NoRow]
         \/ draft' = draft /\ late' = late /\ faults' # 0
  BY FaultCounts DEF DiscardsDraft, SameRun, Wrote, Noted, Owns, NoFault
<1>2. draft' = [draft EXCEPT ![x] = NoRow] =>
        draft'[x] = NoRow /\ \A y \in Areas \ {x} : draft'[y] = draft[y]
  BY DEF Typed
<1> QED  BY <1>1, <1>2, DiscardsShape, NextAreaFields

\* An agent that finds the run lost.
LEMMA LosesFields ==
  ASSUME Typed, NEW a \in Attempts, LosesRun(a)
  PROVE  SameRun /\ Others(a) /\ Gone(a) /\ owner # a
<1>1. Becomes(a, "gone", NoJob)
  BY StopsShape DEF LosesRun
<1> QED  BY <1>1 DEF Becomes, LosesRun, Owns, Gone, SameRun, SameStore, SameHistory, store

\* The end of the loop.
LEMMA EndsLoopFields ==
  ASSUME Typed, NEW a \in Attempts, EndsLoop(a)
  PROVE  /\ at[a] = "picking" /\ at'[a] = "recommending" /\ job[a].todo = {}
         /\ job'[a].kept = job[a].kept /\ job'[a].drafts = NoRows
         /\ SameOver(a) /\ SameArea(a) /\ SameResult(a) /\ SameTodo(a)
         /\ SameRun /\ SameStore /\ SameHistory /\ Others(a)
<1> DEFINE j == job[a]
<1>1. j \in Job
  BY DEF Typed
<1>2. Becomes(a, "recommending", [j EXCEPT !.drafts = NoRows, !.used = 0])
  BY EndsLoopShape
<1>3. at[a] = "picking" /\ job[a].todo = {} /\ SameRun /\ SameStore /\ SameHistory
  BY DEF EndsLoop, SameRun, SameStore, SameHistory, store
<1> HIDE DEF j
<1>4. /\ at'[a] = "recommending" /\ Others(a)
      /\ job'[a].kept = j.kept /\ job'[a].drafts = NoRows
      /\ SameOver(a) /\ SameArea(a) /\ SameResult(a) /\ SameTodo(a)
  BY <1>1, <1>2 DEF Becomes, Job, SameOver, SameArea, SameResult, SameTodo, j
<1> QED  BY <1>3, <1>4 DEF j

\* The recommendations, made and stored.
LEMMA AdviceFields ==
  ASSUME Typed, NEW a \in Attempts, Recommends(a) \/ StoresRecs(a)
  PROVE  /\ at[a] \in {"recommending", "storing"} /\ at'[a] \in {"storing", "finished"}
         /\ owner = a
         /\ job'[a].kept = NoRows \/ job'[a].kept = job[a].kept
         /\ job'[a].drafts = job[a].drafts
         /\ SameOver(a) /\ SameArea(a) /\ SameResult(a) /\ SameTodo(a)
         /\ SameRun /\ SameStore /\ late' = late /\ paid' = paid /\ Others(a)
<1> DEFINE j == job[a]
<1>1. j \in Job
  BY DEF Typed
<1>2. /\ at[a] \in {"recommending", "storing"} /\ owner = a
      /\ SameRun /\ SameStore /\ late' = late /\ paid' = paid
  BY DEF Recommends, StoresRecs, Owns, SameRun, SameStore, store
<1>3. CASE Recommends(a)
  <2>1. PICK r \in Recs, pc \in {"finished", "storing"} :
          Becomes(a, pc, [j EXCEPT !.recs = r, !.kept = NoRows])
    BY <1>3, RecommendsShape
  <2> HIDE DEF j
  <2>2. /\ at'[a] = pc /\ Others(a) /\ job'[a].kept = NoRows /\ job'[a].drafts = j.drafts
        /\ SameOver(a) /\ SameArea(a) /\ SameResult(a) /\ SameTodo(a)
    BY <1>1, <2>1 DEF Becomes, Job, SameOver, SameArea, SameResult, SameTodo, j
  <2> QED  BY <1>2, <2>1, <2>2 DEF j
<1>4. CASE StoresRecs(a)
  <2>1. Becomes(a, "finished", job[a])
    BY <1>4, StoresRecsShape
  <2> QED  BY <1>2, <2>1 DEF Becomes, SameOver, SameArea, SameResult, SameTodo
<1> QED  BY <1>3, <1>4

-----------------------------------------------------------------------------
(* Verdicts are of the findings that carry them.                           *)

Own(r) == r.verdict.of \in {Nobody, r.gen}

OwnStore == \A x \in Areas : Own(area[x]) /\ Own(draft[x])

OwnMemory(a) ==
  /\ Own(job[a].step)
  /\ \A x \in Areas : Own(job[a].kept[x]) /\ Own(job[a].drafts[x]) /\ Own(job[a].result[x])

\* The draft of an area, if there is one, is of this finding.
SameDraft(x, r) == draft[x] = NoRow \/ draft[x].gen = r.gen

\* The owner marks the drafts of the findings it has.
MarksItsOwn ==
  /\ \A x \in job[owner].todo :
       job[owner].drafts[x] # NoRow => SameDraft(x, job[owner].drafts[x])
  /\ job[owner].onDisk => \A x \in job[owner].cur : SameDraft(x, job[owner].step)

VerdictInv == ~late => OwnStore /\ (\A a \in Attempts : OwnMemory(a)) /\ MarksItsOwn

\* No row, and no finding without a verdict, has another's.
LEMMA OwnOfNone ==
  /\ Own(NoRow) /\ \A x \in Areas : Own(NoRows[x])
  /\ \A r : r.verdict = NoVerdict => Own(r)
<1>1. NoVerdict.of = 0
  BY DEF NoVerdict
<1>2. \A r : r.verdict = NoVerdict => Own(r)
  BY <1>1 DEF Own
<1> QED  BY <1>2, NoRowFields

\* A write of an agent that does not own the run is late, and what is late
\* stays late.
LEMMA OthersAreLate ==
  ASSUME Typed, NEW a \in Attempts, AgentStep(a)
  PROVE  /\ late => late'
         /\ owner # a /\ ~late' => SameStore /\ SameRun /\ paid' = paid
<1>1. CASE SkipsExploration(a) \/ Explores(a)
  BY <1>1, SkipsFields, ExploresFields DEF SameHistory
<1>2. CASE LoadsAreas(a) \/ LoadsDrafts(a)
  BY <1>2, LoadsAreasFields, LoadsDraftsFields
<1>3. CASE LosesRun(a) \/ EndsLoop(a) \/ Recommends(a) \/ StoresRecs(a)
  BY <1>3, LosesFields, EndsLoopFields, AdviceFields DEF Gone, SameHistory
<1>4. ASSUME NEW x \in Areas, AreaStep(a, x)
      PROVE  /\ late => late'
             /\ owner # a /\ ~late' => SameStore /\ SameRun /\ paid' = paid
  <2>1. CASE RestoresArea(a, x) \/ RestoresDraft(a, x) \/ Analyses(a, x)
    BY <2>1, RestoresAreaFields, RestoresDraftFields, AnalysesFields DEF SameHistory
  <2>2. CASE SavesDraft(a, x)
    BY <2>2, SavesDraftFields, PutRow DEF Gone, SameHistory
  <2>3. CASE Validates(a, x) \/ Merges(a, x)
    BY <2>3, ValidatesFields, MergesFields DEF SameHistory
  <2>4. CASE Marks(a, x) \/ DiscardsDraft(a, x)
    BY <2>4, MarksFields, DiscardsFields DEF Wrote, SameStore
  <2>5. CASE SavesArea(a, x)
    BY <2>5, SavesAreaFields, PutRow DEF Gone, SameHistory
  <2> QED  BY <1>4, <2>1, <2>2, <2>3, <2>4, <2>5 DEF AreaStep
<1> QED  BY <1>1, <1>2, <1>3, <1>4 DEF AgentStep

\* An agent's memory keeps to verdicts of its own findings.
LEMMA MemoryStaysOwn ==
  ASSUME Typed, NEW a \in Attempts, Local(a), OwnStore, OwnMemory(a), AgentStep(a)
  PROVE  OwnMemory(a)'
<1>1. CASE Gone(a)
  BY <1>1, OwnOfNone, NoJobFields DEF Gone, OwnMemory
<1>2. CASE SkipsExploration(a) \/ Explores(a)
  BY <1>2, SkipsFields, ExploresFields DEF OwnMemory, SameLoaded, SameArea, SameResult
<1>3. CASE LoadsAreas(a)
  <2>1. \A x \in Areas : RowsOver(area, job[a].ex)[x] \in {area[x], NoRow}
    BY RowsOverType DEF Typed
  <2>2. \A x \in Areas : Own(RowsOver(area, job[a].ex)[x])
    BY <2>1, OwnOfNone DEF OwnStore
  <2> QED
    BY <1>3, <2>2, LoadsAreasFields DEF OwnMemory, SameArea, SameResult
<1>4. CASE LoadsDrafts(a)
  <2>1. \A x \in Areas : LiveRows(a)[x] \in {draft[x], NoRow}
    BY LiveRowsType
  <2>2. \A x \in Areas : Own(LiveRows(a)[x])
    BY <2>1, OwnOfNone DEF OwnStore
  <2> QED
    BY <1>4, <2>2, LoadsDraftsFields DEF OwnMemory, SameArea, SameResult
<1>5. CASE EndsLoop(a) \/ Recommends(a) \/ StoresRecs(a)
  BY <1>5, OwnOfNone, EndsLoopFields, AdviceFields DEF OwnMemory, SameArea, SameResult
<1>6. ASSUME NEW x \in Areas, AreaStep(a, x)
      PROVE  OwnMemory(a)'
  <2>1. CASE RestoresArea(a, x)
    BY <2>1, RestoresAreaFields DEF OwnMemory, SameArea, SameLoaded
  <2>2. CASE RestoresDraft(a, x)
    BY <2>2, RestoresDraftFields DEF OwnMemory, SameResult, SameLoaded
  <2>3. CASE Analyses(a, x)
    <3>1. Own(Analysed(a))
      BY AnalysedType, OwnOfNone
    <3> QED
      BY <2>3, <3>1, AnalysesFields DEF OwnMemory, SameResult, SameLoaded, SameArea
  <2>4. CASE SavesDraft(a, x)
    BY <1>1, <2>4, SavesDraftFields DEF OwnMemory, SameResult, SameLoaded
  <2>5. CASE Validates(a, x)
    BY <2>5, ValidatesFields DEF OwnMemory, Own, SameJob, SameArea, SameResult, SameLoaded
  <2>6. CASE Marks(a, x)
    BY <2>6, MarksFields DEF OwnMemory, SameJob, SameArea, SameResult, SameLoaded
  <2>7. CASE Merges(a, x)
    <3>1. Own(job'[a].result[x])
      BY <2>7, MergesFields DEF OwnMemory, Own
    <3> QED
      BY <2>7, <3>1, OwnOfNone, MergesFields DEF OwnMemory, NoArea, SameLoaded
  <2>8. CASE SavesArea(a, x)
    BY <1>1, <2>8, OwnOfNone, SavesAreaFields
       DEF OwnMemory, NoArea, SameJob, SameArea, SameResult, SameLoaded
  <2>9. CASE DiscardsDraft(a, x)
    BY <2>9, OwnOfNone, DiscardsFields DEF OwnMemory, NoArea, SameResult, SameLoaded
  <2> QED  BY <1>6, <2>1, <2>2, <2>3, <2>4, <2>5, <2>6, <2>7, <2>8, <2>9 DEF AreaStep
<1> QED  BY <1>1, <1>2, <1>3, <1>4, <1>5, <1>6, LosesFields DEF AgentStep

\* The owner's writes are of verdicts of their own findings.
LEMMA StoreStaysOwn ==
  ASSUME Typed, Local(owner), OwnStore, OwnMemory(owner), MarksItsOwn, AgentStep(owner)
  PROVE  OwnStore'
<1> SUFFICES ASSUME NEW x \in Areas PROVE Own(area[x])' /\ Own(draft[x])'
  BY DEF OwnStore
<1>1. owner \in Attempts /\ Own(job[owner].step)
  BY DEF Typed, OwnMemory
<1>2. Own(area'[x])
  BY <1>1, WritesItsOwn DEF OwnStore
<1>3. Own(draft'[x])
  <2>1. CASE draft'[x] \in {draft[x], job[owner].step, NoRow}
    BY <1>1, <2>1, OwnOfNone DEF OwnStore
  <2>2. CASE /\ x \in job[owner].cur /\ MayMark(owner, x)
             /\ draft'[x].gen = draft[x].gen /\ draft'[x].verdict = job[owner].step.verdict
    BY <1>1, <2>2 DEF MayMark, MarksItsOwn, SameDraft, Own
  <2> QED  BY <1>1, <2>1, <2>2, WritesItsOwn
<1> QED  BY <1>2, <1>3 DEF Own

\* The owner keeps to the drafts of the findings it has.
LEMMA OwnerMarksItsOwn ==
  ASSUME Typed, Local(owner), MarksItsOwn, AgentStep(owner)
  PROVE  MarksItsOwn'
<1> DEFINE a == owner
<1>1. a \in Attempts /\ owner' = a
  BY WritesItsOwn DEF Typed
<1>2. job[a].todo \subseteq Areas /\ job[a].cur \subseteq Areas
  BY <1>1 DEF Typed, Job
<1>3. job[a].cur \cap job[a].todo = {} /\ \A x, y \in job[a].cur : x = y
  BY <1>1 DEF Local, OneArea
<1>4. CASE Gone(a)
  BY <1>1, <1>4, NoJobFields, NoRowFields DEF Gone, MarksItsOwn
<1>5. CASE SkipsExploration(a) \/ Explores(a)
  BY <1>1, <1>5, SkipsFields, ExploresFields
     DEF MarksItsOwn, SameDraft, SameLoaded, SameArea, SameTodo, SameStore
<1>6. CASE LoadsAreas(a)
  BY <1>1, <1>6, LoadsAreasFields DEF MarksItsOwn, SameDraft, SameArea, SameTodo, SameStore
<1>7. CASE LoadsDrafts(a)
  BY <1>1, <1>2, <1>7, LoadsDraftsFields, LiveRowsType
     DEF MarksItsOwn, SameDraft, SameArea, SameTodo, SameStore
<1>8. CASE EndsLoop(a) \/ Recommends(a) \/ StoresRecs(a)
  BY <1>1, <1>2, <1>8, EndsLoopFields, AdviceFields, NoRowFields
     DEF MarksItsOwn, SameDraft, SameArea, SameTodo, SameStore
<1>9. ASSUME NEW x \in Areas, AreaStep(a, x)
      PROVE  MarksItsOwn'
  <2>1. CASE RestoresArea(a, x)
    BY <1>1, <2>1, RestoresAreaFields
       DEF MarksItsOwn, SameDraft, Leaves, SameLoaded, SameArea, SameStore
  <2>2. CASE RestoresDraft(a, x)
    BY <1>1, <2>2, RestoresDraftFields
       DEF MarksItsOwn, SameDraft, Leaves, SameLoaded, SameStore
  <2>3. CASE Analyses(a, x)
    BY <1>1, <2>3, AnalysesFields
       DEF MarksItsOwn, SameDraft, Leaves, SameLoaded, SameArea, SameStore
  <2>4. CASE SavesDraft(a, x)
    <3>1. ~job[a].onDisk /\ x \in job[a].cur
      BY <1>1, <2>4, SavesDraftFields DEF Local, WritesItsStep
    <3>2. \A y \in Areas \ {x} : draft'[y] = draft[y]
      BY <1>1, <2>4, SavesDraftFields, PutRow DEF Gone, SameStore
    <3>3. job'[a].onDisk => draft'[x] = job[a].step \/ Gone(a)
      BY <1>1, <2>4, <3>1, SavesDraftFields, PutRow
    <3> QED
      BY <1>1, <1>2, <1>3, <1>4, <2>4, <3>1, <3>2, <3>3, SavesDraftFields
         DEF MarksItsOwn, SameDraft, SameLoaded, SameTodo
  <2>5. CASE Validates(a, x)
    BY <1>1, <2>5, ValidatesFields
       DEF MarksItsOwn, SameDraft, SameJob, SameLoaded, SameArea, SameTodo, SameStore
  <2>6. CASE Marks(a, x)
    <3>1. \A y \in Areas : draft'[y] = draft[y]
                           \/ (draft'[y].gen = draft[y].gen /\ draft[y] # NoRow)
      BY <1>1, <2>6, MarksFields DEF MayMark
    <3> QED
      BY <1>1, <1>2, <2>6, <3>1, MarksFields
         DEF MarksItsOwn, SameDraft, SameJob, SameLoaded, SameArea, SameTodo
  <2>7. CASE Merges(a, x)
    BY <1>1, <1>3, <2>7, MergesFields
       DEF MarksItsOwn, SameDraft, SameLoaded, NoArea, SameTodo, SameStore
  <2>8. CASE SavesArea(a, x)
    <3>1. draft' = draft
      BY <1>1, <2>8, SavesAreaFields, PutRow DEF Gone, SameStore
    <3> QED
      BY <1>1, <1>4, <2>8, <3>1, SavesAreaFields
         DEF MarksItsOwn, SameDraft, SameJob, SameLoaded, SameArea, NoArea, SameTodo
  <2>9. CASE DiscardsDraft(a, x)
    <3>1. \A y \in Areas : draft'[y] = draft[y] \/ draft'[y] = NoRow
      BY <1>1, <2>9, DiscardsFields
    <3> QED
      BY <1>1, <1>2, <2>9, <3>1, DiscardsFields
         DEF MarksItsOwn, SameDraft, SameLoaded, NoArea, SameTodo
  <2> QED  BY <1>9, <2>1, <2>2, <2>3, <2>4, <2>5, <2>6, <2>7, <2>8, <2>9 DEF AreaStep
<1> QED  BY <1>1, <1>4, <1>5, <1>6, <1>7, <1>8, <1>9, LosesFields DEF AgentStep

\* Every step keeps verdicts to their findings.
LEMMA VerdictStep ==
  ASSUME AnalysisInv, VerdictInv, Next
  PROVE  VerdictInv'
<1> SUFFICES ASSUME ~late' PROVE OwnStore' /\ (\A b \in Attempts : OwnMemory(b)') /\ MarksItsOwn'
  BY DEF VerdictInv
<1>1. Typed /\ owner \in Attempts /\ \A b \in Attempts : Local(b)
  BY DEF AnalysisInv, Typed
<1>2. CASE Resumes
  <2>1. UNCHANGED <<area, draft, late>>
    BY <1>2 DEF Resumes, store
  <2>2. OwnStore /\ (\A b \in Attempts : OwnMemory(b))
    BY <2>1 DEF VerdictInv
  <2>3. ASSUME NEW b \in Attempts PROVE OwnMemory(b)'
    <3>1. job'[b] = job[b] \/ job'[b] = NoJob
      BY <1>1, <1>2, ResumesShape
    <3>2. CASE job'[b] = job[b]
      BY <2>2, <3>2 DEF OwnMemory
    <3>3. CASE job'[b] = NoJob
      BY <3>3, OwnOfNone, NoJobFields DEF OwnMemory
    <3> QED  BY <3>1, <3>2, <3>3
  <2>4. OwnStore'
    BY <2>1, <2>2 DEF OwnStore
  <2>5. MarksItsOwn'
    <3>1. job'[owner'] = job[owner'] /\ owner' \in Attempts /\ at[owner'] = "none"
      BY <1>1, <1>2, ResumesShape DEF AnalysisInv, Order, Typed
    <3>2. job'[owner'] = NoJob
      BY <1>1, <3>1 DEF Local, Idle, Before
    <3> QED  BY <3>2, NoJobFields, NoRowFields DEF MarksItsOwn
  <2> QED  BY <2>3, <2>4, <2>5
<1>3. ASSUME NEW a \in Attempts, AgentStep(a)
      PROVE  OwnStore' /\ (\A b \in Attempts : OwnMemory(b)') /\ MarksItsOwn'
  <2>1. OwnStore /\ (\A b \in Attempts : OwnMemory(b)) /\ MarksItsOwn
    BY <1>1, <1>3, OthersAreLate DEF VerdictInv
  <2>2. Others(a)
    BY <1>1, <1>3, AgentLocal DEF AnalysisInv, Order
  <2>3. ASSUME NEW b \in Attempts PROVE OwnMemory(b)'
    <3>1. CASE b = a
      BY <1>1, <1>3, <2>1, <3>1, MemoryStaysOwn
    <3>2. CASE b # a
      BY <2>1, <2>2, <3>2 DEF Others, OwnMemory
    <3> QED  BY <3>1, <3>2
  <2>4. CASE a = owner
    BY <1>1, <1>3, <2>1, <2>3, <2>4, StoreStaysOwn, OwnerMarksItsOwn
  <2>5. CASE a # owner
    <3>1. SameStore /\ owner' = owner /\ job'[owner] = job[owner]
      BY <1>1, <1>3, <2>2, <2>5, OthersAreLate DEF SameRun, Others
    <3> QED  BY <2>1, <2>3, <3>1 DEF SameStore, OwnStore, MarksItsOwn, SameDraft
  <2> QED  BY <2>4, <2>5
<1> QED  BY <1>2, <1>3 DEF Next

-----------------------------------------------------------------------------
(* What was stored of an area can be restored.                             *)

\* An owner that discards a draft has stored the area it replaces.
Landed == at[owner] = "discarding" => \A x \in job[owner].cur : area[x].over = summary

RestoreInv == ~late => StoredAreaStaysRestorable /\ Landed

\* What an owner stores is over the exploration of the summary.
LEMMA OwnerStoresOverSummary ==
  ASSUME AnalysisInv, at[owner] \in {"drafting", "saving"}
  PROVE  job[owner].ex = summary /\ job[owner].over = summary /\ job[owner].step.over = summary
<1>1. Local(owner) /\ job[owner].ex = summary
  BY DEF AnalysisInv, Typed, Order
<1>2. job[owner].over = summary
  BY <1>1 DEF Local, Explored
<1>3. job[owner].step # NoRow
  BY <1>1 DEF Local, OneArea, Working
<1> QED  BY <1>1, <1>2, <1>3 DEF Local, OverItsSteps

\* Every step keeps stored areas restorable.
LEMMA RestoreStep ==
  ASSUME AnalysisInv, RestoreInv, Next
  PROVE  RestoreInv'
<1> SUFFICES ASSUME ~late'
             PROVE  /\ \A x \in Areas : x \in paid' => summary' \in {area'[x].over, draft'[x].over}
                    /\ at'[owner'] = "discarding" =>
                         \A x \in job'[owner'].cur : area'[x].over = summary'
  BY DEF RestoreInv, StoredAreaStaysRestorable, Landed
<1> DEFINE Stays == \A x \in Areas : x \in paid' => summary' \in {area'[x].over, draft'[x].over}
           Lands == at'[owner'] = "discarding" =>
                      \A x \in job'[owner'].cur : area'[x].over = summary'
<1>1. Typed /\ owner \in Attempts /\ Local(owner) /\ Order
  BY DEF AnalysisInv, Typed
<1>2. CASE Resumes
  <2>1. UNCHANGED <<area, draft, summary, paid, late>> /\ at'[owner'] = "starting"
    BY <1>1, <1>2, ResumesShape DEF Resumes, store
  <2> QED  BY <2>1 DEF RestoreInv, StoredAreaStaysRestorable
<1>3. ASSUME NEW a \in Attempts, AgentStep(a)
      PROVE  Stays /\ Lands
  <2>1. ~late /\ StoredAreaStaysRestorable /\ Landed
    BY <1>1, <1>3, OthersAreLate DEF RestoreInv
  <2>2. Others(a) /\ owner' = owner
    BY <1>1, <1>3, AgentLocal, WritesItsOwn DEF Order, AnalysisInv
  <2>3. CASE a # owner
    <3>1. /\ SameStore /\ SameRun /\ paid' = paid
          /\ at'[owner] = at[owner] /\ job'[owner] = job[owner]
      BY <1>1, <1>3, <2>2, <2>3, OthersAreLate DEF Others
    <3> QED  BY <2>1, <2>2, <3>1 DEF SameStore, SameRun, StoredAreaStaysRestorable, Landed
  <2>4. CASE a = owner
    <3>1. CASE SameStore /\ SameRun /\ paid' = paid /\ at'[a] # "discarding"
      BY <2>1, <2>2, <2>4, <3>1 DEF SameStore, SameRun, StoredAreaStaysRestorable
    <3>2. CASE SkipsExploration(a) \/ Explores(a)
      <4>1. CASE SkipsExploration(a)
        BY <1>1, <3>1, <4>1, SkipsFields DEF SameHistory
      <4>2. CASE Explores(a)
        BY <1>1, <2>2, <2>4, <4>2, ExploresFields
      <4> QED  BY <3>2, <4>1, <4>2
    <3>3. CASE LoadsAreas(a) \/ LoadsDrafts(a)
      BY <1>1, <3>1, <3>3, LoadsAreasFields, LoadsDraftsFields
    <3>4. CASE EndsLoop(a) \/ Recommends(a) \/ StoresRecs(a)
      BY <1>1, <3>1, <3>4, EndsLoopFields, AdviceFields DEF SameHistory
    <3>5. CASE LosesRun(a)
      BY <1>1, <2>4, <3>5, LosesFields
    <3>6. ASSUME NEW x \in Areas, AreaStep(a, x)
          PROVE  Stays /\ Lands
      <4>1. CASE RestoresArea(a, x) \/ RestoresDraft(a, x) \/ Analyses(a, x)
        <5>1. SameStore /\ SameRun /\ paid' = paid
          BY <1>1, <4>1, RestoresAreaFields, RestoresDraftFields, AnalysesFields
             DEF SameHistory
        <5>2. at'[a] # "discarding"
          BY <1>1, <4>1, RestoresAreaFields, RestoresDraftFields, AnalysesFields
        <5> QED  BY <3>1, <5>1, <5>2
      <4>2. CASE Validates(a, x) \/ Merges(a, x)
        BY <1>1, <3>1, <4>2, ValidatesFields, MergesFields DEF SameHistory
      <4>3. CASE SavesDraft(a, x)
        <5>1. at'[a] # "discarding" /\ SameRun
          BY <1>1, <4>3, SavesDraftFields DEF Gone
        <5>2. CASE SameStore /\ paid' = paid
          BY <3>1, <5>1, <5>2
        <5>3. CASE PutDraft(a, x)
          <6>1. job[a].ex = summary /\ job[a].step.over = summary
            BY <1>1, <2>4, <4>3, SavesDraftFields, OwnerStoresOverSummary
          <6>2. /\ draft'[x].over = summary /\ area' = area
                /\ \A y \in Areas : y # x => draft'[y] = draft[y]
                /\ paid' \subseteq paid \cup {x}
            BY <1>1, <5>3, <6>1, PutRow
          <6> QED  BY <2>1, <2>2, <2>4, <5>1, <6>2 DEF StoredAreaStaysRestorable, SameRun
        <5> QED  BY <1>1, <4>3, <5>2, <5>3, SavesDraftFields DEF Gone, SameHistory
      <4>4. CASE SavesArea(a, x)
        <5>1. SameRun /\ x \in job[a].cur /\ \A y \in job[a].cur : y = x
          BY <1>1, <2>4, <4>4, SavesAreaFields DEF Local, OneArea
        <5>2. CASE SameStore /\ paid' = paid /\ at'[a] # "discarding"
          BY <3>1, <5>1, <5>2
        <5>3. CASE PutArea(a, x) /\ (at'[a] = "discarding" => SameJob(a))
          <6>1. job[a].ex = summary /\ job[a].step.over = summary
            BY <1>1, <2>4, <4>4, SavesAreaFields, OwnerStoresOverSummary
          <6>2. /\ area'[x].over = summary /\ draft' = draft
                /\ \A y \in Areas : y # x => area'[y] = area[y]
                /\ paid' \subseteq paid \cup {x}
            BY <1>1, <5>3, <6>1, PutRow
          <6>3. Stays
            BY <2>1, <5>1, <6>2 DEF StoredAreaStaysRestorable, SameRun
          <6>4. Lands
            BY <2>2, <2>4, <5>1, <5>3, <6>2 DEF SameRun, SameJob, SameArea
          <6> QED  BY <6>3, <6>4
        <5> QED  BY <1>1, <4>4, <5>2, <5>3, SavesAreaFields DEF Gone, SameHistory
      <4>5. CASE Marks(a, x)
        <5>1. /\ \A y \in Areas : draft'[y].over = draft[y].over
              /\ area' = area /\ SameRun /\ paid' = paid /\ at'[a] # "discarding"
          BY <1>1, <4>5, MarksFields
        <5> QED  BY <2>1, <2>2, <2>4, <5>1 DEF StoredAreaStaysRestorable, SameRun
      <4>6. CASE DiscardsDraft(a, x)
        <5>1. /\ \A y \in Areas : y # x => draft'[y] = draft[y]
              /\ area' = area /\ SameRun /\ paid' = paid /\ at'[a] # "discarding"
          BY <1>1, <4>6, DiscardsFields
        <5>2. area[x].over = summary
          BY <1>1, <2>1, <2>4, <4>6, DiscardsFields DEF Landed
        <5> QED  BY <2>1, <2>2, <2>4, <5>1, <5>2 DEF StoredAreaStaysRestorable, SameRun
      <4> QED  BY <3>6, <4>1, <4>2, <4>3, <4>4, <4>5, <4>6 DEF AreaStep
    <3> QED  BY <1>3, <3>2, <3>3, <3>4, <3>5, <3>6 DEF AgentStep
  <2> QED  BY <2>3, <2>4
<1> QED  BY <1>2, <1>3 DEF Next

-----------------------------------------------------------------------------
(* The cap, over all attempts together.                                    *)

InLoop == {"picking"} \cup Working

Judged(r) == r.verdict.of # Nobody

\* The areas with a verdict in the store over exploration e, and what an
\* attempt has spent on its result or has still to take over.
JudgedOver(e) == {x \in Areas : \/ area[x].over = e /\ Judged(area[x])
                                \/ draft[x].over = e /\ Judged(draft[x])}
Charged(a) ==
  {x \in Areas : \/ Judged(job[a].result[x])
                 \/ x \in job[a].todo /\ (Judged(job[a].kept[x]) \/ Judged(job[a].drafts[x]))
                 \/ x \in job[a].cur /\ Judged(job[a].step)}

\* All that a resume still loading may find.
Reach(a) == JudgedOver(job[a].ex) \cup {x \in Areas : Judged(job[a].kept[x])}

\* What has been spent on the current exploration.
Base == IF at[owner] \in {"starting"} \cup Loading THEN JudgedOver(summary) ELSE Charged(owner)

StoreWithinCap == JudgedOver(summary) \subseteq Base /\ Cardinality(Base) <= Cap

LoadsWithinCap ==
  \A a \in Attempts : at[a] \in Loading =>
    /\ Cardinality(Reach(a)) <= Cap
    /\ job[a].ex = summary => Reach(a) \subseteq Base

ChargesWithinCap ==
  \A a \in Attempts :
    /\ Cardinality(Charged(a)) <= Cap
    /\ at[a] \in InLoop => Cardinality(Charged(a)) <= job[a].used

\* A finished area has a verdict if its draft has one.
AreaLeads ==
  \A x \in Areas :
    /\ area[x].over = draft[x].over /\ area[x].over # Nobody /\ Judged(draft[x])
    => Judged(area[x])

\* Every exploration has its summary.
Summarised == \A a \in Attempts : at[a] \notin Before => job[a].ex # Nobody

\* The owner has of the areas ahead of it what the store has of them.
Todo(x) ==
  LET o == job[owner]
  IN /\ o.kept[x] = IF area[x].over = summary THEN area[x] ELSE NoRow
     /\ o.kept[x] = NoRow =>
          o.drafts[x] = IF draft[x].over = summary THEN draft[x] ELSE NoRow

\* What the store has of the area it is at.
Current(x) ==
  /\ at[owner] # "discarding" => area[x].over # summary
  /\ at[owner] = "drafting" => draft[x].over # summary
  /\ at[owner] # "drafting" =>
       draft[x].over = summary /\ (Judged(draft[x]) => Judged(job[owner].step))
  /\ at[owner] = "discarding" => area[x] = job[owner].step

OwnerFollows ==
  /\ at[owner] = "drafts" => job[owner].kept = RowsOver(area, summary)
  /\ at[owner] \notin Loading \cup {"starting"} =>
       (\A x \in job[owner].todo : Todo(x)) /\ (\A x \in job[owner].cur : Current(x))

\* An area joins the result once.
Unmerged(a) ==
  \A x \in Areas :
    x \in job[a].todo \/ (x \in job[a].cur /\ at[a] \notin {"saving", "discarding"})
    => job[a].result[x] = NoRow

CapOf == /\ \A a \in Attempts : Unmerged(a)
         /\ StoreWithinCap /\ LoadsWithinCap /\ ChargesWithinCap
         /\ AreaLeads /\ Summarised /\ OwnerFollows

CapInv == faults = 0 /\ ~late => CapOf

\* Of a set within the cap, or within a number, a part is within it.
LEMMA PartWithin ==
  ASSUME NEW T \in SUBSET Areas, NEW S \in SUBSET T, NEW n \in Nat, Cardinality(T) <= n
  PROVE  Cardinality(S) <= n
<1>1. IsFiniteSet(T) /\ Cardinality(T) \in Nat
  BY FS_Subset, FS_CardinalityType
<1>2. Cardinality(S) \in Nat /\ Cardinality(S) <= Cardinality(T)
  BY <1>1, FS_Subset, FS_CardinalityType
<1> QED  BY <1>1, <1>2

\* One more is within one more.
LEMMA OneMoreWithin ==
  ASSUME NEW T \in SUBSET Areas, NEW x \in Areas, NEW S \in SUBSET (T \cup {x}),
         NEW n \in Nat, Cardinality(T) <= n
  PROVE  Cardinality(S) <= n + 1
<1>1. IsFiniteSet(T) /\ Cardinality(T) \in Nat
  BY FS_Subset, FS_CardinalityType
<1>2. Cardinality(T \cup {x}) <= n + 1
  <2>1. Cardinality(T \cup {x}) = IF x \in T THEN Cardinality(T) ELSE Cardinality(T) + 1
    BY <1>1, FS_AddElement
  <2> QED  BY <1>1, <2>1
<1>3. n + 1 \in Nat /\ T \cup {x} \in SUBSET Areas
  OBVIOUS
<1> QED  BY <1>2, <1>3, PartWithin

\* No row has a verdict.
LEMMA NoneJudged ==
  ~Judged(NoRow) /\ \A x \in Areas : ~Judged(NoRows[x])
BY NoRowFields DEF Judged

\* What an agent without memory is charged is nothing.
LEMMA NothingCharged ==
  ASSUME NEW a \in Attempts, job[a] = NoJob
  PROVE  Charged(a) = {} /\ Cardinality(Charged(a)) = 0
<1>1. Charged(a) = {}
  BY NoneJudged, NoJobFields DEF Charged
<1> QED  BY <1>1, FS_EmptySet

\* The budget of rows is of those with a verdict.
LEMMA BudgetJudged ==
  ASSUME NEW rows
  PROVE  Budget(rows) = Cardinality({x \in Areas : Judged(rows[x])})
<1>1. \A x \in Areas : (Spent(rows[x]) = 1) <=> Judged(rows[x])
  BY DEF Spent, Judged
<1>2. {x \in Areas : Spent(rows[x]) = 1} = {x \in Areas : Judged(rows[x])}
  BY <1>1
<1> QED  BY <1>2 DEF Budget

\* What a resume has spent before the loop is what it is charged.
LEMMA SpentIsCharged ==
  ASSUME Typed, NEW a \in Attempts
  PROVE  LET k == {x \in Areas : Judged(job[a].kept[x])}
             l == {x \in Areas : Judged(LiveRows(a)[x])}
         IN Cardinality(k \cup l) <= SpentBefore(job[a].kept, LiveRows(a))
<1> DEFINE k == {x \in Areas : Judged(job[a].kept[x])}
           l == {x \in Areas : Judged(LiveRows(a)[x])}
<1>1. IsFiniteSet(k) /\ IsFiniteSet(l)
  BY FS_Subset
<1>2. SpentBefore(job[a].kept, LiveRows(a)) = Cardinality(k) + Cardinality(l)
  BY BudgetJudged DEF SpentBefore
<1> HIDE DEF k, l
<1>3. /\ Cardinality(k \cup l) = Cardinality(k) + Cardinality(l) - Cardinality(k \cap l)
      /\ IsFiniteSet(k \cap l)
  BY <1>1, FS_Union, FS_Intersection
<1>4. Cardinality(k) \in Nat /\ Cardinality(l) \in Nat /\ Cardinality(k \cap l) \in Nat
  BY <1>1, <1>3, FS_CardinalityType
<1>5. Cardinality(k \cup l) <= SpentBefore(job[a].kept, LiveRows(a))
  BY <1>2, <1>3, <1>4
<1> QED  BY <1>5 DEF k, l

\* A step without a fault, and not late.
LEMMA NoFaultYet ==
  ASSUME Typed, NEW a \in Attempts, AgentStep(a), faults' = 0
  PROVE  faults = 0
<1>1. faults \in Nat
  BY DEF Typed
<1>2. NoFault \/ Fault
  <2>1. ASSUME NEW x \in Areas, AreaStep(a, x) PROVE NoFault \/ Fault
    BY <2>1 DEF AreaStep, RestoresArea, RestoresDraft, Analyses, SavesDraft, Validates, Marks,
                Merges, SavesArea, DiscardsDraft, NoFault, Fault
  <2> QED
    BY <2>1 DEF AgentStep, SkipsExploration, Explores, LoadsAreas, LoadsDrafts, LosesRun,
                EndsLoop, Recommends, StoresRecs, NoFault, Fault
<1> QED  BY <1>1, <1>2 DEF NoFault, Fault

\* A step of an agent, without a fault, charges it what it loads, or one more
\* verdict, or nothing.
LEMMA ChargedStep ==
  ASSUME Typed, NEW a \in Attempts, Local(a), Unmerged(a), Summarised, AgentStep(a), faults' = 0
  PROVE  \/ job'[a] = NoJob /\ at'[a] = "gone"
         \/ Explores(a) /\ Charged(a) = {} /\ Charged(a)' = {}
         \/ SkipsExploration(a) /\ Charged(a) = {} /\ Charged(a)' = {}
         \/ LoadsAreas(a)
         \/ LoadsDrafts(a)
         \/ /\ at[a] \in Working /\ at'[a] \in Working
            /\ job[a].used < Cap /\ job'[a].used = job[a].used + 1
            /\ \E x \in Areas : Charged(a)' \subseteq Charged(a) \cup {x}
            /\ Charged(a) \subseteq Charged(a)'
         \/ /\ at[a] \in InLoop \cup AfterLoop /\ at'[a] \in InLoop \cup AfterLoop
            /\ Charged(a)' = Charged(a)
            /\ at'[a] \in InLoop => at[a] \in InLoop /\ job'[a].used = job[a].used
<1> DEFINE Same == /\ at[a] \in InLoop \cup AfterLoop /\ at'[a] \in InLoop \cup AfterLoop
                   /\ Charged(a)' = Charged(a)
                   /\ at'[a] \in InLoop => at[a] \in InLoop /\ job'[a].used = job[a].used
<1>1. CASE SkipsExploration(a) \/ Explores(a)
  <2>1. job[a] = NoJob
    <3>1. at[a] = "starting"
      BY <1>1 DEF SkipsExploration, Explores
    <3> QED  BY <3>1 DEF Local, Idle, Before
  <2>2. Charged(a) = {}
    BY <2>1, NothingCharged
  <2>3. Charged(a)' = Charged(a)
    BY <1>1, SkipsFields, ExploresFields
       DEF Charged, SameLoaded, SameArea, SameResult, SameTodo
  <2> QED  BY <1>1, <2>2, <2>3
<1>2. CASE LosesRun(a)
  BY <1>2, LosesFields DEF Gone
<1>3. CASE EndsLoop(a)
  <2>1. /\ at[a] = "picking" /\ at'[a] = "recommending"
        /\ job[a].todo = {} /\ job'[a].todo = {}
        /\ job'[a].result = job[a].result /\ job'[a].cur = job[a].cur
        /\ job'[a].step = job[a].step
    BY <1>3, EndsLoopFields DEF SameArea, SameResult, SameTodo
  <2>2. Charged(a)' = Charged(a)
    BY <2>1 DEF Charged
  <2> QED  BY <2>1, <2>2 DEF InLoop, Working, AfterLoop
<1>4. CASE Recommends(a) \/ StoresRecs(a)
  <2>1. /\ at[a] \in AfterLoop /\ at'[a] \in {"storing", "finished"}
        /\ job'[a].todo = job[a].todo
        /\ job'[a].result = job[a].result /\ job'[a].cur = job[a].cur
        /\ job'[a].step = job[a].step
    BY <1>4, AdviceFields DEF SameArea, SameResult, SameTodo, AfterLoop
  <2>2. job[a].todo = {}
    BY <2>1 DEF Local, OneArea
  <2>3. Charged(a)' = Charged(a)
    BY <2>1, <2>2 DEF Charged
  <2> QED  BY <2>1, <2>3 DEF InLoop, Working, AfterLoop
<1>5. ASSUME NEW x \in Areas, AreaStep(a, x)
      PROVE  \/ job'[a] = NoJob /\ at'[a] = "gone"
             \/ Same
             \/ /\ at[a] \in Working /\ at'[a] \in Working
                /\ job[a].used < Cap /\ job'[a].used = job[a].used + 1
                /\ Charged(a)' \subseteq Charged(a) \cup {x} /\ Charged(a) \subseteq Charged(a)'
  <2> DEFINE j == job[a]
             k == job'[a]
  <2>1. /\ at[a] \notin Working => j.cur = {}
        /\ at[a] # "none" /\ at[a] \notin Before => j.ex # Nobody
        /\ \A y \in j.cur : y \notin j.todo
        /\ x \in j.cur => \A y \in j.cur : y = x
    BY DEF Local, OneArea, Summarised
  <2>2. ASSUME at[a] \in InLoop, at'[a] \in InLoop, k.used = j.used, Charged(a)' = Charged(a)
        PROVE  Same
    BY <2>2
  <2>3. CASE RestoresArea(a, x)
    <3>1. /\ at[a] = "picking" /\ at'[a] = "picking" /\ x \in j.todo /\ k.todo = j.todo \ {x}
          /\ j.kept[x] # NoRow /\ k.result[x] = j.kept[x]
          /\ \A y \in Areas \ {x} : k.result[y] = j.result[y]
          /\ k.kept = j.kept /\ k.drafts = j.drafts /\ k.cur = j.cur /\ k.used = j.used
      BY <2>3, RestoresAreaFields DEF Leaves, SameLoaded, SameArea, SameUsed
    <3>2. j.drafts[x] = NoRow /\ j.result[x] = NoRow /\ j.cur = {}
      BY <2>1, <3>1 DEF Local, RestoredOnce, Unmerged, Working
    <3> HIDE DEF j, k
    <3>3. Charged(a)' = Charged(a)
      BY <3>1, <3>2, NoneJudged DEF Charged, j, k
    <3> QED  BY <2>2, <3>1, <3>3 DEF InLoop
  <2>4. CASE RestoresDraft(a, x)
    <3>1. /\ at[a] = "picking" /\ at'[a] = "validating" /\ x \in j.todo
          /\ k.todo = j.todo \ {x} /\ j.kept[x] = NoRow /\ k.cur = {x}
          /\ k.step = j.drafts[x] /\ k.result = j.result
          /\ k.kept = j.kept /\ k.drafts = j.drafts /\ k.used = j.used
      BY <2>4, RestoresDraftFields DEF Leaves, SameLoaded, SameResult, SameUsed
    <3>2. j.result[x] = NoRow /\ j.cur = {}
      BY <2>1, <3>1 DEF Unmerged, Working
    <3>3. Charged(a)' = Charged(a)
      BY <3>1, <3>2, NoneJudged DEF Charged
    <3> QED  BY <2>2, <3>1, <3>3 DEF InLoop, Working
  <2>5. CASE Analyses(a, x)
    <3>1. /\ at[a] = "picking" /\ at'[a] \in {"validating", "drafting"} /\ x \in j.todo
          /\ k.todo = j.todo \ {x} /\ j.kept[x] = NoRow /\ j.drafts[x] = NoRow
          /\ k.cur = {x} /\ k.step = Analysed(a) /\ k.result = j.result
          /\ k.kept = j.kept /\ k.drafts = j.drafts /\ k.used = j.used
      BY <2>5, AnalysesFields DEF Leaves, SameLoaded, SameResult, SameUsed
    <3>2. j.result[x] = NoRow /\ j.cur = {}
      BY <2>1, <3>1 DEF Unmerged, Working
    <3>3. ~Judged(Analysed(a))
      BY AnalysedType DEF Judged, NoVerdict
    <3>4. Charged(a)' = Charged(a)
      BY <3>1, <3>2, <3>3, NoneJudged DEF Charged
    <3> QED  BY <2>2, <3>1, <3>4 DEF InLoop, Working
  <2>6. ASSUME SameLoaded(a), k.cur = j.cur, k.step = j.step, SameResult(a), SameTodo(a)
        PROVE  Charged(a)' = Charged(a)
    BY <2>6 DEF Charged, SameLoaded, SameResult, SameTodo
  <2>7. CASE SavesDraft(a, x)
    <3>1. CASE Gone(a)
      BY <3>1 DEF Gone
    <3>2. CASE ~Gone(a)
      <4>1. /\ at[a] = "drafting" /\ at'[a] = "validating" /\ SameLoaded(a) /\ SameResult(a)
            /\ SameTodo(a) /\ k.used = j.used /\ k.cur = j.cur /\ k.step = j.step
        BY <2>7, <3>2, SavesDraftFields DEF SameUsed
      <4> QED  BY <2>2, <2>6, <4>1 DEF InLoop, Working
    <3> QED  BY <3>1, <3>2
  <2>8. CASE Validates(a, x)
    <3>1. CASE at'[a] = "merging" /\ SameJob(a)
      <4>1. at[a] = "validating"
        BY <2>8, ValidatesFields
      <4> QED
        BY <2>2, <2>6, <3>1, <4>1 DEF InLoop, Working, SameJob, SameArea, SameUsed
    <3>2. CASE ~(at'[a] = "merging" /\ SameJob(a))
      <4>1. /\ at[a] = "validating" /\ at'[a] = "marking" /\ x \in j.cur
            /\ j.step.verdict = NoVerdict /\ j.used < Cap /\ k.used = j.used + 1
            /\ k.cur = j.cur /\ SameLoaded(a) /\ SameResult(a) /\ SameTodo(a)
        BY <2>8, <3>2, ValidatesFields
      <4>2. ~Judged(j.step) /\ \A y \in j.cur : y = x
        BY <2>1, <4>1 DEF Judged, NoVerdict
      <4>3. Charged(a)' \subseteq Charged(a) \cup {x} /\ Charged(a) \subseteq Charged(a)'
        BY <4>1, <4>2 DEF Charged, SameLoaded, SameResult, SameTodo
      <4> QED  BY <4>1, <4>3 DEF Working
    <3> QED  BY <3>1, <3>2
  <2>9. CASE Marks(a, x)
    <3>1. at[a] = "marking" /\ at'[a] = "merging" /\ SameJob(a)
      BY <2>9, MarksFields
    <3> QED
      BY <2>2, <2>6, <3>1 DEF InLoop, Working, SameJob, SameArea, SameUsed
  <2>10. CASE Merges(a, x)
    <3>1. /\ at[a] = "merging" /\ x \in j.cur
          /\ k.result[x].verdict = j.step.verdict
          /\ \A y \in Areas \ {x} : k.result[y] = j.result[y]
          /\ k.kept = j.kept /\ k.drafts = j.drafts /\ k.todo = j.todo /\ k.used = j.used
      BY <2>10, MergesFields DEF SameLoaded, SameTodo, SameUsed
    <3>2. at'[a] = "saving" /\ k.step = k.result[x] /\ k.cur = j.cur
      <4>1. j.ex # Nobody
        BY <2>1, <3>1 DEF Before
      <4> QED  BY <2>10, <4>1, MergesFields
    <3>3. j.result[x] = NoRow /\ x \notin j.todo /\ \A y \in j.cur : y = x
      BY <2>1, <3>1 DEF Unmerged
    <3>4. Judged(k.result[x]) <=> Judged(j.step)
      BY <3>1 DEF Judged
    <3> HIDE DEF j, k
    <3>5. Charged(a)' = Charged(a)
      BY <3>1, <3>2, <3>3, <3>4, NoneJudged DEF Charged, j, k
    <3> QED  BY <2>2, <3>1, <3>2, <3>5 DEF InLoop, Working, j, k
  <2>11. CASE SavesArea(a, x)
    <3>1. CASE Gone(a)
      BY <3>1 DEF Gone
    <3>2. CASE ~Gone(a)
      <4>1. at[a] = "saving" /\ at'[a] = "discarding" /\ SameJob(a)
        BY <2>11, <3>2, SavesAreaFields
      <4> QED
        BY <2>2, <2>6, <4>1 DEF InLoop, Working, SameJob, SameArea, SameUsed
    <3> QED  BY <3>1, <3>2
  <2>12. CASE DiscardsDraft(a, x)
    <3>1. /\ at[a] = "discarding" /\ at'[a] = "picking" /\ x \in j.cur /\ k.cur = {}
          /\ k.kept = j.kept /\ k.drafts = j.drafts /\ k.todo = j.todo /\ k.used = j.used
          /\ k.result = j.result
      BY <2>12, DiscardsFields DEF NoArea, SameLoaded, SameTodo, SameUsed, SameResult
    <3>2. j.result[x] = j.step /\ \A y \in j.cur : y = x
      BY <2>1, <3>1 DEF Local, WritesItsStep
    <3>3. Charged(a)' = Charged(a)
      BY <3>1, <3>2 DEF Charged
    <3> QED  BY <2>2, <3>1, <3>3 DEF InLoop, Working
  <2> QED  BY <1>5, <2>3, <2>4, <2>5, <2>7, <2>8, <2>9, <2>10, <2>11, <2>12 DEF AreaStep
<1> QED  BY <1>1, <1>2, <1>3, <1>4, <1>5 DEF AgentStep

\* An area joins the result once.
LEMMA MergesOnce ==
  ASSUME Typed, NEW a \in Attempts, Local(a), Unmerged(a), AgentStep(a)
  PROVE  Unmerged(a)'
<1>1. CASE Gone(a)
  BY <1>1, NoJobFields, NoRowFields DEF Gone, Unmerged
<1>2. CASE SkipsExploration(a) \/ Explores(a)
  BY <1>2, SkipsFields, ExploresFields DEF Unmerged, SameArea, SameResult, SameTodo
<1>3. CASE LoadsAreas(a) \/ LoadsDrafts(a)
  BY <1>3, LoadsAreasFields, LoadsDraftsFields DEF Unmerged, SameArea, SameResult, SameTodo
<1>4. CASE EndsLoop(a) \/ Recommends(a) \/ StoresRecs(a)
  BY <1>4, EndsLoopFields, AdviceFields DEF Unmerged, SameArea, SameResult, SameTodo
<1>5. ASSUME NEW x \in Areas, AreaStep(a, x)
      PROVE  Unmerged(a)'
  <2>1. /\ at[a] \notin Working => job[a].cur = {}
        /\ \A y \in job[a].cur : y \notin job[a].todo
        /\ x \in job[a].cur => \A y \in job[a].cur : y = x
    BY DEF Local, OneArea
  <2>2. CASE RestoresArea(a, x)
    BY <2>1, <2>2, RestoresAreaFields DEF Unmerged, Leaves, SameArea, Working
  <2>3. CASE RestoresDraft(a, x)
    BY <2>3, RestoresDraftFields DEF Unmerged, Leaves, SameResult
  <2>4. CASE Analyses(a, x)
    BY <2>1, <2>4, AnalysesFields DEF Unmerged, Leaves, SameResult, SameArea, Working
  <2>5. CASE SavesDraft(a, x)
    BY <1>1, <2>5, SavesDraftFields DEF Unmerged, SameResult, SameTodo
  <2>6. CASE Validates(a, x) \/ Marks(a, x)
    BY <2>6, ValidatesFields, MarksFields DEF Unmerged, SameResult, SameTodo, SameJob, SameArea
  <2>7. CASE Merges(a, x)
    BY <2>1, <2>7, MergesFields DEF Unmerged, NoArea, SameTodo
  <2>8. CASE SavesArea(a, x)
    BY <1>1, <2>8, SavesAreaFields DEF Unmerged, SameResult, SameTodo, SameJob, SameArea, NoArea
  <2>9. CASE DiscardsDraft(a, x)
    BY <2>9, DiscardsFields DEF Unmerged, SameResult, SameTodo, NoArea
  <2> QED  BY <1>5, <2>2, <2>3, <2>4, <2>5, <2>6, <2>7, <2>8, <2>9 DEF AreaStep
<1> QED  BY <1>1, <1>2, <1>3, <1>4, <1>5, LosesFields DEF AgentStep

\* What the owner's steps add to the verdicts in the store is what it is
\* charged already, over the exploration of the summary.
LEMMA OwnerAdds ==
  ASSUME AnalysisInv, CapOf, AgentStep(owner), summary' = summary, NEW e, NEW x \in Areas,
         x \in JudgedOver(e)'
  PROVE  x \in JudgedOver(e) \/ (e = summary /\ x \in Charged(owner) /\ at[owner] \in Working)
<1> DEFINE a == owner
<1>1. Typed /\ a \in Attempts /\ AgentStep(a)
  BY DEF AnalysisInv, Typed
<1>2. x \in job[a].cur /\ Judged(job[a].step) => x \in Charged(a)
  BY DEF Charged
<1>3. \/ area'[x].over = e /\ Judged(area'[x])
      \/ draft'[x].over = e /\ Judged(draft'[x])
  BY DEF JudgedOver, Judged
<1>4. CASE area'[x].over = e /\ Judged(area'[x])
  <2>1. CASE area'[x] = area[x]
    BY <1>4, <2>1 DEF JudgedOver
  <2>2. CASE at[a] = "saving" /\ x \in job[a].cur /\ area'[x] = job[a].step
    BY <1>2, <1>4, <2>2, OwnerStoresOverSummary DEF Working
  <2> QED  BY <1>1, <2>1, <2>2, WritesItsOwn
<1>5. CASE draft'[x].over = e /\ Judged(draft'[x])
  <2>1. CASE draft'[x] = draft[x]
    BY <1>5, <2>1 DEF JudgedOver
  <2>2. CASE at[a] = "drafting" /\ x \in job[a].cur /\ draft'[x] = job[a].step
    BY <1>2, <1>5, <2>2, OwnerStoresOverSummary DEF Working
  <2>3. CASE draft'[x] = NoRow
    BY <1>5, <2>3, NoneJudged
  <2>4. CASE /\ at[a] = "marking" /\ x \in job[a].cur
             /\ draft'[x].over = draft[x].over /\ draft'[x].verdict = job[a].step.verdict
    <3>1. draft[x].over = summary
      BY <2>4 DEF CapOf, OwnerFollows, Current, Loading
    <3>2. Judged(job[a].step)
      BY <1>5, <2>4 DEF Judged
    <3> QED  BY <1>2, <1>5, <2>4, <3>1, <3>2 DEF Working
  <2> QED  BY <1>1, <2>1, <2>2, <2>3, <2>4, WritesItsOwn
<1> QED  BY <1>3, <1>4, <1>5

\* What a resume is charged is within what it could reach.
LEMMA LoadsReached ==
  ASSUME Typed, NEW a \in Attempts, Local(a), LoadsAreas(a) \/ LoadsDrafts(a), faults' = 0
  PROVE  /\ Charged(a)' \subseteq Reach(a)
         /\ LoadsAreas(a) => Reach(a)' \subseteq Reach(a)
         /\ LoadsDrafts(a) => Cardinality(Charged(a)') <= job'[a].used
<1> DEFINE j == job[a]
<1>1. /\ at[a] \in Loading /\ j.cur = {} /\ j.todo = Areas /\ j.result = NoRows
      /\ j.drafts = NoRows
  BY DEF LoadsAreas, LoadsDrafts, Loading, Local, OneArea, Working, RestoredOnce
<1>2. CASE LoadsAreas(a)
  <2>1. /\ job'[a].kept = RowsOver(area, j.ex) /\ job'[a].drafts = NoRows
        /\ job'[a].ex = j.ex /\ job'[a].cur = {} /\ job'[a].result = NoRows
        /\ area' = area /\ draft' = draft /\ at[a] = "areas"
    BY <1>1, <1>2, LoadsAreasFields DEF SameOver, SameArea, SameResult, SameStore
  <2>2. \A x \in Areas : Judged(RowsOver(area, j.ex)[x]) => x \in JudgedOver(j.ex)
    BY NoneJudged, RowsOverType DEF JudgedOver, Typed
  <2>3. Charged(a)' \subseteq Reach(a)
    BY <2>1, <2>2, NoneJudged DEF Charged, Reach
  <2>4. Reach(a)' \subseteq Reach(a)
    BY <2>1, <2>2 DEF Reach, JudgedOver
  <2>5. ~LoadsDrafts(a)
    BY <2>1 DEF LoadsDrafts
  <2> QED  BY <2>3, <2>4, <2>5
<1>3. CASE LoadsDrafts(a)
  <2>1. /\ job'[a].kept = j.kept /\ job'[a].drafts = LiveRows(a)
        /\ job'[a].used = SpentBefore(j.kept, LiveRows(a))
        /\ job'[a].cur = {} /\ job'[a].result = NoRows /\ job'[a].todo = Areas
    BY <1>1, <1>3, LoadsDraftsFields DEF SameArea, SameResult, SameTodo
  <2> DEFINE k == {x \in Areas : Judged(j.kept[x])}
             l == {x \in Areas : Judged(LiveRows(a)[x])}
  <2>2. Charged(a)' = k \cup l
    BY <2>1, NoneJudged DEF Charged
  <2>3. l \subseteq JudgedOver(j.ex)
    BY NoneJudged, LiveRowsType DEF JudgedOver
  <2>4. Charged(a)' \subseteq Reach(a)
    BY <2>2, <2>3 DEF Reach
  <2>5. Cardinality(Charged(a)') <= job'[a].used
    BY <2>1, <2>2, SpentIsCharged
  <2>6. ~LoadsAreas(a)
    BY <1>3 DEF LoadsAreas, LoadsDrafts
  <2> QED  BY <2>4, <2>5, <2>6
<1> QED  BY <1>2, <1>3

\* What an agent is charged, and what has been spent, are of areas.
LEMMA OfAreas ==
  ASSUME NEW a \in Attempts
  PROVE  /\ Charged(a) \in SUBSET Areas /\ Charged(a)' \in SUBSET Areas
         /\ Reach(a) \in SUBSET Areas /\ Reach(a)' \in SUBSET Areas
         /\ Base \in SUBSET Areas /\ Base' \in SUBSET Areas
         /\ \A e : JudgedOver(e) \in SUBSET Areas /\ JudgedOver(e)' \in SUBSET Areas
BY DEF Charged, Reach, Base, JudgedOver

\* No agent is charged more than the cap, or than it counts.
LEMMA ChargesStep ==
  ASSUME AnalysisInv, CapOf, NEW a \in Attempts, AgentStep(a), faults' = 0
  PROVE  ChargesWithinCap'
<1>1. Typed /\ Local(a) /\ Unmerged(a) /\ Summarised /\ Typed'
  BY AgentStepTyped DEF AnalysisInv, CapOf
<1>2. Others(a)
  BY <1>1, AgentLocal DEF AnalysisInv, Order
<1>3. ASSUME NEW b \in Attempts, b # a
      PROVE  /\ Cardinality(Charged(b)') <= Cap
             /\ at'[b] \in InLoop => Cardinality(Charged(b)') <= job'[b].used
  <2>1. job'[b] = job[b] /\ at'[b] = at[b]
    BY <1>2, <1>3 DEF Others
  <2>2. Charged(b)' = Charged(b)
    BY <2>1 DEF Charged
  <2> QED  BY <2>1, <2>2 DEF CapOf, ChargesWithinCap
<1>4. /\ Cardinality(Charged(a)') <= Cap
      /\ at'[a] \in InLoop => Cardinality(Charged(a)') <= job'[a].used
  <2>1. Charged(a) \in SUBSET Areas /\ Charged(a)' \in SUBSET Areas /\ Reach(a) \in SUBSET Areas
    BY OfAreas
  <2>2. job[a].used \in Nat /\ job'[a].used \in Nat
    BY <1>1 DEF Typed, Job
  <2>3. /\ Cardinality(Charged(a)) <= Cap
        /\ at[a] \in InLoop => Cardinality(Charged(a)) <= job[a].used
    BY DEF CapOf, ChargesWithinCap
  <2>4. CASE Charged(a)' = {}
    BY <2>2, <2>4, FS_EmptySet
  <2>5. CASE job'[a] = NoJob
    <3>1. Charged(a)' = {}
      BY <2>5, NoneJudged, NoJobFields DEF Charged
    <3> QED  BY <2>4, <3>1
  <2>6. CASE LoadsAreas(a) \/ LoadsDrafts(a)
    <3>1. Cardinality(Reach(a)) <= Cap
      BY <2>6 DEF CapOf, LoadsWithinCap, LoadsAreas, LoadsDrafts, Loading
    <3>2. Charged(a)' \subseteq Reach(a)
      BY <1>1, <2>6, LoadsReached
    <3>3. Cardinality(Charged(a)') <= Cap
      BY <2>1, <3>1, <3>2, PartWithin
    <3>4. at'[a] \in InLoop => LoadsDrafts(a)
      BY <1>1, <2>6, LoadsAreasFields DEF InLoop, Working
    <3> QED  BY <1>1, <2>6, <3>3, <3>4, LoadsReached
  <2>7. CASE /\ at[a] \in Working /\ at'[a] \in Working
             /\ job[a].used < Cap /\ job'[a].used = job[a].used + 1
             /\ \E x \in Areas : Charged(a)' \subseteq Charged(a) \cup {x}
    <3>1. PICK x \in Areas : Charged(a)' \subseteq Charged(a) \cup {x}
      BY <2>7
    <3>2. Cardinality(Charged(a)) <= job[a].used
      BY <2>3, <2>7 DEF InLoop
    <3>3. Cardinality(Charged(a)') <= job[a].used + 1
      BY <2>1, <2>2, <3>1, <3>2, OneMoreWithin
    <3>4. Cardinality(Charged(a)') \in Nat
      BY <2>1, FS_Subset, FS_CardinalityType
    <3> QED  BY <2>2, <2>7, <3>3, <3>4
  <2>8. CASE /\ Charged(a)' = Charged(a)
             /\ at'[a] \in InLoop => at[a] \in InLoop /\ job'[a].used = job[a].used
    BY <2>3, <2>8
  <2> QED  BY <1>1, <2>4, <2>5, <2>6, <2>7, <2>8, ChargedStep
<1> QED  BY <1>3, <1>4 DEF ChargesWithinCap

\* After its start an attempt keeps its exploration, and the summary is the
\* same.
LEMMA StartsAre ==
  ASSUME Typed, NEW a \in Attempts, AgentStep(a), ~Explores(a)
  PROVE  /\ summary' = summary
         /\ ~SkipsExploration(a) => at'[a] = "gone" \/ job'[a].ex = job[a].ex
         /\ at[a] = "starting" => SkipsExploration(a) \/ at'[a] = "gone"
<1>1. at[a] = "starting" => SkipsExploration(a) \/ LosesRun(a)
  <2>1. ASSUME NEW x \in Areas, AreaStep(a, x) PROVE at[a] # "starting"
    BY <2>1 DEF AreaStep, RestoresArea, RestoresDraft, Analyses, SavesDraft, Validates, Marks,
                Merges, SavesArea, DiscardsDraft
  <2> QED
    BY <2>1 DEF AgentStep, LoadsAreas, LoadsDrafts, EndsLoop, Recommends, StoresRecs
<1>2. CASE at[a] = "starting" /\ LosesRun(a)
  BY <1>2, LosesFields DEF Gone, SameRun
<1>3. CASE SkipsExploration(a)
  BY <1>3, SkipsFields DEF SameRun
<1>4. CASE at[a] # "starting"
  BY <1>4, SettledAtStart
<1> QED  BY <1>1, <1>2, <1>3, <1>4

\* Every attempt's exploration has its summary, when no step fails.
LEMMA SummarisedStep ==
  ASSUME AnalysisInv, CapOf, NEW a \in Attempts, AgentStep(a), faults' = 0
  PROVE  Summarised'
<1>1. Typed /\ Local(a) /\ Summarised /\ Others(a) /\ at[a] \notin {"none", "gone", "finished"}
  BY AgentLocal DEF AnalysisInv, CapOf, Order
<1>2. at'[a] \notin Before => job'[a].ex # Nobody
  <2>1. CASE SkipsExploration(a)
    BY <1>1, <2>1, SkipsFields
  <2>2. CASE Explores(a)
    BY <1>1, <2>2, ExploresFields
  <2>3. CASE ~SkipsExploration(a) /\ ~Explores(a)
    <3>1. \/ at'[a] = "gone" \/ job'[a].ex = job[a].ex
      BY <1>1, <2>3, SettledAtStart, StartsAre
    <3>2. at[a] = "starting" => at'[a] = "gone"
      BY <1>1, <2>3, StartsAre
    <3> QED  BY <1>1, <3>1, <3>2 DEF Summarised, Before
  <2> QED  BY <2>1, <2>2, <2>3
<1> QED  BY <1>1, <1>2 DEF Summarised, Others

\* What has been spent only grows, within an exploration.
LEMMA BaseGrows ==
  ASSUME AnalysisInv, CapOf, NEW a \in Attempts, AgentStep(a), faults' = 0, ~late',
         ~Explores(a)
  PROVE  Base \subseteq Base' /\ Cardinality(Base') <= Cap
<1>1. /\ Typed /\ owner \in Attempts /\ Local(owner) /\ Local(a) /\ Others(a)
      /\ owner' = owner /\ summary' = summary
  BY AgentLocal, WritesItsOwn, StartsAre DEF AnalysisInv, Typed, Order
<1>2. Cardinality(Base) <= Cap /\ JudgedOver(summary) \subseteq Base
  BY DEF CapOf, StoreWithinCap
<1>3. Cardinality(Charged(a)') <= Cap
  BY <1>1, ChargesStep DEF ChargesWithinCap
<1>4. CASE a # owner
  <2>1. SameStore /\ job'[owner] = job[owner] /\ at'[owner] = at[owner]
    BY <1>1, <1>4, OthersAreLate DEF Others
  <2>2. Base' = Base
    BY <1>1, <2>1 DEF Base, JudgedOver, Charged, SameStore
  <2> QED  BY <1>2, <2>2
<1>5. CASE a = owner
  <2>1. CASE SkipsExploration(a) \/ LoadsAreas(a)
    <3>1. /\ at[a] \in {"starting", "areas"} /\ at'[a] \in {"areas", "drafts"}
          /\ area' = area /\ draft' = draft
      BY <1>1, <1>5, <2>1, SkipsFields, LoadsAreasFields DEF SameStore
    <3>2. Base' = JudgedOver(summary)' /\ Base = JudgedOver(summary)
      BY <1>1, <1>5, <3>1 DEF Base, Loading
    <3>3. JudgedOver(summary)' = JudgedOver(summary)
      BY <1>1, <3>1 DEF JudgedOver
    <3> QED  BY <1>2, <3>2, <3>3
  <2>2. CASE LoadsDrafts(a)
    <3>1. /\ at[a] = "drafts" /\ at'[a] = "picking"
          /\ job'[a].kept = job[a].kept /\ job'[a].drafts = LiveRows(a)
          /\ job'[a].todo = job[a].todo
      BY <1>1, <1>5, <2>2, LoadsDraftsFields DEF SameTodo
    <3>2. /\ Base = JudgedOver(summary) /\ Base' = Charged(a)'
      BY <1>1, <1>5, <3>1 DEF Base, Loading
    <3>3. /\ job[a].kept = RowsOver(area, summary) /\ job[a].ex = summary
          /\ job[a].todo = Areas /\ summary # Nobody
      BY <1>1, <1>5, <3>1
         DEF CapOf, OwnerFollows, AnalysisInv, Order, Local, RestoredOnce, Loading, Summarised,
             Before
    <3>4. ASSUME NEW x \in Areas, x \in JudgedOver(summary)
          PROVE  Judged(job[a].kept[x]) \/ Judged(LiveRows(a)[x])
      <4>1. job[a].kept[x] = IF area[x].over = summary THEN area[x] ELSE NoRow
        BY <1>1, <3>3, RowsOverType DEF Typed
      <4>2. CASE area[x].over = summary /\ Judged(area[x])
        BY <4>1, <4>2
      <4>3. CASE draft[x].over = summary /\ Judged(draft[x]) /\ area[x].over # summary
        <5>1. job[a].kept[x] = NoRow
          BY <4>1, <4>3
        <5> QED  BY <1>1, <3>3, <4>3, <5>1, LiveRowsType
      <4>4. CASE draft[x].over = summary /\ Judged(draft[x]) /\ area[x].over = summary
        <5>1. Judged(area[x])
          BY <3>3, <4>4 DEF CapOf, AreaLeads
        <5> QED  BY <4>1, <4>4, <5>1
      <4> QED  BY <3>4, <4>2, <4>3, <4>4 DEF JudgedOver
    <3>5. JudgedOver(summary) \subseteq Charged(a)'
      BY <3>1, <3>3, <3>4 DEF Charged, JudgedOver
    <3> QED  BY <1>3, <1>5, <3>2, <3>5
  <2>4. CASE ~(SkipsExploration(a) \/ LoadsAreas(a) \/ LoadsDrafts(a))
    <3>1. at'[a] # "gone"
      BY <1>1, <1>5, AgentOrder DEF Order
    <3>2. /\ at[a] \in InLoop \cup AfterLoop /\ at'[a] \in InLoop \cup AfterLoop
          /\ Charged(a) \subseteq Charged(a)'
      BY <1>1, <1>5, <2>4, <3>1, ChargedStep DEF CapOf, InLoop
    <3>3. Base = Charged(a) /\ Base' = Charged(a)'
      BY <1>1, <1>5, <3>2 DEF Base, Loading, InLoop, AfterLoop, Working
    <3> QED  BY <1>3, <1>5, <3>2, <3>3
  <2> QED  BY <2>1, <2>2, <2>4
<1> QED  BY <1>4, <1>5

\* The store stays within what has been spent.
LEMMA StoreStep ==
  ASSUME AnalysisInv, CapOf, NEW a \in Attempts, AgentStep(a), faults' = 0, ~late',
         ~Explores(a)
  PROVE  JudgedOver(summary)' \subseteq Base'
<1>1. /\ Typed /\ owner \in Attempts /\ owner' = owner /\ summary' = summary
  BY WritesItsOwn, StartsAre DEF AnalysisInv, Typed
<1>2. Base \subseteq Base' /\ JudgedOver(summary) \subseteq Base
  BY BaseGrows DEF CapOf, StoreWithinCap
<1>3. CASE a # owner
  <2>1. area' = area /\ draft' = draft
    BY <1>1, <1>3, OthersAreLate DEF SameStore
  <2>2. JudgedOver(summary)' = JudgedOver(summary)
    BY <1>1, <2>1 DEF JudgedOver
  <2> QED  BY <1>2, <2>2
<1>4. CASE a = owner
  <2>1. PICK e \in 0..MaxAttempt : e = summary
    BY <1>1 DEF Typed
  <2>2. ASSUME NEW x \in Areas, x \in JudgedOver(e)'
        PROVE  x \in Base'
    <3>1. CASE x \in JudgedOver(e)
      BY <1>2, <2>1, <3>1
    <3>2. CASE x \in Charged(owner) /\ at[owner] \in Working
      <4>1. x \in Base
        BY <3>2 DEF Base, Working, Loading
      <4> QED  BY <1>2, <4>1
    <3> QED  BY <1>1, <1>4, <2>2, <3>1, <3>2, OwnerAdds
  <2>3. JudgedOver(summary)' = JudgedOver(e)'
    BY <1>1, <2>1 DEF JudgedOver
  <2>4. JudgedOver(e)' \subseteq Areas
    BY DEF JudgedOver
  <2> QED  BY <2>2, <2>3, <2>4
<1> QED  BY <1>3, <1>4

\* What resumes may still load is within the cap, and part of what has been
\* spent.
LEMMA LoadsStep ==
  ASSUME AnalysisInv, CapOf, NEW a \in Attempts, AgentStep(a), faults' = 0, ~late',
         ~Explores(a), NEW b \in Attempts, at'[b] \in Loading
  PROVE  /\ Cardinality(Reach(b)') <= Cap
         /\ job'[b].ex = summary' => Reach(b)' \subseteq Base'
<1>1. /\ Typed /\ owner \in Attempts /\ Local(a) /\ Others(a)
      /\ owner' = owner /\ summary' = summary
  BY AgentLocal, WritesItsOwn, StartsAre DEF AnalysisInv, Typed, Order
<1>2. Base \subseteq Base' /\ Cardinality(Base') <= Cap
  BY BaseGrows
<1>3. ASSUME at[b] \in Loading
      PROVE  /\ Cardinality(Reach(b)) <= Cap
             /\ job[b].ex = summary => Reach(b) \subseteq Base
  BY <1>3 DEF CapOf, LoadsWithinCap
<1>4. /\ Reach(b) \in SUBSET Areas /\ Reach(b)' \in SUBSET Areas /\ Base' \in SUBSET Areas
      /\ \A e : JudgedOver(e)' \in SUBSET Areas
  BY OfAreas
<1>5. CASE at[b] \in Loading /\ job'[b].ex = job[b].ex /\ Reach(b)' \subseteq Reach(b)
  <2>1. Cardinality(Reach(b)') <= Cap
    BY <1>3, <1>4, <1>5, PartWithin
  <2> QED  BY <1>1, <1>2, <1>3, <1>5, <2>1
<1>6. CASE b # a
  <2>1. job'[b] = job[b] /\ at'[b] = at[b] /\ at[b] \in Loading
    BY <1>1, <1>6 DEF Others
  <2>2. CASE a # owner
    <3>1. area' = area /\ draft' = draft
      BY <1>1, <2>2, OthersAreLate DEF SameStore
    <3>2. Reach(b)' = Reach(b)
      BY <2>1, <3>1 DEF Reach, JudgedOver
    <3> QED  BY <1>5, <2>1, <3>2
  <2>3. CASE a = owner /\ job[b].ex # summary
    <3>1. PICK e \in 0..MaxAttempt : e = job[b].ex
      BY <1>1 DEF Typed, Job
    <3>3. JudgedOver(e)' \subseteq JudgedOver(e)
      <4>1. \A x \in Areas : x \in JudgedOver(e)' => x \in JudgedOver(e)
        BY <1>1, <2>3, <3>1, OwnerAdds
      <4> QED  BY <1>4, <4>1
    <3>4. Reach(b)' = JudgedOver(e)' \cup {x \in Areas : Judged(job[b].kept[x])}
      BY <2>1, <3>1 DEF Reach, JudgedOver
    <3>2. Reach(b)' \subseteq Reach(b)
      BY <3>1, <3>3, <3>4 DEF Reach
    <3> QED  BY <1>5, <2>1, <3>2
  <2>4. CASE a = owner /\ job[b].ex = summary
    <3>1. Reach(b) \subseteq Base'
      BY <1>2, <1>3, <2>1, <2>4
    <3>2. JudgedOver(summary)' \subseteq Base'
      BY <1>1, <2>4, StoreStep
    <3>5. Reach(b)' = JudgedOver(summary)' \cup {x \in Areas : Judged(job[b].kept[x])}
      BY <1>1, <2>1, <2>4 DEF Reach, JudgedOver
    <3>3. Reach(b)' \subseteq Base'
      BY <3>1, <3>2, <3>5 DEF Reach
    <3>4. Cardinality(Reach(b)') <= Cap
      BY <1>2, <1>4, <3>3, PartWithin
    <3> QED  BY <3>3, <3>4
  <2> QED  BY <2>2, <2>3, <2>4
<1>7. CASE b = a
  <2>1. CASE LoadsAreas(a)
    BY <1>1, <1>5, <1>7, <2>1, LoadsReached, LoadsAreasFields DEF Loading, SameOver
  <2>2. CASE SkipsExploration(a)
    <3>1. /\ job'[a].ex = summary /\ job'[a].kept = job[a].kept
          /\ at[a] = "starting"
      BY <1>1, <2>2, SkipsFields DEF SameLoaded
    <3>2. \A x \in Areas : ~Judged(job[a].kept[x])
      BY <1>1, <3>1, NoJobFields, NoneJudged DEF Local, Idle, Before
    <3>3. Reach(a)' = JudgedOver(summary)'
      BY <1>1, <3>1, <3>2 DEF Reach, JudgedOver
    <3>4. JudgedOver(summary)' \subseteq Base'
      BY StoreStep
    <3>5. Cardinality(Reach(b)') <= Cap
      BY <1>2, <1>4, <1>7, <3>3, <3>4, PartWithin
    <3> QED  BY <1>7, <3>3, <3>4, <3>5
  <2>3. CASE LoadsDrafts(a)
    BY <1>1, <1>7, <2>3, LoadsDraftsFields DEF Loading
  <2> QED
    BY <1>1, <1>7, <2>1, <2>2, <2>3, ChargedStep
       DEF Loading, InLoop, Working, AfterLoop, CapOf
<1> QED  BY <1>6, <1>7

\* The store of an owner that explores is of no verdict over its exploration.
LEMMA ExploresStep ==
  ASSUME AnalysisInv, CapOf, NEW a \in Attempts, Explores(a), faults' = 0
  PROVE  StoreWithinCap' /\ LoadsWithinCap' /\ OwnerFollows' /\ AreaLeads'
<1>1. /\ Typed /\ a = owner /\ owner' = owner /\ at[a] = "starting" /\ at'[a] = "picking"
      /\ summary' = a /\ area' = area /\ draft' = draft /\ Others(a)
      /\ job'[a].kept = job[a].kept /\ job'[a].drafts = job[a].drafts
      /\ job'[a].cur = job[a].cur
  BY ExploresFields DEF AnalysisInv, SameStore, SameLoaded, SameArea
<1>2. job[a] = NoJob /\ \A x \in Areas : area[x].over # a /\ draft[x].over # a
  BY <1>1 DEF AnalysisInv, Order, Local, Idle, Before
<1>3. StoreWithinCap'
  <2>1. Base' = Charged(a)'
    BY <1>1 DEF Base, Loading
  <2>2. JudgedOver(summary)' = {}
    BY <1>1, <1>2 DEF JudgedOver
  <2>3. Cardinality(Charged(a)') <= Cap
    BY ChargesStep DEF ChargesWithinCap, AgentStep
  <2> QED  BY <2>1, <2>2, <2>3 DEF StoreWithinCap
<1>4. LoadsWithinCap'
  <2> SUFFICES ASSUME NEW b \in Attempts, at'[b] \in Loading
               PROVE  /\ Cardinality(Reach(b)') <= Cap
                      /\ job'[b].ex = summary' => Reach(b)' \subseteq Base'
    BY DEF LoadsWithinCap
  <2>1. b # a
    BY <1>1 DEF Loading
  <2>2. job'[b] = job[b] /\ at'[b] = at[b]
    BY <1>1, <2>1 DEF Others
  <2>3. Reach(b)' = Reach(b)
    BY <1>1, <2>2 DEF Reach, JudgedOver
  <2>4. job[b].ex # a
    <3>1. b < a
      <4>1. at[b] # "none"
        BY <2>2 DEF Loading
      <4> QED  BY <1>1, <2>1, <4>1 DEF AnalysisInv, Order
    <3>2. job[b].ex \in {Nobody, job[b].over} /\ job[b].over <= b /\ job[b] \in Job
      BY <1>1 DEF AnalysisInv, Local, Explored, Typed
    <3>3. job[b].over \in Nat
      BY <3>2 DEF Job
    <3> QED  BY <3>1, <3>2, <3>3
  <2> QED  BY <1>1, <2>2, <2>3, <2>4 DEF CapOf, LoadsWithinCap
<1>5. OwnerFollows'
  <2>1. ASSUME NEW x \in Areas PROVE Todo(x)'
    BY <1>1, <1>2, NoJobFields, NoRowFields DEF Todo
  <2>2. job'[owner'].cur = {} /\ at'[owner'] = "picking"
    BY <1>1, <1>2, NoJobFields
  <2>3. job'[owner'].todo \subseteq Areas
    <3>1. job'[a] \in Job
      BY <1>1, AgentStepTyped DEF Typed, AgentStep
    <3> QED  BY <1>1, <3>1 DEF Job
  <2> QED  BY <2>1, <2>2, <2>3 DEF OwnerFollows
<1>6. AreaLeads'
  BY <1>1 DEF CapOf, AreaLeads, Judged
<1> QED  BY <1>3, <1>4, <1>5, <1>6

\* The owner keeps to what the store has.
LEMMA FollowsStep ==
  ASSUME AnalysisInv, CapOf, NEW a \in Attempts, AgentStep(a), faults' = 0, ~late',
         ~Explores(a)
  PROVE  OwnerFollows' /\ AreaLeads'
<1>1. /\ Typed /\ owner \in Attempts /\ Local(owner) /\ Others(a)
      /\ owner' = owner /\ summary' = summary
  BY AgentLocal, WritesItsOwn, StartsAre DEF AnalysisInv, Typed, Order
<1>2. OwnerFollows /\ AreaLeads
  BY DEF CapOf
<1>3. CASE a # owner
  <2>1. /\ area' = area /\ draft' = draft
        /\ job'[owner] = job[owner] /\ at'[owner] = at[owner]
    BY <1>1, <1>3, OthersAreLate DEF SameStore, Others
  <2>2. RowsOver(area, summary)' = RowsOver(area, summary)
    BY <1>1, <2>1 DEF RowsOver
  <2>3. \A x \in Areas : Todo(x)' <=> Todo(x)
    BY <1>1, <2>1 DEF Todo
  <2>4. \A x \in Areas : Current(x)' <=> Current(x)
    BY <1>1, <2>1 DEF Current, Judged
  <2>5. job[owner].todo \subseteq Areas /\ job[owner].cur \subseteq Areas
    BY <1>1 DEF Typed, Job
  <2>6. AreaLeads'
    BY <1>2, <2>1 DEF AreaLeads, Judged
  <2>7. OwnerFollows'
    BY <1>1, <1>2, <2>1, <2>2, <2>3, <2>4, <2>5 DEF OwnerFollows
  <2> QED  BY <2>6, <2>7
<1>4. CASE a = owner
  <2>1. /\ job[a].todo \subseteq Areas /\ job[a].cur \subseteq Areas
        /\ \A y \in job[a].cur : y \notin job[a].todo
        /\ \A y, z \in job[a].cur : y = z
    BY <1>1, <1>4 DEF Typed, Job, Local, OneArea
  <2>2. at[a] # "starting" => job[a].ex = summary
    BY <1>4 DEF AnalysisInv, Order
  <2>3. at[a] \notin Before => summary # Nobody
    BY <1>1, <1>4, <2>2 DEF CapOf, Summarised, Before
  <2>4. at[a] \notin Loading \cup {"starting"} =>
          (\A x \in job[a].todo : Todo(x)) /\ (\A x \in job[a].cur : Current(x))
    BY <1>2, <1>4 DEF OwnerFollows
  <2>5. ASSUME area' = area, draft' = draft,
               at'[a] \notin Loading,
               \A x \in job'[a].todo : Todo(x)', \A x \in job'[a].cur : Current(x)'
        PROVE  OwnerFollows' /\ AreaLeads'
    BY <1>1, <1>2, <1>4, <2>5 DEF OwnerFollows, AreaLeads, Judged, Loading
  <2>6. ASSUME NEW x \in job[a].todo, area'[x] = area[x], draft'[x] = draft[x],
               job'[a].kept = job[a].kept, job'[a].drafts = job[a].drafts, Todo(x)
        PROVE  Todo(x)'
    BY <1>1, <1>4, <2>6 DEF Todo
  <2>7. CASE SkipsExploration(a)
    BY <1>1, <1>2, <1>4, <2>7, SkipsFields DEF OwnerFollows, AreaLeads, SameStore, Judged, Loading
  <2>8. CASE LoadsAreas(a)
    <3>1. /\ at'[a] = "drafts" /\ job'[a].kept = RowsOver(area, job[a].ex)
          /\ area' = area /\ draft' = draft /\ at[a] = "areas"
      BY <1>1, <2>8, LoadsAreasFields DEF SameStore
    <3>2. job'[a].kept = RowsOver(area, summary)'
      BY <1>1, <2>2, <3>1 DEF RowsOver
    <3> QED  BY <1>1, <1>2, <1>4, <3>1, <3>2 DEF OwnerFollows, AreaLeads, Judged, Loading
  <2>9. CASE LoadsDrafts(a)
    <3>1. /\ at[a] = "drafts" /\ at'[a] = "picking" /\ area' = area /\ draft' = draft
          /\ job'[a].kept = job[a].kept /\ job'[a].drafts = LiveRows(a)
          /\ job'[a].todo = job[a].todo /\ job'[a].cur = job[a].cur
      BY <1>1, <2>9, LoadsDraftsFields DEF SameStore, SameTodo, SameArea
    <3>2. job[a].kept = RowsOver(area, summary) /\ job[a].ex = summary /\ job[a].cur = {}
      BY <1>1, <1>2, <1>4, <2>2, <3>1 DEF OwnerFollows, Local, OneArea, Working
    <3>3. ASSUME NEW x \in Areas PROVE Todo(x)'
      <4>1. job[a].kept[x] = IF area[x].over = summary THEN area[x] ELSE NoRow
        BY <1>1, <3>2, RowsOverType DEF Typed
      <4>2. job[a].kept[x] = NoRow =>
              LiveRows(a)[x] = IF draft[x].over = summary THEN draft[x] ELSE NoRow
        BY <1>1, <3>2, LiveRowsType
      <4> QED  BY <1>1, <1>4, <3>1, <4>1, <4>2 DEF Todo
    <3> QED  BY <2>1, <2>5, <3>1, <3>2, <3>3 DEF Loading
  <2>10. CASE EndsLoop(a) \/ Recommends(a) \/ StoresRecs(a)
    <3>1. /\ at'[a] \in AfterLoop /\ at[a] \notin Working /\ area' = area /\ draft' = draft
          /\ job'[a].todo = job[a].todo /\ job'[a].cur = job[a].cur
      BY <1>1, <2>10, EndsLoopFields, AdviceFields
         DEF SameStore, SameTodo, SameArea, AfterLoop, Working
    <3>2. job[a].todo = {} /\ job[a].cur = {}
      <4>1. job[a].todo = {}
        <5>1. CASE EndsLoop(a)
          BY <5>1 DEF EndsLoop
        <5>2. CASE at[a] \in AfterLoop
          BY <1>1, <1>4, <5>2 DEF Local, OneArea
        <5> QED  BY <2>10, <5>1, <5>2 DEF Recommends, StoresRecs, AfterLoop
      <4> QED  BY <1>1, <1>4, <3>1, <4>1 DEF Local, OneArea
    <3> QED  BY <2>5, <3>1, <3>2 DEF AfterLoop, Loading
  <2>11. CASE at'[a] = "gone"
    BY <1>1, <1>4, <2>11, AgentOrder DEF Order
  <2>12. ASSUME NEW x \in Areas, AreaStep(a, x), at'[a] # "gone"
         PROVE  OwnerFollows' /\ AreaLeads'
    <3>1. at[a] \notin Loading \cup Before /\ summary # Nobody
      <4>1. at[a] \notin Loading \cup Before
        BY <2>12 DEF AreaStep, RestoresArea, RestoresDraft, Analyses, SavesDraft, Validates,
                     Marks, Merges, SavesArea, DiscardsDraft, Loading, Before
      <4> QED  BY <2>3, <4>1
    <3>2. /\ \A y \in job[a].todo : Todo(y)
          /\ \A y \in job[a].cur : Current(y)
      BY <2>4, <3>1 DEF Before
    <3>3. at[a] \notin Working => job[a].cur = {}
      BY <1>1, <1>4 DEF Local, OneArea
    <3>4. CASE RestoresArea(a, x)
      <4>1. /\ at[a] = "picking" /\ at'[a] = "picking" /\ job'[a].todo = job[a].todo \ {x}
            /\ area' = area /\ draft' = draft
            /\ job'[a].kept = job[a].kept /\ job'[a].drafts = job[a].drafts
            /\ job'[a].cur = job[a].cur
        BY <1>1, <3>4, RestoresAreaFields DEF Leaves, SameStore, SameLoaded, SameArea
      <4>2. job'[a].cur = {}
        BY <3>3, <4>1 DEF Working
      <4> QED  BY <2>5, <2>6, <3>2, <4>1, <4>2 DEF Loading
    <3>5. CASE RestoresDraft(a, x)
      <4>1. /\ at'[a] = "validating" /\ x \in job[a].todo /\ job'[a].todo = job[a].todo \ {x}
            /\ job[a].kept[x] = NoRow /\ job[a].drafts[x] # NoRow
            /\ job'[a].cur = {x} /\ job'[a].step = job[a].drafts[x]
            /\ area' = area /\ draft' = draft
            /\ job'[a].kept = job[a].kept /\ job'[a].drafts = job[a].drafts
        BY <1>1, <3>5, RestoresDraftFields DEF Leaves, SameStore, SameLoaded
      <4>2. area[x].over # summary /\ draft[x].over = summary /\ job'[a].step = draft[x]
        BY <1>4, <3>1, <3>2, <4>1, NoRowFields DEF Todo
      <4>3. Current(x)'
        BY <1>1, <1>4, <4>1, <4>2 DEF Current
      <4> QED  BY <2>5, <2>6, <3>2, <4>1, <4>3 DEF Loading
    <3>6. CASE Analyses(a, x)
      <4>1. /\ at'[a] = "drafting" /\ x \in job[a].todo /\ job'[a].todo = job[a].todo \ {x}
            /\ job[a].kept[x] = NoRow /\ job[a].drafts[x] = NoRow
            /\ job'[a].cur = {x} /\ area' = area /\ draft' = draft
            /\ job'[a].kept = job[a].kept /\ job'[a].drafts = job[a].drafts
        <5>1. job[a].ex # Nobody
          BY <2>2, <3>1 DEF Before
        <5> QED  BY <1>1, <3>6, <5>1, AnalysesFields DEF Leaves, SameStore, SameLoaded
      <4>2. area[x].over # summary /\ draft[x].over # summary
        BY <1>4, <3>1, <3>2, <4>1, NoRowFields DEF Todo
      <4>3. Current(x)'
        BY <1>1, <1>4, <4>1, <4>2 DEF Current
      <4> QED  BY <2>5, <2>6, <3>2, <4>1, <4>3 DEF Loading
    <3>7. CASE Validates(a, x)
      <4>1. /\ at[a] = "validating" /\ at'[a] \in {"merging", "marking"}
            /\ area' = area /\ draft' = draft
            /\ job'[a].todo = job[a].todo /\ job'[a].cur = job[a].cur
            /\ job'[a].kept = job[a].kept /\ job'[a].drafts = job[a].drafts
        BY <1>1, <3>7, ValidatesFields DEF SameStore, SameJob, SameTodo, SameArea, SameLoaded
      <4>2. Judged(job[a].step) => Judged(job'[a].step)
        BY <1>1, <3>7, ValidatesFields DEF SameJob, SameArea, Judged, NoVerdict
      <4>3. ASSUME NEW y \in job[a].cur PROVE Current(y)'
        BY <1>1, <1>4, <3>2, <4>1, <4>2 DEF Current, Judged
      <4> QED  BY <2>5, <2>6, <3>2, <4>1, <4>3 DEF Loading
    <3>8. CASE Merges(a, x)
      <4>1. /\ at[a] = "merging" /\ at'[a] = "saving" /\ area' = area /\ draft' = draft
            /\ job'[a].todo = job[a].todo /\ job'[a].cur = job[a].cur
            /\ job'[a].kept = job[a].kept /\ job'[a].drafts = job[a].drafts
            /\ job'[a].step.verdict = job[a].step.verdict
        <5>1. job[a].ex # Nobody
          BY <2>2, <3>1 DEF Before
        <5> QED  BY <1>1, <3>8, <5>1, MergesFields DEF SameStore, SameTodo, SameLoaded
      <4>3. ASSUME NEW y \in job[a].cur PROVE Current(y)'
        BY <1>1, <1>4, <3>2, <4>1 DEF Current, Judged
      <4> QED  BY <2>5, <2>6, <3>2, <4>1, <4>3 DEF Loading
    <3>9. CASE SavesDraft(a, x)
      <4>1. /\ at[a] = "drafting" /\ at'[a] = "validating" /\ x \in job[a].cur /\ PutDraft(a, x)
            /\ job'[a].todo = job[a].todo /\ job'[a].cur = job[a].cur
            /\ job'[a].step = job[a].step
            /\ job'[a].kept = job[a].kept /\ job'[a].drafts = job[a].drafts
        BY <1>1, <2>12, <3>9, SavesDraftFields DEF SameTodo, SameLoaded, Gone
      <4>2. /\ area' = area /\ draft'[x] = job[a].step
            /\ \A y \in Areas : y # x => draft'[y] = draft[y]
        BY <1>1, <4>1, PutRow
      <4>3. job[a].step.over = summary /\ area[x].over # summary
        BY <1>4, <3>2, <4>1, OwnerStoresOverSummary DEF Current
      <4>4. Current(x)'
        BY <1>1, <1>4, <4>1, <4>2, <4>3 DEF Current
      <4>5. \A y \in job'[a].cur : Current(y)'
        BY <2>1, <4>1, <4>4
      <4>6. \A y \in job'[a].todo : Todo(y)'
        BY <2>1, <2>6, <3>2, <4>1, <4>2
      <4>7. AreaLeads'
        BY <1>2, <4>2, <4>3 DEF AreaLeads, Judged
      <4> QED  BY <1>1, <1>4, <4>1, <4>5, <4>6, <4>7 DEF OwnerFollows, Loading
    <3>10. CASE SavesArea(a, x)
      <4>1. /\ at[a] = "saving" /\ at'[a] = "discarding" /\ x \in job[a].cur /\ PutArea(a, x)
            /\ job'[a].todo = job[a].todo /\ job'[a].cur = job[a].cur
            /\ job'[a].step = job[a].step
            /\ job'[a].kept = job[a].kept /\ job'[a].drafts = job[a].drafts
        BY <1>1, <2>12, <3>10, SavesAreaFields DEF SameJob, SameTodo, SameLoaded, SameArea, Gone
      <4>2. /\ draft' = draft /\ area'[x] = job[a].step
            /\ \A y \in Areas : y # x => area'[y] = area[y]
        BY <1>1, <4>1, PutRow
      <4>3. /\ job[a].step.over = summary /\ draft[x].over = summary
            /\ Judged(draft[x]) => Judged(job[a].step)
        BY <1>4, <3>2, <4>1, OwnerStoresOverSummary DEF Current
      <4>4. Current(x)'
        BY <1>1, <1>4, <4>1, <4>2, <4>3 DEF Current, Judged
      <4>5. \A y \in job'[a].cur : Current(y)'
        BY <2>1, <4>1, <4>4
      <4>6. \A y \in job'[a].todo : Todo(y)'
        BY <2>1, <2>6, <3>2, <4>1, <4>2
      <4>7. AreaLeads'
        BY <1>2, <4>2, <4>3 DEF AreaLeads, Judged
      <4> QED  BY <1>1, <1>4, <4>1, <4>5, <4>6, <4>7 DEF OwnerFollows, Loading
    <3>11. CASE Marks(a, x)
      <4>1. /\ at[a] = "marking" /\ at'[a] = "merging" /\ x \in job[a].cur /\ area' = area
            /\ \/ /\ draft'[x].over = draft[x].over
                  /\ draft'[x].verdict = job[a].step.verdict
                  /\ \A y \in Areas \ {x} : draft'[y] = draft[y]
               \/ draft' = draft
            /\ job'[a].todo = job[a].todo /\ job'[a].cur = job[a].cur
            /\ job'[a].step = job[a].step
            /\ job'[a].kept = job[a].kept /\ job'[a].drafts = job[a].drafts
        BY <1>1, <3>11, MarksFields DEF SameJob, SameTodo, SameLoaded, SameArea
      <4>2. \A y \in Areas : y # x => draft'[y] = draft[y]
        BY <4>1
      <4>3. area[x].over # summary /\ draft[x].over = summary
        BY <1>4, <3>2, <4>1 DEF Current
      <4>4. Current(x)'
        BY <1>1, <1>4, <3>2, <4>1, <4>3 DEF Current, Judged
      <4>5. \A y \in job'[a].cur : Current(y)'
        BY <2>1, <4>1, <4>4
      <4>6. \A y \in job'[a].todo : Todo(y)'
        BY <2>1, <2>6, <3>2, <4>1, <4>2
      <4>7. AreaLeads'
        BY <1>2, <4>1, <4>2, <4>3 DEF AreaLeads, Judged
      <4> QED  BY <1>1, <1>4, <4>1, <4>5, <4>6, <4>7 DEF OwnerFollows, Loading
    <3>12. CASE DiscardsDraft(a, x)
      <4>1. /\ at[a] = "discarding" /\ at'[a] = "picking" /\ x \in job[a].cur /\ area' = area
            /\ draft'[x] = NoRow /\ \A y \in Areas \ {x} : draft'[y] = draft[y]
            /\ job'[a].todo = job[a].todo /\ job'[a].cur = {}
            /\ job'[a].kept = job[a].kept /\ job'[a].drafts = job[a].drafts
        BY <1>1, <3>12, DiscardsFields DEF SameTodo, SameLoaded, NoArea
      <4>2. \A y \in job'[a].todo : Todo(y)'
        BY <2>1, <2>6, <3>2, <4>1
      <4>3. AreaLeads'
        BY <1>2, <4>1, NoneJudged DEF AreaLeads, Judged
      <4> QED  BY <1>1, <1>4, <4>1, <4>2, <4>3 DEF OwnerFollows, Loading
    <3> QED  BY <2>12, <3>4, <3>5, <3>6, <3>7, <3>8, <3>9, <3>10, <3>11, <3>12 DEF AreaStep
  <2>13. CASE LosesRun(a)
    BY <1>1, <2>11, <2>13, LosesFields DEF Gone
  <2> QED
    BY <2>7, <2>8, <2>9, <2>10, <2>11, <2>12, <2>13 DEF AgentStep
<1> QED  BY <1>3, <1>4

\* A takeover leaves the new owner what is in the store.
LEMMA ResumesWithinCap ==
  ASSUME AnalysisInv, CapOf, Resumes
  PROVE  CapOf'
<1>1. /\ Typed /\ owner \in Attempts /\ owner' \in Attempts /\ at'[owner'] = "starting"
      /\ job'[owner'] = job[owner'] /\ at[owner'] = "none" /\ owner' = owner + 1
      /\ area' = area /\ draft' = draft /\ summary' = summary
  BY ResumesShape DEF AnalysisInv, Order, Typed, Resumes, store
<1>2. job[owner'] = NoJob
  BY <1>1 DEF AnalysisInv, Local, Idle, Before
<1>3. ASSUME NEW b \in Attempts
      PROVE  \/ b # owner' /\ at'[b] = at[b] /\ job'[b] = job[b]
             \/ at'[b] \in {"gone", "starting"} /\ job'[b] = NoJob
  BY <1>1, <1>2, ResumesShape
<1>4. Base' = JudgedOver(summary) /\ JudgedOver(summary)' = JudgedOver(summary)
  BY <1>1 DEF Base, JudgedOver
<1>5. Base \in SUBSET Areas /\ Cardinality(Base) <= Cap /\ JudgedOver(summary) \subseteq Base
  BY <1>1, OfAreas DEF CapOf, StoreWithinCap
<1>6. StoreWithinCap'
  BY <1>4, <1>5, PartWithin DEF StoreWithinCap
<1>7. LoadsWithinCap'
  <2> SUFFICES ASSUME NEW b \in Attempts, at'[b] \in Loading
               PROVE  /\ Cardinality(Reach(b)') <= Cap
                      /\ job'[b].ex = summary' => Reach(b)' \subseteq Base'
    BY DEF LoadsWithinCap
  <2>1. at'[b] = at[b] /\ job'[b] = job[b] /\ b # owner'
    BY <1>3 DEF Loading
  <2>2. b = owner
    <3>1. ~(b > owner)
      BY <2>1 DEF AnalysisInv, Order, Loading
    <3>2. ~(b < owner)
      <4>1. b < owner => at'[b] = "gone"
        BY <1>1 DEF Resumes
      <4> QED  BY <4>1 DEF Loading
    <3> QED  BY <1>1, <3>1, <3>2
  <2>3. Reach(b)' = Reach(b)
    BY <1>1, <2>1 DEF Reach, JudgedOver
  <2>4. /\ job[b].ex = summary
        /\ job[b].kept = NoRows \/ job[b].kept = RowsOver(area, summary)
    BY <2>1, <2>2
       DEF AnalysisInv, Order, Local, RestoredOnce, Loading, CapOf, OwnerFollows
  <2>5. \A x \in Areas : Judged(job[b].kept[x]) => x \in JudgedOver(summary)
    BY <1>1, <2>4, NoneJudged, RowsOverType DEF JudgedOver, Typed
  <2>6. Reach(b) \subseteq JudgedOver(summary)
    BY <2>4, <2>5 DEF Reach
  <2> QED  BY <1>4, <2>1, <2>3, <2>6 DEF CapOf, LoadsWithinCap
<1>8. ChargesWithinCap'
  <2> SUFFICES ASSUME NEW b \in Attempts
               PROVE  /\ Cardinality(Charged(b)') <= Cap
                      /\ at'[b] \in InLoop => Cardinality(Charged(b)') <= job'[b].used
    BY DEF ChargesWithinCap
  <2>1. CASE at'[b] = at[b] /\ job'[b] = job[b]
    <3>1. Charged(b)' = Charged(b)
      BY <2>1 DEF Charged
    <3> QED  BY <2>1, <3>1 DEF CapOf, ChargesWithinCap
  <2>2. CASE at'[b] \in {"gone", "starting"} /\ job'[b] = NoJob
    <3>1. Charged(b)' = {}
      BY <2>2, NoneJudged, NoJobFields DEF Charged
    <3> QED  BY <2>2, <3>1, FS_EmptySet DEF InLoop, Working
  <2> QED  BY <1>3, <2>1, <2>2
<1>9. Summarised'
  BY <1>3 DEF CapOf, Summarised, Before
<1>10. \A b \in Attempts : Unmerged(b)'
  BY <1>3, NoJobFields, NoRowFields DEF CapOf, Unmerged
<1>11. AreaLeads' /\ OwnerFollows'
  BY <1>1 DEF CapOf, AreaLeads, Judged, OwnerFollows
<1> QED  BY <1>6, <1>7, <1>8, <1>9, <1>10, <1>11 DEF CapOf

\* Every step keeps the cap.
LEMMA CapStep ==
  ASSUME AnalysisInv, CapInv, Next
  PROVE  CapInv'
<1> SUFFICES ASSUME faults' = 0, ~late' PROVE CapOf'
  BY DEF CapInv
<1>1. CASE Resumes
  <2>1. faults' = faults /\ late' = late
    BY <1>1 DEF Resumes
  <2> QED  BY <1>1, <2>1, ResumesWithinCap DEF CapInv
<1>2. ASSUME NEW a \in Attempts, AgentStep(a)
      PROVE  CapOf'
  <2>1. Typed /\ Local(a)
    BY DEF AnalysisInv
  <2>2. CapOf
    BY <1>2, <2>1, NoFaultYet, OthersAreLate DEF CapInv
  <2>3. ASSUME NEW b \in Attempts PROVE Unmerged(b)'
    <3>1. CASE b = a
      BY <1>2, <2>1, <2>2, <3>1, MergesOnce DEF CapOf
    <3>2. CASE b # a
      <4>1. job'[b] = job[b] /\ at'[b] = at[b]
        BY <1>2, <2>1, <3>2, AgentLocal DEF Others, AnalysisInv, Order
      <4> QED  BY <2>2, <4>1 DEF CapOf, Unmerged
    <3> QED  BY <3>1, <3>2
  <2>4. ChargesWithinCap' /\ Summarised'
    BY <1>2, <2>2, ChargesStep, SummarisedStep
  <2>5. CASE Explores(a)
    BY <2>2, <2>3, <2>4, <2>5, ExploresStep DEF CapOf
  <2>6. CASE ~Explores(a)
    <3>1. StoreWithinCap'
      BY <1>2, <2>2, <2>6, StoreStep, BaseGrows DEF StoreWithinCap
    <3>2. LoadsWithinCap'
      BY <1>2, <2>2, <2>6, LoadsStep DEF LoadsWithinCap
    <3>3. OwnerFollows' /\ AreaLeads'
      BY <1>2, <2>2, <2>6, FollowsStep
    <3> QED  BY <2>3, <2>4, <3>1, <3>2, <3>3 DEF CapOf
  <2> QED  BY <2>5, <2>6
<1> QED  BY <1>1, <1>2 DEF Next

-----------------------------------------------------------------------------
(* The theorems.                                                           *)

\* The state stays within its types, for any number of areas, attempts and
\* faults.
THEOREM TypesHold == Spec => []TypeOK
<1>1. AnalysisInv => TypeOK
  BY DEF AnalysisInv, Typed, TypeOK, Job
<1> QED  BY <1>1, AnalysisInvariant, PTL

\* Everything an attempt ships was computed over the exploration it ships:
\* what it restored is of the exploration it restored, and what it analysed
\* of the one it has, whoever else writes to the run's rows meanwhile.
THEOREM OwnStepsAreCited == Spec => []ResultCitesOwnSteps
<1>1. AnalysisInv => ResultCitesOwnSteps
  <2> SUFFICES ASSUME AnalysisInv, NEW a \in Attempts, NEW r \in Results(a), r.gen # Nobody
               PROVE  r.over = job[a].over
    BY DEF ResultCitesOwnSteps
  <2>1. r # NoRow
    BY NoRowFields
  <2>2. r = job[a].step \/ \E x \in Areas : r = job[a].result[x]
    BY DEF Results
  <2>3. OverItsSteps(a)
    BY DEF AnalysisInv, Local
  <2> QED  BY <2>1, <2>2, <2>3 DEF OverItsSteps
<1> QED  BY <1>1, AnalysisInvariant, PTL

\* The recommendations a finished attempt ships, restored or new, were
\* reasoned from the findings it ships.
THEOREM RecsFitTheResult == Spec => []RecsAreAboutTheResult
<1>1. AnalysisInv => RecsAreAboutTheResult
  BY DEF AnalysisInv, Local, Advice, RecsAreAboutTheResult
<1> QED  BY <1>1, AnalysisInvariant, PTL

\* No finding carries a verdict of another's content, though their ids are the
\* same, as long as no superseded agent's row landed.
THEOREM VerdictsAreOwn == Spec => []VerdictJudgedThisFinding
<1>1. Init => VerdictInv
  <2> SUFFICES ASSUME Init PROVE OwnStore /\ (\A a \in Attempts : OwnMemory(a)) /\ MarksItsOwn
    BY DEF VerdictInv
  <2>1. \A a \in Attempts : job[a] = NoJob
    BY DEF Init
  <2>2. OwnStore
    BY OwnOfNone DEF Init, OwnStore
  <2>3. \A a \in Attempts : OwnMemory(a)
    BY <2>1, OwnOfNone, NoJobFields DEF OwnMemory
  <2>4. MarksItsOwn
    BY <2>1, NoJobFields, NoRowFields DEF Init, MarksItsOwn
  <2> QED  BY <2>2, <2>3, <2>4
<1>2. AnalysisInv /\ VerdictInv /\ [Next]_vars => VerdictInv'
  <2> SUFFICES ASSUME AnalysisInv, VerdictInv, [Next]_vars PROVE VerdictInv'
    OBVIOUS
  <2>1. CASE UNCHANGED vars
    BY <2>1 DEF vars, store, VerdictInv, OwnStore, OwnMemory, MarksItsOwn, SameDraft, Own
  <2> QED  BY <2>1, VerdictStep
<1>3. VerdictInv => VerdictJudgedThisFinding
  <2> SUFFICES ASSUME VerdictInv, ~late, NEW a \in Attempts, NEW r \in Results(a)
               PROVE  r.verdict.of \in {Nobody, r.gen}
    BY DEF VerdictJudgedThisFinding
  <2>1. OwnMemory(a)
    BY DEF VerdictInv
  <2>2. r = job[a].step \/ \E x \in Areas : r = job[a].result[x]
    BY DEF Results
  <2> QED  BY <2>1, <2>2 DEF OwnMemory, Own
<1> QED  BY <1>1, <1>2, <1>3, AnalysisInvariant, PTL DEF Spec

\* An area stored over the current exploration can be restored until the run
\* ends: its draft goes only once the row that replaces it has landed, and a
\* failed write, a takeover or a restart in between loses neither.
THEOREM StoredAreasAreRestorable == Spec => []StoredAreaStaysRestorable
<1>1. Init => RestoreInv
  BY DEF Init, RestoreInv, StoredAreaStaysRestorable, Landed
<1>2. AnalysisInv /\ RestoreInv /\ [Next]_vars => RestoreInv'
  <2> SUFFICES ASSUME AnalysisInv, RestoreInv, [Next]_vars PROVE RestoreInv'
    OBVIOUS
  <2>1. CASE UNCHANGED vars
    BY <2>1 DEF vars, store, RestoreInv, StoredAreaStaysRestorable, Landed
  <2> QED  BY <2>1, RestoreStep
<1>3. RestoreInv => StoredAreaStaysRestorable
  BY DEF RestoreInv, StoredAreaStaysRestorable
<1> QED  BY <1>1, <1>2, <1>3, AnalysisInvariant, PTL DEF Spec

\* However many times a run is resumed, and in whatever order each attempt
\* comes to its areas, no attempt ships more validated findings than the cap,
\* those it restored included.
THEOREM CapHolds == Spec => []ValidationsWithinCap
<1>1. Init => CapInv
  <2> SUFFICES ASSUME Init PROVE CapOf
    BY DEF CapInv
  <2>1. /\ \A a \in Attempts : job[a] = NoJob /\ at[a] \in Before
        /\ area = NoRows /\ draft = NoRows /\ summary = 0 /\ owner = 1
        /\ at[owner] = "starting"
    BY DEF Init, Before
  <2>2. \A a \in Attempts : Charged(a) = {} /\ Cardinality(Charged(a)) = 0
    BY <2>1, NothingCharged
  <2>3. JudgedOver(summary) = {} /\ Base = {}
    BY <2>1, NoneJudged DEF JudgedOver, Base
  <2>4. StoreWithinCap
    BY <2>3, FS_EmptySet DEF StoreWithinCap
  <2>5. LoadsWithinCap /\ Summarised
    BY <2>1 DEF LoadsWithinCap, Summarised, Before, Loading
  <2>6. ChargesWithinCap
    BY <2>1, <2>2 DEF ChargesWithinCap, InLoop, Working, Before
  <2>7. AreaLeads /\ OwnerFollows
    BY <2>1, NoneJudged DEF AreaLeads, OwnerFollows
  <2>8. \A a \in Attempts : Unmerged(a)
    BY <2>1, NoJobFields, NoRowFields DEF Unmerged
  <2> QED  BY <2>4, <2>5, <2>6, <2>7, <2>8 DEF CapOf
<1>2. AnalysisInv /\ CapInv /\ [Next]_vars => CapInv'
  <2> SUFFICES ASSUME AnalysisInv, CapInv, [Next]_vars PROVE CapInv'
    OBVIOUS
  <2>1. CASE UNCHANGED vars
    <3>1. /\ owner' = owner /\ summary' = summary /\ area' = area /\ draft' = draft
          /\ at' = at /\ job' = job /\ faults' = faults /\ late' = late
      BY <2>1 DEF vars, store
    <3>2. /\ JudgedOver(summary)' = JudgedOver(summary)
          /\ \A a \in Attempts : Charged(a)' = Charged(a) /\ Reach(a)' = Reach(a)
      BY <3>1 DEF Charged, Reach, JudgedOver, Judged
    <3>3. Charged(owner)' = Charged(owner)
      BY <3>1 DEF Charged, Judged
    <3>4. Base' = Base
      BY <3>1, <3>2, <3>3 DEF Base
    <3>5. /\ StoreWithinCap' <=> StoreWithinCap
          /\ LoadsWithinCap' <=> LoadsWithinCap
          /\ ChargesWithinCap' <=> ChargesWithinCap
      BY <3>1, <3>2, <3>4 DEF StoreWithinCap, LoadsWithinCap, ChargesWithinCap
    <3>6. /\ AreaLeads' <=> AreaLeads
          /\ Summarised' <=> Summarised
          /\ (\A a \in Attempts : Unmerged(a)') <=> \A a \in Attempts : Unmerged(a)
      BY <3>1 DEF AreaLeads, Summarised, Unmerged, Judged
    <3>7. RowsOver(area, summary)' = RowsOver(area, summary)
      BY <3>1 DEF RowsOver
    <3>8. \A x \in Areas : (Todo(x)' <=> Todo(x)) /\ (Current(x)' <=> Current(x))
      BY <3>1 DEF Todo, Current, Judged
    <3>9. ASSUME OwnerFollows PROVE OwnerFollows'
      <4>1. at'[owner'] = at[owner] /\ job'[owner'] = job[owner]
        BY <3>1
      <4>2. at'[owner'] = "drafts" => job'[owner'].kept = RowsOver(area, summary)'
        BY <3>7, <3>9, <4>1 DEF OwnerFollows
      <4>3. ASSUME at'[owner'] \notin Loading \cup {"starting"}
            PROVE  /\ \A x \in job'[owner'].todo : Todo(x)'
                   /\ \A x \in job'[owner'].cur : Current(x)'
        <5>1. /\ \A x \in job[owner].todo : Todo(x)
              /\ \A x \in job[owner].cur : Current(x)
          BY <3>9, <4>1, <4>3 DEF OwnerFollows
        <5>2. owner \in Attempts /\ job[owner].todo \subseteq Areas /\ job[owner].cur \subseteq Areas
          <6>1. owner \in Attempts /\ job[owner] \in Job
            BY DEF AnalysisInv, Typed, Order
          <6> QED  BY <6>1 DEF Job
        <5> QED  BY <3>8, <4>1, <5>1, <5>2
      <4> QED  BY <4>2, <4>3 DEF OwnerFollows
    <3> QED  BY <3>1, <3>5, <3>6, <3>9 DEF CapInv, CapOf
  <2> QED  BY <2>1, CapStep
<1>3. CapInv => ValidationsWithinCap
  <2> SUFFICES ASSUME CapOf, NEW a \in Attempts
               PROVE  Cardinality({x \in Areas : job[a].result[x].verdict.of # Nobody}) <= Cap
    BY DEF CapInv, ValidationsWithinCap
  <2>1. {x \in Areas : job[a].result[x].verdict.of # Nobody} \subseteq Charged(a)
    BY DEF Charged, Judged
  <2>2. Cardinality(Charged(a)) <= Cap
    BY DEF CapOf, ChargesWithinCap
  <2> QED  BY <2>1, <2>2, OfAreas, PartWithin
<1> QED  BY <1>1, <1>2, <1>3, AnalysisInvariant, PTL DEF Spec

====
