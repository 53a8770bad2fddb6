------------------------ MODULE ValidationJobs_proofs ------------------------
(***************************************************************************)
(* For any number of jobs, claims and faults: a job that ended has ended    *)
(* (TerminalJobIsFinal), and the document shows the verdict of its last     *)
(* completed validation or of a later job (CompletedVerdictStands). That    *)
(* jobs end is liveness, and is model-checked only.                        *)
(***************************************************************************)
EXTENDS ValidationJobs, TLAPS

USE ValidationJobsAssumption

\* The types of a row and of an agent, as TypeOK has them.
RowType   == [status : {"none"} \cup Active \cup Terminal, attempt : 0..MaxAttempts]
AgentType == [pc : {"none", "failed", "gone"} \cup Alive, own : 0..MaxAttempts, held : BOOLEAN]

\* Only the last job of the document may not have ended.
OneActive == \A i, j \in Jobs : i < j /\ job[j].status # "none" => job[i].status \in Terminal

\* The attempt of a row grows from 0, and a row that waits has a claim left.
AttemptsLeft ==
  /\ \A j \in Jobs : job[j].status = "none" => job[j].attempt = 0
  /\ \A j \in Jobs : job[j].status = "pending" => job[j].attempt < MaxAttempts
  /\ \A j \in Jobs : job[j].status \in {"running", "completed"} => job[j].attempt > 0

\* An agent has adopted an attempt its row has reached.
AdoptedReached ==
  \A c \in Claims : /\ agent[c].own <= job[c[1]].attempt
                    /\ agent[c].pc \in {"working", "rechecked", "persisted"} => agent[c].own > 0

\* Whoever reaches its write had the row when it looked.
RecheckedHeld == \A c \in Claims : agent[c].pc = "rechecked" => agent[c].held

\* An agent that has written its verdict and still has the row finds its own
\* verdict in the document, unless a write was late.
PersistedShows ==
  ~late => \A c \in Claims : agent[c].pc = "persisted" /\ Owned(c)
                               => verdict = <<c[1], agent[c].own>>

JobsInv == /\ TypeOK /\ OneActive /\ AttemptsLeft /\ AdoptedReached
           /\ RecheckedHeld /\ PersistedShows /\ CompletedVerdictStands

USE DEF JobsInv

-----------------------------------------------------------------------------
(* Types and attempts.                                                     *)

\* A claim is of a job, and its number is an attempt.
LEMMA ClaimParts ==
  /\ \A c \in Claims : c[1] \in Jobs /\ c[2] \in Attempts
  /\ \A j \in Jobs, a \in Attempts : <<j, a>> \in Claims
  /\ \A j \in Jobs : j \in Nat /\ j # 0
BY DEF Claims, Jobs

\* The types, with the types of a row and of an agent named.
LEMMA Types ==
  TypeOK <=> /\ job \in [Jobs -> RowType]
             /\ cold \in [Jobs -> BOOLEAN]
             /\ agent \in [Claims -> AgentType]
             /\ waited \subseteq Claims /\ found \subseteq Claims
             /\ verdict \in {<<0, 0>>} \cup Claims
             /\ faults \in 0..MaxFaults /\ late \in BOOLEAN
BY Zenon DEF TypeOK, RowType, AgentType

\* What the steps make of a row.
LEMMA RowSteps ==
  ASSUME NEW r \in RowType
  PROVE  /\ r.attempt \in 0..MaxAttempts
         /\ \A s \in {"none"} \cup Active \cup Terminal : [r EXCEPT !.status = s] \in RowType
         /\ \A a \in 0..MaxAttempts : [status |-> "running", attempt |-> a] \in RowType
BY DEF RowType, Active, Terminal

\* What the steps make of an agent.
LEMMA AgentSteps ==
  ASSUME NEW g \in AgentType
  PROVE  /\ g.own \in 0..MaxAttempts /\ g.held \in BOOLEAN
         /\ \A pc \in {"failed", "gone"} \cup Alive : [g EXCEPT !.pc = pc] \in AgentType
         /\ \A own \in 0..MaxAttempts : [g EXCEPT !.pc = "working", !.own = own] \in AgentType
         /\ \A held \in BOOLEAN : [g EXCEPT !.pc = "rechecked", !.held = held] \in AgentType
         /\ Gone \in AgentType
         /\ [Gone EXCEPT !.pc = "failed"] \in AgentType
         /\ [Gone EXCEPT !.pc = "gone"] \in AgentType
<1> USE DEF AgentType
<1>1. g.own \in 0..MaxAttempts /\ g.held \in BOOLEAN
  OBVIOUS
<1>2. \A pc \in {"failed", "gone"} \cup Alive : [g EXCEPT !.pc = pc] \in AgentType
  BY DEF Alive
<1>3. \A own \in 0..MaxAttempts : [g EXCEPT !.pc = "working", !.own = own] \in AgentType
  BY DEF Alive
<1>4. \A held \in BOOLEAN : [g EXCEPT !.pc = "rechecked", !.held = held] \in AgentType
  BY DEF Alive
<1>5. Gone \in AgentType
  BY DEF Gone
<1>6. [Gone EXCEPT !.pc = "failed"] \in AgentType
  BY <1>5
<1>7. [Gone EXCEPT !.pc = "gone"] \in AgentType
  BY <1>5
<1> QED  BY <1>1, <1>2, <1>3, <1>4, <1>5, <1>6, <1>7

\* A row that changes its status keeps the types of the rows.
LEMMA SetStatusTypes ==
  ASSUME TypeOK, NEW j \in Jobs, NEW s \in {"none"} \cup Active \cup Terminal, SetStatus(j, s)
  PROVE  job' \in [Jobs -> RowType] /\ cold' \in [Jobs -> BOOLEAN]
<1>1. job \in [Jobs -> RowType] /\ cold \in [Jobs -> BOOLEAN]
  BY Types
<1>2. [job[j] EXCEPT !.status = s] \in RowType
  BY <1>1, RowSteps
<1> QED  BY <1>1, <1>2 DEF SetStatus

\* An agent that fails is one the worker knows of or one that is gone.
LEMMA FailTypes ==
  ASSUME TypeOK, NEW c \in Claims, Fail(c)
  PROVE  agent' \in [Claims -> AgentType]
<1>1. agent \in [Claims -> AgentType]
  BY Types
<1>2. [Gone EXCEPT !.pc = IF c \in waited THEN "failed" ELSE "gone"] \in AgentType
  BY <1>1, AgentSteps
<1> QED  BY <1>1, <1>2 DEF Fail

\* Before the first job nothing was claimed, found or written.
LEMMA InitInv == ASSUME Init PROVE JobsInv
<1>1. TypeOK
  <2>1. [status |-> "none", attempt |-> 0] \in RowType
    BY DEF RowType
  <2>2. [pc |-> "none", own |-> 0, held |-> FALSE] \in AgentType
    BY DEF AgentType
  <2>3. job \in [Jobs -> RowType] /\ agent \in [Claims -> AgentType]
    BY <2>1, <2>2 DEF Init
  <2>4. /\ cold \in [Jobs -> BOOLEAN] /\ waited = {} /\ found = {}
        /\ verdict = <<0, 0>> /\ late \in BOOLEAN
    BY DEF Init
  <2>5. faults \in 0..MaxFaults
    BY DEF Init
  <2> QED  BY <2>3, <2>4, <2>5, Types
<1>2. OneActive /\ AttemptsLeft /\ CompletedVerdictStands
  BY DEF Init, OneActive, AttemptsLeft, CompletedVerdictStands
<1>3. AdoptedReached /\ RecheckedHeld /\ PersistedShows
  BY ClaimParts DEF Init, AdoptedReached, RecheckedHeld, PersistedShows
<1> QED  BY <1>1, <1>2, <1>3 DEF JobsInv

\* Every step keeps the types: a claim is made only while the budget lasts.
LEMMA TypeStep == ASSUME TypeOK, AttemptsLeft, AdoptedReached, [Next]_vars PROVE TypeOK'
<1> DEFINE Goal == /\ job' \in [Jobs -> RowType]
                   /\ cold' \in [Jobs -> BOOLEAN]
                   /\ agent' \in [Claims -> AgentType]
                   /\ waited' \subseteq Claims /\ found' \subseteq Claims
                   /\ verdict' \in {<<0, 0>>} \cup Claims
                   /\ faults' \in 0..MaxFaults /\ late' \in BOOLEAN
<1> SUFFICES Goal
  BY Types DEF RowType, AgentType, TypeOK
<1> USE Types
<1>1. ASSUME NEW j \in Jobs, Enqueue(j) PROVE Goal
  BY <1>1, SetStatusTypes DEF Enqueue, Active
<1>2. ASSUME NEW j \in Jobs, Cancel(j) PROVE Goal
  BY <1>2, SetStatusTypes DEF Cancel, Terminal
<1>3. ASSUME NEW j \in Jobs, Claim(j) PROVE Goal
  <2> DEFINE c == <<j, job[j].attempt + 1>>
  <2>1. c[2] \in Attempts
    BY <1>3, RowSteps DEF Claim, AttemptsLeft, Attempts
  <2>2. c \in Claims
    BY <2>1, ClaimParts
  <2>3. [status |-> "running", attempt |-> c[2]] \in RowType
    BY <2>1, RowSteps DEF Attempts
  <2>4. [agent[c] EXCEPT !.pc = "started"] \in AgentType
    BY <2>2, AgentSteps DEF Alive
  <2> QED  BY <1>3, <2>2, <2>3, <2>4 DEF Claim
<1>4. ASSUME NEW j \in Jobs, Beats(j) \/ Lapses(j) PROVE Goal
  BY <1>4 DEF Beats, Lapses, WorldFrame
<1>5. ASSUME NEW j \in Jobs, Stalls(j) PROVE Goal
  BY <1>5 DEF Stalls
<1>6. ASSUME NEW c \in Claims, Returns(c) PROVE Goal
  <2>1. agent' \in [Claims -> AgentType]
    BY <1>6, AgentSteps DEF Returns, Moves
  <2>2. job' \in [Jobs -> RowType] /\ cold' \in [Jobs -> BOOLEAN]
    BY <1>6, ClaimParts, SetStatusTypes DEF Returns, rows, Terminal
  <2> QED  BY <1>6, <2>1, <2>2 DEF Returns
<1>7. ASSUME NEW c \in Claims, SweepRow(c) PROVE Goal
  <2>1. job' \in [Jobs -> RowType] /\ cold' \in [Jobs -> BOOLEAN]
    BY <1>7, ClaimParts, SetStatusTypes DEF SweepRow, rows, Active, Terminal
  <2> QED  BY <1>7, <2>1 DEF SweepRow
<1>8. ASSUME NEW c \in Claims, Loads(c) PROVE Goal
  <2>1. [agent[c] EXCEPT !.pc = "working", !.own = job[c[1]].attempt] \in AgentType
    BY ClaimParts, RowSteps, AgentSteps
  <2>2. agent' \in [Claims -> AgentType]
    BY <1>8, <2>1, FailTypes DEF Loads
  <2> QED  BY <1>8, <2>2, ClaimParts DEF Loads, WorldFrame
<1>9. ASSUME NEW c \in Claims, Rechecks(c) PROVE Goal
  <2>1. Owned(c) \in BOOLEAN
    BY DEF Owned, Running
  <2>2. [agent[c] EXCEPT !.pc = "rechecked", !.held = Owned(c)] \in AgentType
    BY <2>1, AgentSteps
  <2>3. agent' \in [Claims -> AgentType]
    BY <1>9, <2>2, FailTypes DEF Rechecks
  <2> QED  BY <1>9, <2>1, <2>3, ClaimParts DEF Rechecks, WorldFrame
<1>10. ASSUME NEW c \in Claims, Persists(c) PROVE Goal
  <2>1. <<c[1], agent[c].own>> \in Claims
    <3>1. agent[c].own \in 0..MaxAttempts /\ agent[c].own > 0
      BY <1>10, AgentSteps DEF Persists, AdoptedReached
    <3>2. agent[c].own \in Attempts
      BY <3>1 DEF Attempts
    <3> QED  BY <3>2, ClaimParts
  <2>2. [agent[c] EXCEPT !.pc = "persisted"] \in AgentType
    BY AgentSteps DEF Alive
  <2>3. late' \in BOOLEAN
    BY <1>10, AgentSteps DEF Persists, Owned, Running
  <2> QED  BY <1>10, <2>1, <2>2, <2>3 DEF Persists, Moves, WorldFrame, rows
<1>11. ASSUME NEW c \in Claims, Completes(c) PROVE Goal
  <2>1. job' \in [Jobs -> RowType] /\ cold' \in [Jobs -> BOOLEAN]
    BY <1>11, ClaimParts, SetStatusTypes DEF Completes, rows, Terminal
  <2> QED  BY <1>11, <2>1, AgentSteps DEF Completes
<1>12. ASSUME NEW c \in Claims, Fails(c) PROVE Goal
  <2>1. job' \in [Jobs -> RowType] /\ cold' \in [Jobs -> BOOLEAN]
    BY <1>12, ClaimParts, SetStatusTypes DEF Fails, rows, Terminal
  <2> QED  BY <1>12, <2>1, FailTypes DEF Fails, WorldFrame
<1>13. ASSUME NEW c \in Claims, Dies(c) PROVE Goal
  BY <1>13, FailTypes DEF Dies, WorldFrame, rows
<1>14. CASE SweepFinds
  <2>1. \A j \in Jobs : Stale(j) => <<j, job[j].attempt>> \in Claims
    BY ClaimParts, RowSteps DEF Stale, AttemptsLeft, Attempts
  <2> QED  BY <1>14, <2>1 DEF SweepFinds, rows
<1>15. CASE Restart
  <2>1. \A c \in Claims : Gone \in AgentType
    BY AgentSteps
  <2> QED  BY <1>15, <2>1 DEF Restart, rows
<1>16. CASE UNCHANGED vars
  BY <1>16 DEF vars, rows
<1> QED  BY <1>1, <1>2, <1>3, <1>4, <1>5, <1>6, <1>7, <1>8, <1>9, <1>10, <1>11, <1>12,
            <1>13, <1>14, <1>15, <1>16 DEF Next, AgentStep

-----------------------------------------------------------------------------
(* Jobs that ended.                                                        *)

\* What a step may do to the row of job j.
RowMove(j) ==
  \/ job'[j] = job[j]
  \/ /\ job[j].status = "none" /\ job'[j].status = "pending"
     /\ job'[j].attempt = job[j].attempt
     /\ \A i \in Jobs : i < j => job[i].status \in Terminal
  \/ /\ job[j].status = "pending" /\ job'[j].status = "running"
     /\ job'[j].attempt = job[j].attempt + 1
  \/ /\ job[j].status \in Active /\ job'[j].status \in {"failed", "cancelled"}
     /\ job'[j].attempt = job[j].attempt
  \/ /\ job[j].status = "running" /\ job'[j].status = "pending"
     /\ job'[j].attempt = job[j].attempt /\ job[j].attempt < MaxAttempts
  \/ \E c \in Claims : /\ Completes(c) /\ Owned(c) /\ c[1] = j
                     /\ job'[j] = [job[j] EXCEPT !.status = "completed"]

\* Every step moves every row in one of these ways.
LEMMA RowMoves ==
  ASSUME TypeOK, [Next]_vars, NEW j \in Jobs
  PROVE  RowMove(j)
<1> DEFINE Goal == RowMove(j)
<1> USE DEF RowMove
<1>0. /\ job \in [Jobs -> RowType] /\ job[j] \in RowType
      /\ \A k \in Jobs : \A s : SetStatus(k, s) =>
           /\ k # j => job'[j] = job[j]
           /\ k = j => job'[j] = [job[j] EXCEPT !.status = s]
  BY Types DEF SetStatus
<1>00. \A s : /\ [job[j] EXCEPT !.status = s].status = s
              /\ [job[j] EXCEPT !.status = s].attempt = job[j].attempt
  BY <1>0 DEF RowType
<1>01. ASSUME NEW k \in Jobs, SetStatus(k, "failed"), job[k].status = "running" PROVE Goal
  <2>1. CASE k = j
    BY <1>0, <1>00, <1>01, <2>1 DEF Active
  <2> QED  BY <1>0, <1>01, <2>1
<1>1. ASSUME NEW k \in Jobs, Enqueue(k) PROVE Goal
  BY <1>0, <1>00, <1>1 DEF Enqueue
<1>2. ASSUME NEW k \in Jobs, Cancel(k) PROVE Goal
  BY <1>0, <1>00, <1>2 DEF Cancel
<1>3. ASSUME NEW k \in Jobs, Claim(k) PROVE Goal
  <2>1. CASE k # j
    BY <1>0, <1>3, <2>1 DEF Claim
  <2>2. CASE k = j
    <3>1. job'[j] = [status |-> "running", attempt |-> job[j].attempt + 1]
      BY <1>0, <1>3, <2>2 DEF Claim
    <3> QED  BY <1>3, <2>2, <3>1 DEF Claim
  <2> QED  BY <2>1, <2>2
<1>4. ASSUME NEW c \in Claims, Returns(c) PROVE Goal
  <2>1. UNCHANGED rows \/ (SetStatus(c[1], "failed") /\ job[c[1]].status = "running")
    BY <1>4 DEF Returns, Running
  <2> QED  BY <1>01, <2>1, ClaimParts DEF rows
<1>5. ASSUME NEW c \in Claims, SweepRow(c) PROVE Goal
  <2>1. CASE ~StillRunning(c)
    BY <1>5, <2>1 DEF SweepRow, rows
  <2>2. CASE StillRunning(c) /\ c[1] # j
    BY <1>0, <1>5, <2>2, ClaimParts DEF SweepRow
  <2>3. CASE StillRunning(c) /\ c[1] = j
    <3>1. job[j].status = "running" /\ job[j].attempt = c[2]
      BY <2>3 DEF StillRunning, Running
    <3>2. c[2] \in Nat
      BY ClaimParts DEF Attempts
    <3>3. CASE c[2] >= MaxAttempts
      <4>1. SetStatus(c[1], "failed")
        BY <1>5, <2>3, <3>3 DEF SweepRow
      <4> QED  BY <1>01, <2>3, <3>1, <4>1
    <3>4. CASE c[2] < MaxAttempts
      <4>1. SetStatus(c[1], "pending")
        BY <1>5, <2>3, <3>2, <3>4 DEF SweepRow
      <4>2. job'[j] = [job[j] EXCEPT !.status = "pending"]
        BY <1>0, <2>3, <4>1
      <4>3. job'[j].status = "pending" /\ job'[j].attempt = job[j].attempt
        BY <1>00, <4>2
      <4> QED  BY <3>1, <3>4, <4>3
    <3>5. c[2] >= MaxAttempts \/ c[2] < MaxAttempts
      BY <3>2
    <3> QED  BY <3>3, <3>4, <3>5
  <2> QED  BY <2>1, <2>2, <2>3
<1>6. ASSUME NEW c \in Claims, Completes(c) PROVE Goal
  BY <1>0, <1>6, ClaimParts DEF Completes, rows
<1>7. ASSUME NEW c \in Claims, Fails(c) PROVE Goal
  <2>1. CASE Owned(c) /\ c[1] = j
    <3>1. job[j].status = "running" /\ SetStatus(j, "failed")
      BY <1>7, <2>1 DEF Fails, Owned, Running
    <3> QED  BY <1>0, <1>00, <3>1 DEF Active
  <2>2. CASE ~(Owned(c) /\ c[1] = j)
    <3>1. job'[j] = job[j]
      BY <1>0, <1>7, <2>2, ClaimParts DEF Fails, rows
    <3> QED  BY <3>1
  <2> QED  BY <2>1, <2>2
<1>8. ASSUME UNCHANGED job PROVE Goal
  BY <1>8
<1> QED
  BY <1>1, <1>2, <1>3, <1>4, <1>5, <1>6, <1>7, <1>8
  DEF Next, AgentStep, Beats, Lapses, Stalls, Loads, Rechecks, Persists, Dies, SweepFinds, Restart,
      WorldFrame, rows, vars

\* Nothing an agent, the worker or a handler does changes a row that ended.
LEMMA EndedStays ==
  ASSUME TypeOK, [Next]_vars, NEW j \in Jobs, job[j].status \in Terminal
  PROVE  job'[j] = job[j]
<1>1. job[j].status \notin {"none", "pending", "running"}
  BY DEF Terminal
<1>2. \A c \in Claims : Owned(c) /\ c[1] = j => job[j].status = "running"
  BY DEF Owned, Running
<1> QED  BY <1>1, <1>2, RowMoves DEF RowMove, Active

-----------------------------------------------------------------------------
(* Agents.                                                                 *)

\* What a step may do to the agent of claim c.
AgentMove(c) ==
  \/ agent'[c] = agent[c]
  \/ /\ agent'[c].pc \in {"started", "failed", "gone"}
     /\ agent'[c].own \in {agent[c].own, 0}
  \/ /\ agent'[c].pc = "working" /\ agent'[c].own = job[c[1]].attempt
     /\ job[c[1]].status = "running"
  \/ /\ agent[c].pc = "working" /\ agent'[c].pc = "rechecked"
     /\ agent'[c].own = agent[c].own /\ agent'[c].held
  \/ /\ agent[c].pc = "rechecked" /\ agent'[c].pc = "persisted"
     /\ agent'[c].own = agent[c].own /\ Persists(c)

\* Every step moves every agent in one of these ways.
LEMMA AgentMoves ==
  ASSUME TypeOK, [Next]_vars, NEW c \in Claims
  PROVE  AgentMove(c)
<1> DEFINE Goal == AgentMove(c)
<1> USE DEF AgentMove
<1>0. agent \in [Claims -> AgentType] /\ agent[c] \in AgentType
  BY Types
<1>1. ASSUME NEW d \in Claims, NEW pc \in {"started", "failed", "gone"}, agent' = [agent EXCEPT ![d].pc = pc]
      PROVE  Goal
  <2>1. CASE c = d
    <3>1. agent'[c] = [agent[c] EXCEPT !.pc = pc]
      BY <1>0, <1>1, <2>1
    <3>2. agent'[c].pc = pc /\ agent'[c].own = agent[c].own
      BY <1>0, <3>1 DEF AgentType
    <3> QED  BY <3>2
  <2> QED  BY <1>0, <1>1, <2>1
<1>2. ASSUME NEW d \in Claims, Fail(d) PROVE Goal
  <2>1. CASE c = d
    <3>1. agent'[c] = [Gone EXCEPT !.pc = IF c \in waited THEN "failed" ELSE "gone"]
      BY <1>0, <1>2, <2>1 DEF Fail
    <3>2. agent'[c].pc \in {"failed", "gone"} /\ agent'[c].own = 0
      BY <3>1 DEF Gone
    <3> QED  BY <3>2
  <2> QED  BY <1>0, <1>2, <2>1 DEF Fail
<1>3. ASSUME NEW j \in Jobs, Claim(j) PROVE Goal
  <2>1. CASE <<j, job[j].attempt + 1>> \in Claims
    BY <1>1, <1>3, <2>1 DEF Claim
  <2>2. CASE <<j, job[j].attempt + 1>> \notin Claims
    <3>1. agent' = agent
      BY <1>0, <1>3, <2>2 DEF Claim
    <3> QED  BY <3>1
  <2> QED  BY <2>1, <2>2
<1>4. ASSUME NEW d \in Claims, Returns(d) PROVE Goal
  BY <1>1, <1>4 DEF Returns, Moves
<1>5. ASSUME NEW d \in Claims, Loads(d) PROVE Goal
  <2>1. CASE job[d[1]].status # "running"
    BY <1>2, <1>5, <2>1 DEF Loads
  <2>2. CASE job[d[1]].status = "running" /\ c = d
    <3>1. agent'[c] = [agent[c] EXCEPT !.pc = "working", !.own = job[c[1]].attempt]
      BY <1>0, <1>5, <2>2 DEF Loads
    <3>2. agent'[c].pc = "working" /\ agent'[c].own = job[c[1]].attempt
      BY <1>0, <3>1 DEF AgentType
    <3> QED  BY <2>2, <3>2
  <2>3. CASE job[d[1]].status = "running" /\ c # d
    BY <1>0, <1>5, <2>3 DEF Loads
  <2> QED  BY <2>1, <2>2, <2>3
<1>6. ASSUME NEW d \in Claims, Rechecks(d) PROVE Goal
  <2>1. CASE ~Owned(d)
    BY <1>2, <1>6, <2>1 DEF Rechecks, StillOurs
  <2>2. CASE Owned(d) /\ c = d
    <3>1. agent'[c] = [agent[c] EXCEPT !.pc = "rechecked", !.held = Owned(c)]
      BY <1>0, <1>6, <2>2 DEF Rechecks, StillOurs
    <3>2. /\ agent'[c].pc = "rechecked" /\ agent'[c].own = agent[c].own
          /\ agent'[c].held = Owned(c)
      BY <1>0, <3>1 DEF AgentType
    <3> QED  BY <1>6, <2>2, <3>2 DEF Rechecks
  <2>3. CASE Owned(d) /\ c # d
    BY <1>0, <1>6, <2>3 DEF Rechecks, StillOurs
  <2> QED  BY <2>1, <2>2, <2>3
<1>7. ASSUME NEW d \in Claims, Persists(d) PROVE Goal
  <2>1. CASE c = d
    <3>1. agent'[c] = [agent[c] EXCEPT !.pc = "persisted"]
      BY <1>0, <1>7, <2>1 DEF Persists, Moves
    <3>2. agent'[c].pc = "persisted" /\ agent'[c].own = agent[c].own
      BY <1>0, <3>1 DEF AgentType
    <3>3. agent[c].pc = "rechecked"
      BY <1>7, <2>1 DEF Persists
    <3> QED  BY <1>7, <2>1, <3>2, <3>3
  <2> QED  BY <1>0, <1>7, <2>1 DEF Persists, Moves
<1>8. ASSUME NEW d \in Claims, Completes(d) PROVE Goal
  BY <1>0, <1>8 DEF Completes, Gone
<1>9. ASSUME NEW d \in Claims, Fails(d) \/ Dies(d) PROVE Goal
  BY <1>2, <1>9 DEF Fails, Dies
<1>10. CASE Restart
  BY <1>0, <1>10 DEF Restart, Gone
<1>11. ASSUME UNCHANGED agent PROVE Goal
  BY <1>11
<1> QED
  BY <1>3, <1>4, <1>5, <1>6, <1>7, <1>8, <1>9, <1>10, <1>11
  DEF Next, AgentStep, Enqueue, Cancel, SweepRow, Beats, Lapses, Stalls, SweepFinds,
      WorldFrame, vars

-----------------------------------------------------------------------------
(* The invariant.                                                          *)

\* How the status and the attempt of a row move together.
RowOutcome(j) ==
  LET s == job[j].status  t == job'[j].status  a == job[j].attempt  b == job'[j].attempt IN
  \/ s = t /\ b = a
  \/ s = "pending" /\ t = "running" /\ b = a + 1
  \/ s = "running" /\ t = "pending" /\ b = a /\ a < MaxAttempts
  \/ s = "none" /\ t = "pending" /\ b = a
  \/ s \in Active /\ t \in {"failed", "cancelled"} /\ b = a
  \/ s = "running" /\ t = "completed" /\ b = a

\* RowMoves, of the fields.
LEMMA RowOutcomes ==
  ASSUME TypeOK, [Next]_vars, NEW j \in Jobs
  PROVE  job[j].attempt \in Nat /\ RowOutcome(j)
<1>1. job[j] \in RowType /\ job[j].attempt \in Nat
  BY Types, RowSteps
<1>2. ASSUME NEW c \in Claims, Owned(c), c[1] = j, job'[j] = [job[j] EXCEPT !.status = "completed"]
      PROVE  RowOutcome(j)
  <2>1. job'[j].status = "completed" /\ job'[j].attempt = job[j].attempt
    BY <1>1, <1>2 DEF RowType
  <2>2. job[j].status = "running"
    BY <1>2 DEF Owned, Running
  <2> QED  BY <2>1, <2>2 DEF RowOutcome
<1>3. RowMove(j)
  BY RowMoves
<1> QED  BY <1>1, <1>2, <1>3 DEF RowMove, RowOutcome

\* No row goes back to an attempt it left.
LEMMA AttemptsGrow ==
  ASSUME TypeOK, [Next]_vars, NEW j \in Jobs
  PROVE  /\ job[j].attempt \in Nat /\ job'[j].attempt \in Nat
         /\ job'[j].attempt >= job[j].attempt
         /\ job'[j].status = "running" /\ job[j].status # "running"
              => job'[j].attempt > job[j].attempt
BY RowOutcomes DEF RowOutcome, Active

\* A job is enqueued when the earlier ones have ended.
LEMMA OneActiveStep == ASSUME TypeOK, OneActive, [Next]_vars PROVE OneActive'
<1> SUFFICES ASSUME NEW i \in Jobs, NEW j \in Jobs, i < j, job'[j].status # "none"
             PROVE  job'[i].status \in Terminal
  BY DEF OneActive
<1>1. job[i].status \in Terminal
  <2>1. CASE job[j].status # "none"
    BY <2>1 DEF OneActive
  <2>2. CASE job[j].status = "none"
    <3>1. \A c \in Claims : Owned(c) /\ c[1] = j => job[j].status = "running"
      BY DEF Owned, Running
    <3> QED  BY <2>2, <3>1, RowMoves DEF RowMove, Active
  <2> QED  BY <2>1, <2>2
<1> QED  BY <1>1, EndedStays

\* A row is requeued only while a claim is left, and completed only by an agent
\* that adopted a claim.
LEMMA AttemptsLeftStep == ASSUME JobsInv, [Next]_vars PROVE AttemptsLeft'
<1> SUFFICES ASSUME NEW j \in Jobs
             PROVE  /\ job'[j].status = "none" => job'[j].attempt = 0
                    /\ job'[j].status = "pending" => job'[j].attempt < MaxAttempts
                    /\ job'[j].status \in {"running", "completed"} => job'[j].attempt > 0
  BY DEF AttemptsLeft
<1>1. job[j].attempt \in Nat /\ RowOutcome(j)
  BY RowOutcomes DEF JobsInv
<1>2. /\ job[j].status = "none" => job[j].attempt = 0
      /\ job[j].status = "pending" => job[j].attempt < MaxAttempts
      /\ job[j].status \in {"running", "completed"} => job[j].attempt > 0
  BY DEF JobsInv, AttemptsLeft
<1> QED  BY <1>1, <1>2 DEF RowOutcome, Active

\* What an agent adopts is where its row is, and rows only move on.
LEMMA AdoptedStep == ASSUME JobsInv, [Next]_vars PROVE AdoptedReached'
<1> SUFFICES ASSUME NEW c \in Claims
             PROVE  /\ agent'[c].own <= job'[c[1]].attempt
                    /\ agent'[c].pc \in {"working", "rechecked", "persisted"} => agent'[c].own > 0
  BY DEF AdoptedReached
<1>1. c[1] \in Jobs /\ AgentMove(c)
  BY ClaimParts, AgentMoves DEF JobsInv
<1>2. /\ job[c[1]].attempt \in Nat /\ job'[c[1]].attempt \in Nat
      /\ job'[c[1]].attempt >= job[c[1]].attempt
  BY <1>1, AttemptsGrow DEF JobsInv
<1>3. agent[c].own \in Nat
  <2>1. agent[c] \in AgentType
    BY Types DEF JobsInv
  <2> QED  BY <2>1 DEF AgentType
<1>4. /\ agent[c].own <= job[c[1]].attempt
      /\ agent[c].pc \in {"working", "rechecked", "persisted"} => agent[c].own > 0
      /\ job[c[1]].status = "running" => job[c[1]].attempt > 0
  BY <1>1 DEF JobsInv, AdoptedReached, AttemptsLeft
<1> QED  BY <1>1, <1>2, <1>3, <1>4 DEF AgentMove

\* The recheck lets an agent through only with the row in its hands.
LEMMA RecheckedStep == ASSUME JobsInv, [Next]_vars PROVE RecheckedHeld'
<1> SUFFICES ASSUME NEW c \in Claims, agent'[c].pc = "rechecked" PROVE agent'[c].held
  BY DEF RecheckedHeld
<1> QED  BY AgentMoves DEF JobsInv, RecheckedHeld, AgentMove

\* Who writes a verdict that is not late has the row, and the document shows
\* his.
LEMMA WritesOwned ==
  ASSUME JobsInv, NEW c \in Claims, Persists(c), ~late'
  PROVE  Owned(c) /\ verdict' = <<c[1], agent[c].own>> /\ UNCHANGED job
<1>1. agent[c].held
  BY DEF Persists, JobsInv, RecheckedHeld
<1> QED  BY <1>1 DEF Persists, rows

\* Nobody else's write changes the verdict, and a write is late for ever.
LEMMA VerdictMoves ==
  ASSUME TypeOK, [Next]_vars
  PROVE  /\ late => late'
         /\ UNCHANGED verdict \/ \E c \in Claims : Persists(c)
<1>1. ASSUME NEW j \in Jobs, Enqueue(j) \/ Cancel(j) \/ Claim(j) \/ Beats(j) \/ Lapses(j) \/ Stalls(j)
      PROVE  UNCHANGED <<verdict, late>>
  BY <1>1 DEF Enqueue, Cancel, Claim, Beats, Lapses, Stalls, WorldFrame
<1>2. ASSUME NEW c \in Claims, Returns(c) \/ SweepRow(c) \/ Loads(c) \/ Rechecks(c)
                                \/ Completes(c) \/ Fails(c) \/ Dies(c)
      PROVE  UNCHANGED <<verdict, late>>
  BY <1>2 DEF Returns, SweepRow, Loads, Rechecks, Completes, Fails, Dies, WorldFrame
<1>3. (\E c \in Claims : Persists(c)) => (late => late')
  BY DEF Persists
<1>4. UNCHANGED vars => UNCHANGED <<verdict, late>>
  BY DEF vars
<1>5. CASE Next
  <2>1. CASE SweepFinds \/ Restart
    BY <2>1 DEF SweepFinds, Restart
  <2>2. CASE \E j \in Jobs : \/ Enqueue(j) \/ Cancel(j) \/ Claim(j)
                            \/ Beats(j) \/ Lapses(j) \/ Stalls(j)
    <3>1. UNCHANGED <<verdict, late>>
      BY Zenon, <1>1, <2>2
    <3> QED  BY <3>1
  <2>3. CASE \E c \in Claims : Returns(c) \/ SweepRow(c) \/ AgentStep(c)
    <3>1. UNCHANGED <<verdict, late>> \/ \E c \in Claims : Persists(c)
      BY Zenon, <1>2, <2>3 DEF AgentStep
    <3> QED  BY <1>3, <3>1
  <2> QED  BY <1>5, <2>1, <2>2, <2>3 DEF Next
<1> QED  BY <1>4, <1>5

\* Between an agent's write and its last, the row it has keeps other agents
\* from writing.
LEMMA PersistedStep == ASSUME JobsInv, [Next]_vars PROVE PersistedShows'
<1> SUFFICES ASSUME ~late', NEW c \in Claims, agent'[c].pc = "persisted", Owned(c)'
             PROVE  verdict' = <<c[1], agent'[c].own>>
  BY DEF PersistedShows
<1>0. ~late /\ c[1] \in Jobs
  BY VerdictMoves, ClaimParts DEF JobsInv
<1>1. job'[c[1]].status = "running" /\ job'[c[1]].attempt = agent'[c].own
  BY DEF Owned, Running
<1>2. \/ agent'[c] = agent[c]
      \/ Persists(c) /\ agent'[c].own = agent[c].own
  BY AgentMoves DEF AgentMove, JobsInv
<1>3. CASE Persists(c) /\ agent'[c].own = agent[c].own
  BY <1>3, WritesOwned
<1>4. CASE agent'[c] = agent[c]
  <2>1. agent[c].own <= job[c[1]].attempt /\ agent[c].own \in Nat
    <3>1. agent[c] \in AgentType
      BY Types DEF JobsInv
    <3>2. agent[c].own \in Nat
      BY <3>1 DEF AgentType
    <3> QED  BY <3>2 DEF JobsInv, AdoptedReached
  <2>2. job[c[1]].status = "running"
    BY <1>0, <1>1, <1>4, <2>1, AttemptsGrow DEF JobsInv
  <2>3. job'[c[1]].attempt = job[c[1]].attempt
    BY <1>0, <1>1, <2>2, RowOutcomes DEF RowOutcome, JobsInv
  <2>4. Owned(c)
    <3>1. job[c[1]] \in RowType
      BY <1>0, Types DEF JobsInv
    <3> QED  BY <1>1, <1>4, <2>2, <2>3, <3>1 DEF Owned, Running, RowType
  <2>5. verdict = <<c[1], agent[c].own>>
    BY <1>0, <1>4, <2>4 DEF JobsInv, PersistedShows
  <2>6. ASSUME NEW d \in Claims, Persists(d) PROVE verdict' = <<c[1], agent[c].own>>
    <3>1. Owned(d) /\ verdict' = <<d[1], agent[d].own>>
      BY <2>6, WritesOwned
    <3>2. d[1] \in Jobs /\ job[d[1]].status = "running" /\ job[d[1]].attempt = agent[d].own
      BY <3>1, ClaimParts DEF Owned, Running
    <3>3. d[1] = c[1]
      <4>1. ~(d[1] < c[1]) /\ ~(c[1] < d[1])
        BY <1>0, <2>2, <3>2 DEF JobsInv, OneActive, Terminal
      <4> QED  BY <1>0, <3>2, <4>1, ClaimParts
    <3> QED  BY <2>4, <3>1, <3>2, <3>3 DEF Owned, Running
  <2> QED  BY <1>4, <2>5, <2>6, VerdictMoves DEF JobsInv
<1> QED  BY <1>2, <1>3, <1>4

\* A verdict written behind a completed one is of a later job.
LEMMA CompletedStep == ASSUME JobsInv, [Next]_vars PROVE CompletedVerdictStands'
<1> SUFFICES ASSUME ~late', NEW j \in Jobs, job'[j].status = "completed"
             PROVE  verdict' = <<j, job'[j].attempt>> \/ verdict'[1] > j
  BY DEF CompletedVerdictStands
<1>0. ~late
  BY VerdictMoves DEF JobsInv
<1>1. CASE job'[j] = job[j]
  <2>1. verdict = <<j, job[j].attempt>> \/ verdict[1] > j
    BY <1>0, <1>1 DEF JobsInv, CompletedVerdictStands
  <2>2. ASSUME NEW d \in Claims, Persists(d) PROVE verdict'[1] > j
    <3>1. Owned(d) /\ verdict' = <<d[1], agent[d].own>>
      BY <2>2, WritesOwned
    <3>2. d[1] \in Jobs /\ job[d[1]].status = "running"
      BY <3>1, ClaimParts DEF Owned, Running
    <3>3. ~(d[1] < j) /\ d[1] # j
      BY <1>1, <3>2 DEF JobsInv, OneActive, Terminal
    <3> QED  BY <3>1, <3>2, <3>3, ClaimParts
  <2> QED  BY <1>1, <2>1, <2>2, VerdictMoves DEF JobsInv
<1>2. ASSUME NEW c \in Claims, Completes(c), Owned(c), c[1] = j,
             job'[j] = [job[j] EXCEPT !.status = "completed"]
      PROVE  verdict' = <<j, job'[j].attempt>>
  <2>1. verdict = <<c[1], agent[c].own>>
    BY <1>0, <1>2 DEF JobsInv, PersistedShows, Completes
  <2>2. job'[j].attempt = job[j].attempt
    <3>1. job[j] \in RowType
      BY Types DEF JobsInv
    <3> QED  BY <1>2, <3>1 DEF RowType
  <2>3. job[j].attempt = agent[c].own
    BY <1>2 DEF Owned, Running
  <2> QED  BY <1>2, <2>1, <2>2, <2>3 DEF Completes
<1> QED  BY <1>1, <1>2, RowMoves DEF RowMove, JobsInv

\* The invariant is inductive.
LEMMA InvStep == ASSUME JobsInv, [Next]_vars PROVE JobsInv'
<1>1. TypeOK'
  BY TypeStep DEF JobsInv
<1>2. OneActive'
  BY OneActiveStep DEF JobsInv
<1> QED
  BY <1>1, <1>2, AttemptsLeftStep, AdoptedStep, RecheckedStep, PersistedStep, CompletedStep
  DEF JobsInv

\* It holds of every reachable state.
LEMMA InvHolds == Spec => []JobsInv
<1>1. Init => JobsInv
  BY InitInv
<1>2. JobsInv /\ [Next]_vars => JobsInv'
  BY InvStep
<1> QED  BY <1>1, <1>2, PTL DEF Spec

-----------------------------------------------------------------------------
(* The theorems.                                                           *)

\* validation_job_repo.go, ClaimNextPending and RequeueStale: no row is claimed
\* more often than the budget allows.
THEOREM TypeCorrect == Spec => []TypeOK
<1>1. JobsInv => TypeOK
  BY DEF JobsInv
<1> QED  BY <1>1, InvHolds, PTL

\* validation_job_repo.go: no update of the agents, the worker, the sweep or the
\* handlers changes a row that ended.
THEOREM EndedIsFinal == Spec => TerminalJobIsFinal
<1>1. JobsInv /\ [Next]_vars => [\A j \in Jobs : job[j].status \in Terminal => job'[j] = job[j]]_vars
  BY EndedStays DEF JobsInv
<1> QED  BY <1>1, InvHolds, PTL DEF Spec, TerminalJobIsFinal

\* validate_doc.go: the recheck before the write is enough, as long as no write
\* falls between it and the loss of the row.
THEOREM VerdictStands == Spec => []CompletedVerdictStands
<1>1. JobsInv => CompletedVerdictStands
  BY DEF JobsInv
<1> QED  BY <1>1, InvHolds, PTL
=============================================================================
