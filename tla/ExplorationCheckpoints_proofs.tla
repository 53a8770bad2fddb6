-------------------- MODULE ExplorationCheckpoints_proofs --------------------
(***************************************************************************)
(* For any number of attempts, steps and faults: what a resume replays is   *)
(* a conversation one attempt had (ReplayIsOneExploration), and a summary a *)
(* resume trusts was written over exactly the steps it replays              *)
(* (SummaryIsOfReplayedSteps), as long as no superseded attempt wrote; and  *)
(* as long as no write failed, one such write does no harm                  *)
(* (OneLateWriteIsHarmless, OwnersStepsReplay).                             *)
(***************************************************************************)
EXTENDS ExplorationCheckpoints, SequenceTheorems, WellFoundedInduction, TLAPS

USE ExplorationAssumption

\* Steps 1..k have rows, each of no older an attempt than the row before it.
Chain(k) == \A i \in 1..k : row[i] # Absent /\ InChain(i)

-----------------------------------------------------------------------------
(* The prefix.                                                             *)

\* A set of numbers has a least one.
LEMMA LeastNumber ==
  ASSUME NEW T, T \subseteq Nat, T # {}
  PROVE  \E m \in T : \A n \in T : m <= n
<1>1. PICK m \in T : \A n \in T : ~(<<n, m>> \in OpToRel(<, Nat))
  BY NatLessThanWellFounded, WFMin
<1>2. \A n \in T : ~(n < m)
  BY <1>1 DEF OpToRel
<1> QED  BY <1>2

\* A chain that ends ends somewhere.
LEMMA ChainEnds ==
  \E p \in 0..MaxStep : Chain(p) /\ \A k \in 0..MaxStep : Chain(k) => k <= p
<1> DEFINE T == {k \in Nat : k > MaxStep \/ ~Chain(k)}
<1>1. MaxStep + 1 \in T
  OBVIOUS
<1>2. PICK m \in T : \A n \in T : m <= n
  <2>1. T \subseteq Nat /\ T # {}
    BY <1>1
  <2> QED  BY <2>1, LeastNumber
<1>3. m # 0
  BY <1>2 DEF Chain
<1>4. m - 1 \in Nat /\ m - 1 \notin T
  BY <1>2, <1>3
<1>5. m - 1 \in 0..MaxStep /\ Chain(m - 1)
  BY <1>4
<1>6. ASSUME NEW k \in 0..MaxStep, Chain(k) PROVE k <= m - 1
  <2>1. CASE k >= m
    <3>1. m \in 1..MaxStep /\ Chain(m)
      BY <1>2, <1>3, <1>6, <2>1 DEF Chain
    <3> QED  BY <1>2, <3>1
  <2>2. CASE ~(k >= m)
    BY <1>2, <2>2
  <2> QED  BY <2>1, <2>2
<1> QED  BY <1>5, <1>6

\* PrefixLen is the longest chain.
LEMMA PrefixIsChain ==
  /\ PrefixLen \in 0..MaxStep
  /\ Chain(PrefixLen)
  /\ \A k \in 0..MaxStep : Chain(k) => k <= PrefixLen
<1> DEFINE S == {k \in 0..MaxStep : Chain(k)}
<1>1. PICK p \in S : \A k \in S : p >= k
  BY ChainEnds
<1>2. PrefixLen = CHOOSE x \in S : \A y \in S : x >= y
  BY DEF PrefixLen, Max, Chain
<1>3. PrefixLen \in S /\ \A k \in S : PrefixLen >= k
  BY <1>1, <1>2
<1> QED  BY <1>3

\* What grows from each to the next grows.
LEMMA Grows ==
  ASSUME NEW r, NEW k \in Nat, \A n \in 1..k : r[n] \in Nat,
         \A n \in 1..k : n = 1 \/ r[n - 1] <= r[n],
         NEW i \in 1..k, NEW j \in 1..k, i <= j
  PROVE  r[i] <= r[j]
<1> SUFFICES ASSUME ~(r[i] <= r[j]) PROVE FALSE
  OBVIOUS
<1> DEFINE T == {n \in 1..k : i <= n /\ r[n] < r[i]}
<1>1. T \subseteq Nat /\ j \in T
  OBVIOUS
<1>2. PICK m \in T : \A n \in T : m <= n
  BY <1>1, LeastNumber
<1>3. m # i /\ m - 1 \in 1..k /\ i <= m - 1
  BY <1>2
<1>4. m - 1 \in T
  BY <1>2, <1>3
<1> QED  BY <1>2, <1>3, <1>4

\* In a chain no row is of an older attempt than any row before it.
LEMMA ChainGrows ==
  ASSUME TypeOK, NEW k \in 0..MaxStep, Chain(k), NEW i \in 1..k, NEW j \in 1..k, i <= j
  PROVE  row[i] <= row[j]
<1>1. \A n \in 1..k : row[n] \in Nat
  BY DEF TypeOK, Steps
<1>2. \A n \in 1..k : n = 1 \/ row[n - 1] <= row[n]
  BY DEF Chain, InChain
<1> QED  BY <1>1, <1>2, Grows

\* The prefix is a sequence of attempts, one for each of its steps.
LEMMA PrefixSeq ==
  ASSUME TypeOK
  PROVE  /\ Prefix \in Seq(Attempts)
         /\ Len(Prefix) = PrefixLen
         /\ \A k \in 1..PrefixLen : Prefix[k] = row[k] /\ row[k] \in Attempts
<1>1. PrefixLen \in Nat /\ \A k \in 1..PrefixLen : k \in Steps /\ row[k] # Absent
  BY PrefixIsChain DEF Steps, Chain
<1>2. \A k \in 1..PrefixLen : row[k] \in Attempts
  BY <1>1 DEF TypeOK, Attempts, Absent
<1>3. Prefix \in [1..PrefixLen -> Attempts] /\ DOMAIN Prefix = 1..PrefixLen
  BY <1>2 DEF Prefix
<1>4. Prefix \in Seq(Attempts)
  BY <1>1, <1>3, SeqDef
<1>5. Len(Prefix) \in Nat /\ DOMAIN Prefix = 1..Len(Prefix)
  BY <1>4, LenProperties
<1>6. Len(Prefix) = PrefixLen
  BY <1>1, <1>3, <1>5
<1> QED  BY <1>2, <1>4, <1>6 DEF Prefix

-----------------------------------------------------------------------------
(* The invariant.                                                          *)

\* The part of the type invariant that the steps keep together: a conversation
\* has room for its steps.
ConvFits == \A a \in Attempts : Len(conv[a]) <= MaxStep

\* Where the agents are, and what they have by then.
PlacedAt(a) ==
  /\ at[a] # "none" => a <= owner
  /\ at[a] \in {"none", "loading"} => conv[a] = << >>
  /\ at[a] \in {"exploring", "gated", "marking", "finishing", "analysing"} /\ a # 1
       => conv[a] # << >>
  /\ at[a] \in {"gated", "finishing"} => conv[a] # << >>
  /\ at[a] = "gated" => conv[a][Len(conv[a])] = a

Placed == \A a \in Attempts : PlacedAt(a)

\* A row is a step of the conversation of the attempt it names.
RowsAreSteps ==
  \A k \in Steps : row[k] # Absent =>
    row[k] <= owner /\ k <= Len(conv[row[k]]) /\ conv[row[k]][k] = row[k]

\* An attempt's conversation starts with every chain of older rows there is: it
\* was resumed over them, and they do not grow afterwards.
StartsWithOlder ==
  late = 0 => \A b \in Attempts, k \in Steps :
    conv[b] # << >> /\ Chain(k) /\ row[k] < b => k <= Len(conv[b]) /\ conv[b][k] = row[k]

\* The summary is of a conversation that has ended.
SummaryIsFinal ==
  summary.attempt # Absent =>
    LET b == summary.attempt IN
    /\ summary.total = Len(conv[b]) /\ conv[b] # << >>
    /\ at[b] \in {"analysing", "gone"}

StoreInv == TypeOK /\ ConvFits /\ Placed /\ RowsAreSteps /\ StartsWithOlder /\ SummaryIsFinal

\* One agent, with nothing said and nothing stored.
LEMMA InitInv == ASSUME Init PROVE StoreInv
<1>1. \A a \in Attempts : conv[a] = << >>
  BY DEF Init
<1>2. TypeOK
  <2>1. /\ owner \in Attempts /\ row \in [Steps -> 0..MaxAttempt]
        /\ faults \in 0..MaxFaults /\ late \in Nat
    BY DEF Init, Attempts, Absent
  <2>2. summary \in [attempt : 0..MaxAttempt, total : 0..MaxStep]
    BY DEF Init, Absent
  <2>3. at \in [Attempts -> Places]
    BY DEF Init, Places
  <2>4. conv \in [Attempts -> Seq(Attempts)]
    <3>1. << >> \in Seq(Attempts)
      OBVIOUS
    <3> QED  BY <3>1 DEF Init
  <2> QED  BY <2>1, <2>2, <2>3, <2>4 DEF TypeOK
<1>3. ConvFits
  BY <1>1 DEF ConvFits
<1>4. Placed
  BY <1>1 DEF Init, Placed, PlacedAt, Attempts
<1>5. RowsAreSteps /\ SummaryIsFinal
  BY DEF Init, RowsAreSteps, SummaryIsFinal
<1>6. StartsWithOlder
  BY <1>1 DEF StartsWithOlder
<1> QED  BY <1>2, <1>3, <1>4, <1>5, <1>6 DEF StoreInv

-----------------------------------------------------------------------------
(* Types.                                                                  *)

\* A conversation is a sequence, with a place for its next step.
LEMMA ConvSeq ==
  ASSUME TypeOK, NEW a \in Attempts
  PROVE  /\ conv[a] \in Seq(Attempts) /\ Len(conv[a]) \in Nat
         /\ conv[a] # << >> => Len(conv[a]) > 0
BY DEF TypeOK

\* What a step may do to the conversation of attempt b.
ConvMove(b) ==
  \/ conv'[b] = conv[b]
  \/ /\ at[b] = "loading" /\ conv'[b] = Prefix /\ PrefixLen # 0
     /\ owner = b /\ UNCHANGED <<owner, row, late>>
  \/ /\ at[b] = "exploring" /\ conv'[b] = Append(conv[b], b)
     /\ Len(conv[b]) < MaxStep /\ UNCHANGED <<owner, row, late>>

\* Every step moves every conversation in one of these ways.
LEMMA ConvMoves ==
  ASSUME TypeOK, [Next]_vars, NEW b \in Attempts
  PROVE  ConvMove(b)
<1> DEFINE Goal == ConvMove(b)
<1> USE DEF ConvMove
<1>0. conv \in [Attempts -> Seq(Attempts)]
  BY DEF TypeOK
<1>1. ASSUME NEW a \in Attempts, Loads(a) PROVE Goal
  BY <1>0, <1>1 DEF Loads, Goto, store
<1>2. ASSUME NEW a \in Attempts, Explores(a) PROVE Goal
  BY <1>0, <1>2 DEF Explores, Goto, store
<1>3. ASSUME UNCHANGED conv PROVE Goal
  BY <1>3
<1> QED
  BY <1>1, <1>2, <1>3
  DEF Next, AgentStep, Resumes, Expires, Saves, Marks, Finishes, Summarises, Dies, vars

\* A conversation stays one, and fits.
LEMMA ConvStep ==
  ASSUME TypeOK, ConvFits, [Next]_vars
  PROVE  \A b \in Attempts : conv'[b] \in Seq(Attempts) /\ Len(conv'[b]) <= MaxStep
<1> SUFFICES ASSUME NEW b \in Attempts
             PROVE  conv'[b] \in Seq(Attempts) /\ Len(conv'[b]) <= MaxStep
  OBVIOUS
<1>1. CASE conv'[b] = conv[b]
  BY <1>1, ConvSeq DEF ConvFits
<1>2. CASE conv'[b] = Prefix
  BY <1>2, PrefixSeq, PrefixIsChain
<1>3. CASE conv'[b] = Append(conv[b], b) /\ Len(conv[b]) < MaxStep
  BY <1>3, ConvSeq, AppendProperties
<1> QED  BY <1>1, <1>2, <1>3, ConvMoves DEF ConvMove

\* What a step may do to the store.
StoreMove ==
  \/ UNCHANGED store
  \/ \E k \in Steps : row' = [row EXCEPT ![k] = Absent] /\ UNCHANGED <<summary, late, owner, conv, at>>
  \/ summary' = [attempt |-> Absent, total |-> 0] /\ UNCHANGED <<row, late, owner, conv, at>>
  \/ \E a \in Attempts : /\ at[a] = "gated" /\ SaveStep(a, Len(conv[a]))
                        /\ UNCHANGED <<owner, conv>>
  \/ \E a \in Attempts : /\ at[a] = "finishing" /\ SaveSummary(a) /\ UNCHANGED <<owner, conv>>
                        /\ at' = [at EXCEPT ![a] = "analysing"]

\* Every step moves the store in one of these ways.
LEMMA StoreMoves ==
  ASSUME TypeOK, [Next]_vars
  PROVE  StoreMove
<1> USE DEF StoreMove
<1>1. ASSUME NEW a \in Attempts, Saves(a) PROVE StoreMove
  <2>1. /\ at[a] = "gated" /\ UNCHANGED <<owner, conv>>
        /\ SaveStep(a, Len(conv[a])) \/ UNCHANGED store
    BY <1>1 DEF Saves
  <2> QED  BY <2>1
<1>2. ASSUME NEW a \in Attempts, Summarises(a) PROVE StoreMove
  <2>1. /\ at[a] = "finishing" /\ UNCHANGED <<owner, conv>>
        /\ \/ SaveSummary(a) /\ at' = [at EXCEPT ![a] = "analysing"]
           \/ UNCHANGED store
    BY <1>2 DEF Summarises, Goto
  <2> QED  BY <2>1
<1>3. CASE Expires
  <2>1. UNCHANGED <<late, owner, conv, at>>
    BY <1>3 DEF Expires
  <2> QED  BY <1>3, <2>1 DEF Expires
<1>4. ASSUME UNCHANGED store PROVE StoreMove
  BY <1>4
<1> QED
  BY <1>1, <1>2, <1>3, <1>4
  DEF Next, AgentStep, Resumes, Loads, Explores, Marks, Finishes, Dies, vars

\* Every step keeps the types.
LEMMA TypeStep == ASSUME TypeOK, ConvFits, [Next]_vars PROVE TypeOK' /\ ConvFits'
<1>1. owner' \in Attempts /\ faults' \in 0..MaxFaults
  <2>1. CASE Resumes
    BY <2>1 DEF Resumes, TypeOK, Attempts
  <2>2. \A a \in Attempts : AgentStep(a) => UNCHANGED owner /\ (NoFault \/ Fault)
    BY DEF AgentStep, Loads, Explores, Saves, Marks, Finishes, Summarises, Dies, NoFault
  <2>3. Expires => UNCHANGED owner /\ Fault
    BY DEF Expires
  <2> QED  BY <2>1, <2>2, <2>3 DEF Next, TypeOK, NoFault, Fault, vars
<1>2. row' \in [Steps -> 0..MaxAttempt]
  <2>1. row \in [Steps -> 0..MaxAttempt] /\ 0 \in 0..MaxAttempt
    BY DEF TypeOK
  <2>2. ASSUME NEW k, NEW a \in 0..MaxAttempt, row' = [row EXCEPT ![k] = a]
        PROVE  row' \in [Steps -> 0..MaxAttempt]
    BY <2>1, <2>2
  <2>3. \/ row' = row
        \/ \E k \in Steps : row' = [row EXCEPT ![k] = 0]
        \/ \E a \in Attempts : row' = [row EXCEPT ![Len(conv[a])] = a]
    BY StoreMoves DEF StoreMove, store, SaveStep, SaveSummary, Absent
  <2>4. Attempts \subseteq 0..MaxAttempt
    BY DEF Attempts
  <2> QED  BY <2>1, <2>2, <2>3, <2>4
<1>3. summary' \in [attempt : 0..MaxAttempt, total : 0..MaxStep]
  <2>1. \A a \in Attempts : a \in 0..MaxAttempt /\ Len(conv[a]) \in 0..MaxStep
    BY ConvSeq DEF ConvFits, Attempts
  <2> QED  BY <2>1, StoreMoves DEF StoreMove, store, SaveStep, SaveSummary, TypeOK, Absent
<1>4. at' \in [Attempts -> Places]
  <2>1. \A a, pc : Goto(a, pc) /\ pc \in Places => at' \in [Attempts -> Places]
    BY DEF Goto, TypeOK
  <2>2. {"loading", "exploring", "gated", "marking", "finishing", "analysing", "gone"} \subseteq Places
    BY DEF Places
  <2>3. ASSUME NEW a \in Attempts, AgentStep(a)
        PROVE  \E pc \in {"loading", "exploring", "gated", "marking", "finishing",
                          "analysing", "gone"} : Goto(a, pc)
    BY <2>3 DEF AgentStep, Loads, Explores, Saves, Marks, Finishes, Summarises, Dies
  <2>4. CASE UNCHANGED at
    BY <2>4 DEF TypeOK
  <2> QED  BY <2>1, <2>2, <2>3, <2>4 DEF Next, Resumes, Expires, vars
<1>5. conv' \in [Attempts -> Seq(Attempts)]
  <2>1. conv' = [b \in Attempts |-> conv'[b]]
    <3>1. ASSUME NEW a \in Attempts, AgentStep(a) PROVE conv' = [b \in Attempts |-> conv'[b]]
      BY <3>1 DEF AgentStep, Loads, Explores, Saves, Marks, Finishes, Summarises, Dies, TypeOK
    <3>2. CASE UNCHANGED conv
      BY <3>2 DEF TypeOK
    <3> QED  BY <3>1, <3>2 DEF Next, Resumes, Expires, vars
  <2>2. \A b \in Attempts : conv'[b] \in Seq(Attempts)
    BY ConvStep
  <2> QED  BY <2>1, <2>2
<1>6. late' \in Nat
  <2>1. \A a : Noted(a) => late' \in Nat
    BY DEF Noted, TypeOK
  <2>2. ASSUME NEW a \in Attempts, AgentStep(a) PROVE Noted(a) \/ UNCHANGED late
    BY <2>2 DEF AgentStep, Loads, Explores, Saves, Marks, Finishes, Summarises, Dies, SaveStep,
                SaveSummary
  <2> QED  BY <2>1, <2>2 DEF Next, Resumes, Expires, vars, TypeOK
<1> QED  BY <1>1, <1>2, <1>3, <1>4, <1>5, <1>6, ConvStep DEF TypeOK, ConvFits

-----------------------------------------------------------------------------
(* Places.                                                                 *)

\* An agent gets to where it is with what Placed says.
LEMMA PlacedStep == ASSUME StoreInv, [Next]_vars PROVE Placed'
<1> SUFFICES ASSUME NEW b \in Attempts PROVE PlacedAt(b)'
  BY DEF Placed
<1>0. /\ at \in [Attempts -> Places] /\ conv \in [Attempts -> Seq(Attempts)] /\ owner \in Nat
      /\ b \in Nat /\ PlacedAt(b)
  BY DEF StoreInv, TypeOK, Placed, Attempts
<1> USE DEF PlacedAt
<1>1. ASSUME UNCHANGED <<owner>>, at'[b] = at[b], conv'[b] = conv[b] PROVE PlacedAt(b)'
  BY <1>0, <1>1
<1>2. CASE Resumes
  <2>1. CASE b = owner + 1
    <3>1. at[b] = "none"
      BY <1>0, <2>1
    <3> QED  BY <1>0, <1>2, <2>1, <3>1 DEF Resumes, Goto
  <2>2. CASE b # owner + 1
    BY <1>0, <1>2, <2>2 DEF Resumes, Goto
  <2> QED  BY <2>1, <2>2
<1>3. ASSUME NEW a \in Attempts, AgentStep(a), a # b PROVE PlacedAt(b)'
  <2>1. UNCHANGED <<owner>> /\ at'[b] = at[b] /\ conv'[b] = conv[b]
    BY <1>0, <1>3
    DEF AgentStep, Loads, Explores, Saves, Marks, Finishes, Summarises, Dies, Goto
  <2> QED  BY <1>1, <2>1
<1>4. CASE Loads(b)
  <2>1. CASE PrefixLen = 0 \/ owner # b
    BY <1>0, <1>4, <2>1 DEF Loads, Goto
  <2>2. CASE ~(PrefixLen = 0 \/ owner # b)
    <3>1. /\ at'[b] \in {"analysing", "exploring"} /\ conv'[b] = Prefix
          /\ owner' = owner /\ owner = b
      BY <1>0, <1>4, <2>2 DEF Loads, Goto
    <3>2. Prefix # << >>
      BY <2>2, PrefixSeq DEF StoreInv
    <3> QED  BY <1>0, <3>1, <3>2
  <2> QED  BY <2>1, <2>2
<1>5. CASE Explores(b)
  <2>1. /\ at'[b] \in {"gated", "gone"} /\ conv'[b] = Append(conv[b], b)
        /\ owner' = owner /\ at[b] = "exploring"
    BY <1>0, <1>5 DEF Explores, Goto
  <2>2. Append(conv[b], b) # << >> /\ Append(conv[b], b)[Len(Append(conv[b], b))] = b
    BY <1>0, AppendProperties
  <2> QED  BY <1>0, <2>1, <2>2
<1>6. CASE Saves(b)
  <2>1. /\ at'[b] \in {"marking", "gone", "exploring"} /\ conv'[b] = conv[b]
        /\ owner' = owner /\ at[b] = "gated"
    BY <1>0, <1>6 DEF Saves, Goto
  <2> QED  BY <1>0, <2>1
<1>7. CASE Marks(b)
  <2>1. /\ at'[b] \in {"exploring", "gone"} /\ conv'[b] = conv[b]
        /\ owner' = owner /\ at[b] = "marking"
    BY <1>0, <1>7 DEF Marks, Goto
  <2> QED  BY <1>0, <2>1
<1>8. CASE Finishes(b)
  <2>1. /\ at'[b] \in {"finishing", "gone"} /\ conv'[b] = conv[b] /\ conv[b] # << >>
        /\ owner' = owner /\ at[b] = "exploring"
    BY <1>0, <1>8 DEF Finishes, Goto
  <2> QED  BY <1>0, <2>1
<1>9. CASE Summarises(b)
  <2>1. /\ at'[b] \in {"analysing", "gone"} /\ conv'[b] = conv[b]
        /\ owner' = owner /\ at[b] = "finishing"
    BY <1>0, <1>9 DEF Summarises, Goto
  <2> QED  BY <1>0, <2>1
<1>10. CASE Dies(b)
  <2>1. at'[b] = "gone" /\ at[b] # "none" /\ conv'[b] = conv[b] /\ owner' = owner
    BY <1>0, <1>10 DEF Dies, Goto
  <2> QED  BY <1>0, <2>1
<1>11. CASE Expires \/ UNCHANGED vars
  BY <1>1, <1>11 DEF Expires, vars
<1> QED
  BY <1>2, <1>3, <1>4, <1>5, <1>6, <1>7, <1>8, <1>9, <1>10, <1>11 DEF Next, AgentStep

-----------------------------------------------------------------------------
(* The store.                                                              *)

\* Nobody takes an attempt back.
LEMMA OwnerGrows ==
  ASSUME TypeOK, [Next]_vars
  PROVE  /\ owner \in Nat /\ owner' \in Nat /\ owner <= owner'
         /\ late \in Nat /\ late' \in Nat /\ late <= late'
<1>1. owner \in Nat /\ late \in Nat
  BY DEF TypeOK, Attempts
<1>2. owner' = owner \/ owner' = owner + 1
  BY DEF Next, AgentStep, Resumes, Expires, Loads, Explores, Saves, Marks, Finishes, Summarises,
         Dies, vars
<1>3. late' = late \/ late' = late + 1
  BY DEF Next, AgentStep, Resumes, Expires, Loads, Explores, Saves, Marks, Finishes, Summarises,
         Dies, vars, SaveStep, SaveSummary, Noted
<1> QED  BY <1>1, <1>2, <1>3

\* A step of a conversation stays where it is.
LEMMA ConvKeeps ==
  ASSUME StoreInv, [Next]_vars, NEW b \in Attempts, NEW k \in Steps, k <= Len(conv[b])
  PROVE  k <= Len(conv'[b]) /\ conv'[b][k] = conv[b][k]
<1>0. conv[b] \in Seq(Attempts) /\ Len(conv[b]) \in Nat /\ k \in 1..Len(conv[b])
  BY ConvSeq DEF StoreInv, Steps
<1>1. CASE conv'[b] = conv[b]
  BY <1>0, <1>1
<1>2. CASE at[b] = "loading"
  BY <1>0, <1>2 DEF StoreInv, Placed, PlacedAt
<1>3. CASE conv'[b] = Append(conv[b], b)
  BY <1>0, <1>3, AppendProperties
<1> QED  BY <1>1, <1>2, <1>3, ConvMoves DEF ConvMove, StoreInv

\* A row is written with the last step of the conversation it is of.
LEMMA RowsStep == ASSUME StoreInv, [Next]_vars PROVE RowsAreSteps'
<1> SUFFICES ASSUME NEW k \in Steps, row'[k] # Absent
             PROVE  /\ row'[k] <= owner' /\ k <= Len(conv'[row'[k]])
                    /\ conv'[row'[k]][k] = row'[k]
  BY DEF RowsAreSteps
<1>0. /\ row \in [Steps -> 0..MaxAttempt] /\ row[k] \in 0..MaxAttempt
      /\ owner \in Nat /\ owner' \in Nat /\ owner <= owner'
  BY OwnerGrows DEF StoreInv, TypeOK
<1>1. CASE row'[k] = row[k]
  <2>1. row[k] \in Attempts
    BY <1>0, <1>1 DEF Attempts, Absent
  <2>2. row[k] <= owner /\ k <= Len(conv[row[k]]) /\ conv[row[k]][k] = row[k]
    BY <1>1 DEF StoreInv, RowsAreSteps
  <2> QED  BY <1>0, <1>1, <2>1, <2>2, ConvKeeps
<1>2. CASE row'[k] # row[k]
  <2>1. PICK a \in Attempts : /\ at[a] = "gated" /\ SaveStep(a, Len(conv[a]))
                              /\ UNCHANGED <<owner, conv>>
    BY <1>0, <1>2, StoreMoves DEF StoreMove, store, SaveSummary, StoreInv
  <2>2. k = Len(conv[a]) /\ row'[k] = a
    BY <1>0, <1>2, <2>1 DEF SaveStep
  <2> QED  BY <2>1, <2>2 DEF StoreInv, Placed, PlacedAt, Steps
<1> QED  BY <1>1, <1>2

\* A summary is written by an agent that will not explore again.
LEMMA SummaryStep == ASSUME StoreInv, [Next]_vars PROVE SummaryIsFinal'
<1> SUFFICES ASSUME summary'.attempt # Absent
             PROVE  /\ summary'.total = Len(conv'[summary'.attempt])
                    /\ conv'[summary'.attempt] # << >>
                    /\ at'[summary'.attempt] \in {"analysing", "gone"}
  BY DEF SummaryIsFinal
<1>0. /\ at \in [Attempts -> Places] /\ conv \in [Attempts -> Seq(Attempts)]
      /\ summary.attempt \in 0..MaxAttempt
  BY DEF StoreInv, TypeOK
<1>1. CASE summary' = summary
  <2> DEFINE b == summary.attempt
  <2>1. b \in Attempts
    BY <1>0, <1>1 DEF Attempts, Absent
  <2>2. summary.total = Len(conv[b]) /\ conv[b] # << >> /\ at[b] \in {"analysing", "gone"}
    BY <1>1 DEF StoreInv, SummaryIsFinal
  <2>3. conv'[b] = conv[b]
    BY <2>1, <2>2, ConvMoves DEF ConvMove, StoreInv
  <2>4. at'[b] \in {"analysing", "gone"}
    <3>1. ASSUME NEW a \in Attempts, AgentStep(a) PROVE at'[b] \in {"analysing", "gone"}
      BY <1>0, <2>1, <2>2, <3>1
      DEF AgentStep, Loads, Explores, Saves, Marks, Finishes, Summarises, Dies, Goto
    <3>2. ASSUME Resumes PROVE at'[b] \in {"analysing", "gone"}
      <4>1. b # owner + 1
        BY <2>1, <2>2, OwnerGrows DEF StoreInv, Placed, PlacedAt
      <4> QED  BY <1>0, <2>1, <2>2, <3>2, <4>1 DEF Resumes, Goto
    <3>3. ASSUME UNCHANGED at PROVE at'[b] \in {"analysing", "gone"}
      BY <2>2, <3>3
    <3> QED  BY <3>1, <3>2, <3>3 DEF Next, Expires, vars
  <2> QED  BY <1>1, <2>2, <2>3, <2>4
<1>2. CASE summary' # summary
  <2>1. PICK a \in Attempts : /\ at[a] = "finishing" /\ SaveSummary(a) /\ UNCHANGED <<owner, conv>>
                              /\ at' = [at EXCEPT ![a] = "analysing"]
    BY <1>2, StoreMoves DEF StoreMove, store, SaveStep, StoreInv
  <2>2. summary'.attempt = a /\ summary'.total = Len(conv[a])
    BY <2>1 DEF SaveSummary
  <2> QED  BY <1>0, <2>1, <2>2 DEF StoreInv, Placed, PlacedAt
<1> QED  BY <1>1, <1>2

\* Only the owner's rows come, and they are no older than any conversation.
LEMMA OlderStep == ASSUME StoreInv, [Next]_vars, TypeOK' PROVE StartsWithOlder'
<1> SUFFICES ASSUME late' = 0, NEW b \in Attempts, NEW k \in Steps,
                    conv'[b] # << >>, Chain(k)', row'[k] < b
             PROVE  k <= Len(conv'[b]) /\ conv'[b][k] = row'[k]
  BY DEF StartsWithOlder
<1>0. /\ late = 0 /\ row \in [Steps -> 0..MaxAttempt] /\ row' \in [Steps -> 0..MaxAttempt]
      /\ b \in Nat /\ k \in Nat /\ k \in 1..k /\ 1..k \subseteq Steps
      /\ k \in 0..MaxStep
  <2>1. late = 0
    BY OwnerGrows DEF StoreInv
  <2>2. row \in [Steps -> 0..MaxAttempt] /\ row' \in [Steps -> 0..MaxAttempt]
    BY DEF StoreInv, TypeOK
  <2>3. b \in Nat /\ k \in Nat /\ k \in 1..k /\ 1..k \subseteq Steps /\ k \in 0..MaxStep
    BY DEF Attempts, Steps
  <2> QED  BY <2>1, <2>2, <2>3
<1>1. ASSUME conv[b] # << >>, Chain(k), row[k] < b
      PROVE  k <= Len(conv[b]) /\ conv[b][k] = row[k]
  BY <1>0, <1>1 DEF StoreInv, StartsWithOlder
<1>2. \A i \in 1..k : row'[i] # Absent /\ (i = 1 \/ row'[i - 1] <= row'[i])
  BY DEF Chain, InChain
<1>3. ASSUME \A i \in 1..k : row'[i] = row[i] PROVE Chain(k) /\ row'[k] = row[k]
  <2>1. \A i \in 1..k : i = 1 \/ row'[i - 1] = row[i - 1]
    BY <1>0, <1>3
  <2> QED  BY <1>0, <1>2, <1>3, <2>1 DEF Chain, InChain
<1>4. CASE UNCHANGED row
  <2>1. Chain(k) /\ row'[k] = row[k]
    BY <1>3, <1>4
  <2>2. CASE conv'[b] = conv[b]
    BY <1>1, <2>1, <2>2
  <2>3. CASE conv'[b] = Prefix
    <3>1. k <= PrefixLen
      BY <1>0, <2>1, PrefixIsChain
    <3>2. k \in 1..PrefixLen
      BY <1>0, <3>1, PrefixIsChain
    <3> QED  BY <2>1, <2>3, <3>1, <3>2, PrefixSeq DEF StoreInv
  <2>4. CASE at[b] = "exploring" /\ conv'[b] = Append(conv[b], b)
    <3>1. row[k] # 0 /\ row[k] \in Nat
      BY <1>0, <2>1 DEF Chain, Absent
    <3>2. conv[b] # << >>
      BY <1>0, <2>1, <2>4, <3>1 DEF StoreInv, Placed, PlacedAt
    <3> QED  BY <1>1, <2>1, <3>2, ConvKeeps
  <2> QED  BY <2>2, <2>3, <2>4, ConvMoves DEF ConvMove, StoreInv
<1>5. ASSUME NEW n \in Steps, row' = [row EXCEPT ![n] = Absent], UNCHANGED conv
      PROVE  k <= Len(conv'[b]) /\ conv'[b][k] = row'[k]
  <2>1. \A i \in 1..k : i # n
    BY <1>0, <1>2, <1>5
  <2>2. \A i \in 1..k : row'[i] = row[i]
    BY <1>0, <1>5, <2>1
  <2> QED  BY <1>1, <1>3, <1>5, <2>2
<1>6. ASSUME NEW a \in Attempts, at[a] = "gated", SaveStep(a, Len(conv[a])), UNCHANGED <<owner, conv>>
      PROVE  k <= Len(conv'[b]) /\ conv'[b][k] = row'[k]
  <2> DEFINE n == Len(conv[a])
  <2>1. a = owner
    BY <1>0, <1>6 DEF SaveStep, Noted
  <2>2. b <= a
    BY <1>6, <2>1 DEF StoreInv, Placed, PlacedAt
  <2>3. n \in Nat /\ row' = [row EXCEPT ![n] = a]
    BY <1>6, ConvSeq DEF StoreInv, SaveStep
  <2>4. CASE k < n
    <3>1. \A i \in 1..k : i # n
      BY <1>0, <2>3, <2>4
    <3>2. \A i \in 1..k : row'[i] = row[i]
      BY <1>0, <2>3, <3>1
    <3> QED  BY <1>1, <1>3, <1>6, <3>2
  <2>5. CASE ~(k < n)
    <3>1. n \in 1..k
      BY <1>0, <1>6, <2>3, <2>5, ConvSeq DEF StoreInv, Placed, PlacedAt
    <3>2. row'[n] = a
      BY <1>0, <2>3, <3>1
    <3>3. \A i \in 1..k : row'[i] \in Nat
      BY <1>0
    <3>4. row'[n] <= row'[k]
      <4>1. \A i \in 1..k : i = 1 \/ row'[i - 1] <= row'[i]
        BY <1>2
      <4>2. k \in 1..k /\ n <= k /\ k \in Nat
        BY <1>0, <3>1
      <4> HIDE DEF n
      <4> QED  BY <3>1, <3>3, <4>1, <4>2, Grows
    <3> QED  BY <1>0, <2>2, <3>2, <3>4 DEF Attempts
  <2> QED  BY <2>4, <2>5
<1> QED
  BY <1>4, <1>5, <1>6, StoreMoves DEF StoreMove, store, SaveSummary, StoreInv

\* The invariant is inductive.
LEMMA InvStep == ASSUME StoreInv, [Next]_vars PROVE StoreInv'
<1>1. TypeOK' /\ ConvFits'
  BY TypeStep DEF StoreInv
<1> QED  BY <1>1, PlacedStep, RowsStep, OlderStep, SummaryStep DEF StoreInv

\* It holds of every reachable state.
LEMMA InvHolds == Spec => []StoreInv
<1>1. Init => StoreInv
  BY InitInv
<1>2. StoreInv /\ [Next]_vars => StoreInv'
  BY InvStep
<1> QED  BY <1>1, <1>2, PTL DEF Spec

-----------------------------------------------------------------------------
(* What is replayed.                                                       *)

\* A conversation that has the last row of the prefix, or an older one and as
\* many steps, has all of it.
LEMMA PrefixOf ==
  ASSUME StoreInv, late = 0, NEW b \in Attempts, conv[b] # << >>,
         PrefixLen > 0, row[PrefixLen] <= b
  PROVE  PrefixLen <= Len(conv[b]) /\ Prefix = SubSeq(conv[b], 1, PrefixLen)
<1>0. /\ PrefixLen \in 1..MaxStep /\ Chain(PrefixLen) /\ PrefixLen \in Nat
      /\ 1..PrefixLen \subseteq Steps
  BY PrefixIsChain DEF Steps
<1>1. conv[b] \in Seq(Attempts) /\ Len(conv[b]) \in Nat /\ b \in Nat
  BY ConvSeq DEF StoreInv, Attempts
<1>2. ASSUME NEW k \in 1..PrefixLen PROVE k <= Len(conv[b]) /\ conv[b][k] = row[k]
  <2>1. row[k] <= row[PrefixLen] /\ row[k] \in Nat /\ row[PrefixLen] \in Nat
    <3>1. row[k] \in Attempts /\ row[PrefixLen] \in Attempts
      BY <1>0, PrefixSeq DEF StoreInv
    <3>2. k <= PrefixLen /\ PrefixLen \in 1..PrefixLen /\ PrefixLen \in 0..MaxStep
      BY <1>0
    <3> QED  BY <1>0, <3>1, <3>2, ChainGrows DEF StoreInv, Attempts
  <2>2. row[k] # Absent
    BY <1>0 DEF Chain
  <2>3. CASE row[k] = b
    BY <1>0, <2>2, <2>3 DEF StoreInv, RowsAreSteps
  <2>4. CASE row[k] < b
    <3>1. Chain(k)
      BY <1>0 DEF Chain
    <3> QED  BY <1>0, <2>4, <3>1 DEF StoreInv, StartsWithOlder
  <2> QED  BY <1>1, <2>1, <2>3, <2>4
<1>3. PrefixLen <= Len(conv[b])
  BY <1>0, <1>2
<1>4. /\ SubSeq(conv[b], 1, PrefixLen) \in Seq(Attempts)
      /\ Len(SubSeq(conv[b], 1, PrefixLen)) = PrefixLen
      /\ \A k \in 1..PrefixLen : SubSeq(conv[b], 1, PrefixLen)[k] = conv[b][k]
  <2>1. \A k \in 1..PrefixLen : conv[b][k] \in Attempts
    BY <1>0, <1>1, <1>3
  <2>2. PrefixLen \in Int /\ 1 \in Int /\ 1 <= PrefixLen
    BY <1>0
  <2>3. /\ SubSeq(conv[b], 1, PrefixLen) \in Seq(Attempts)
        /\ Len(SubSeq(conv[b], 1, PrefixLen)) = PrefixLen - 1 + 1
        /\ \A k \in 1..(PrefixLen - 1 + 1) : SubSeq(conv[b], 1, PrefixLen)[k] = conv[b][1 + k - 1]
    BY <2>1, <2>2, SubSeqProperties
  <2> QED  BY <1>0, <2>3
<1>5. Prefix \in Seq(Attempts) /\ Len(Prefix) = PrefixLen
      /\ \A k \in 1..PrefixLen : Prefix[k] = row[k]
  BY PrefixSeq DEF StoreInv
<1>6. \A k \in 1..Len(Prefix) : Prefix[k] = SubSeq(conv[b], 1, PrefixLen)[k]
  BY <1>2, <1>4, <1>5
<1>7. Prefix = SubSeq(conv[b], 1, PrefixLen)
  BY <1>4, <1>5, <1>6, SeqEqual
<1> QED  BY <1>3, <1>7

\* The prefix is the beginning of the conversation of its last row's attempt.
LEMMA ReplaysOne == ASSUME StoreInv PROVE ReplayIsOneExploration
<1> SUFFICES ASSUME late = 0 PROVE \E a \in Attempts : IsConversationOf(a, Prefix)
  BY DEF ReplayIsOneExploration
<1>1. Prefix \in Seq(Attempts) /\ Len(Prefix) = PrefixLen /\ PrefixLen \in Nat
  BY PrefixSeq, PrefixIsChain DEF StoreInv
<1>2. CASE PrefixLen = 0
  <2>1. 1 \in Attempts /\ Prefix = << >>
    BY <1>1, <1>2 DEF Attempts
  <2>2. SubSeq(conv[1], 1, 0) = << >>
    BY SubSeqEmpty
  <2>3. Len(conv[1]) \in Nat
    BY <2>1, ConvSeq DEF StoreInv
  <2> QED  BY <1>1, <1>2, <2>1, <2>2, <2>3 DEF IsConversationOf
<1>3. CASE PrefixLen > 0
  <2> DEFINE a == row[PrefixLen]
  <2>1. a \in Attempts /\ PrefixLen \in Steps /\ a # Absent
    BY <1>1, <1>3, PrefixSeq, PrefixIsChain DEF StoreInv, Steps, Attempts, Absent
  <2>2. conv[a] # << >> /\ a <= a
    <3>1. PrefixLen <= Len(conv[a])
      BY <2>1 DEF StoreInv, RowsAreSteps
    <3>2. Len(conv[a]) \in Nat /\ a \in Nat
      BY <2>1, ConvSeq DEF StoreInv, Attempts
    <3>3. Len(<< >>) = 0
      OBVIOUS
    <3> QED  BY <1>1, <1>3, <3>1, <3>2, <3>3
  <2>3. PrefixLen <= Len(conv[a]) /\ Prefix = SubSeq(conv[a], 1, PrefixLen)
    BY <1>3, <2>1, <2>2, PrefixOf
  <2> QED  BY <1>1, <2>1, <2>3 DEF IsConversationOf
<1> QED  BY <1>1, <1>2, <1>3

\* A trusted summary is of the whole prefix.
LEMMA SummaryFits == ASSUME StoreInv PROVE SummaryIsOfReplayedSteps
<1> SUFFICES ASSUME SummaryTrusted, late = 0
             PROVE  /\ summary.total = PrefixLen
                    /\ Prefix = SubSeq(conv[summary.attempt], 1, PrefixLen)
  BY DEF SummaryIsOfReplayedSteps
<1> DEFINE b == summary.attempt
<1>1. b \in Attempts /\ PrefixLen > 0 /\ PrefixLen \in Nat /\ summary.total <= PrefixLen
  BY PrefixIsChain DEF SummaryTrusted, StoreInv, TypeOK, Attempts, Absent
<1>2. row[PrefixLen] <= b
  BY <1>1 DEF SummaryTrusted, PrefixAttempt
<1>3. summary.total = Len(conv[b]) /\ conv[b] # << >>
  BY DEF SummaryTrusted, StoreInv, SummaryIsFinal
<1>4. PrefixLen <= Len(conv[b]) /\ Prefix = SubSeq(conv[b], 1, PrefixLen)
  BY <1>1, <1>2, <1>3, PrefixOf
<1>5. Len(conv[b]) \in Nat
  BY <1>1, ConvSeq DEF StoreInv
<1> QED  BY <1>1, <1>3, <1>4, <1>5

-----------------------------------------------------------------------------
(* As long as no write failed, and one slipped through.                    *)

\* An attempt says nothing a newer one did.
ConvIsOlder == \A b \in Attempts : \A k \in 1..Len(conv[b]) : conv[b][k] <= b

\* The rows are one chain.
NoGaps == \A k \in Steps : row[k] # Absent => Chain(k)

\* The owner's conversation is in the rows, but for the step it has yet to
\* save, and nothing comes after it but the row that slipped through.
OwnerFits ==
  LET n == Len(conv[owner]) IN
  /\ at[owner] \in {"exploring", "marking", "finishing", "analysing"} =>
       /\ \A k \in 1..n : row[k] = conv[owner][k]
       /\ \A k \in Steps : k > n + 1 \/ (k > n /\ late = 0) => row[k] = Absent
  /\ at[owner] = "gated" =>
       /\ \A k \in 1..(n - 1) : row[k] = conv[owner][k]
       /\ \A k \in Steps : k > n \/ (k = n /\ late = 0) => row[k] = Absent

\* Until one has slipped through: an agent about to save has everything before
\* that step in the rows, and finds a newer row there or none.
GatedFits ==
  late = 0 => \A a \in Attempts : at[a] = "gated" =>
    /\ \A k \in 1..(Len(conv[a]) - 1) : row[k] = conv[a][k]
    /\ row[Len(conv[a])] = Absent \/ row[Len(conv[a])] > a

\* All the rows are of one conversation.
StoreIsOne ==
  \E a \in Attempts : \A k \in Steps :
    row[k] # Absent => k <= Len(conv[a]) /\ conv[a][k] = row[k]

QuietInv == faults = 0 /\ late <= 1 => NoGaps /\ OwnerFits /\ GatedFits /\ StoreIsOne

\* A conversation grows by its own attempt's steps, from a prefix of older ones.
LEMMA OlderConvStep == ASSUME StoreInv, ConvIsOlder, [Next]_vars PROVE ConvIsOlder'
<1> SUFFICES ASSUME NEW b \in Attempts, NEW k \in 1..Len(conv'[b]) PROVE conv'[b][k] <= b
  BY DEF ConvIsOlder
<1>0. conv[b] \in Seq(Attempts) /\ Len(conv[b]) \in Nat /\ b \in Nat
  BY ConvSeq DEF StoreInv, Attempts
<1>1. CASE conv'[b] = conv[b]
  BY <1>1 DEF ConvIsOlder
<1>2. CASE conv'[b] = Prefix /\ owner = b
  <2>1. k \in 1..PrefixLen /\ Prefix[k] = row[k] /\ row[k] \in Attempts
    BY <1>2, PrefixSeq DEF StoreInv
  <2>2. k \in Steps /\ row[k] # Absent
    BY <2>1, PrefixIsChain DEF Steps, Attempts, Absent
  <2> QED  BY <1>2, <2>1, <2>2 DEF StoreInv, RowsAreSteps
<1>3. CASE conv'[b] = Append(conv[b], b)
  <2>1. /\ Len(conv'[b]) = Len(conv[b]) + 1
        /\ \A i \in 1..Len(conv[b]) : conv'[b][i] = conv[b][i]
        /\ conv'[b][Len(conv[b]) + 1] = b
    BY <1>0, <1>3, AppendProperties
  <2>2. CASE k = Len(conv[b]) + 1
    BY <1>0, <2>1, <2>2
  <2>3. CASE k # Len(conv[b]) + 1
    <3>1. k \in 1..Len(conv[b])
      BY <1>0, <2>1, <2>3
    <3> QED  BY <2>1, <3>1 DEF ConvIsOlder
  <2> QED  BY <2>2, <2>3
<1> QED  BY <1>1, <1>2, <1>3, ConvMoves DEF ConvMove, StoreInv

\* Without gaps the prefix is all there is.
LEMMA PrefixIsAll ==
  ASSUME TypeOK, NoGaps, NEW k \in Steps
  PROVE  row[k] # Absent <=> k <= PrefixLen
<1>1. k \in Nat /\ k \in 1..k /\ k \in 0..MaxStep /\ PrefixLen \in Nat /\ k >= 1
  BY PrefixIsChain DEF Steps
<1>2. row[k] # Absent => k <= PrefixLen
  BY <1>1, PrefixIsChain DEF NoGaps
<1>3. k <= PrefixLen => row[k] # Absent
  <2>1. k <= PrefixLen => k \in 1..PrefixLen
    BY <1>1
  <2> QED  BY <2>1, PrefixIsChain DEF Chain
<1> QED  BY <1>2, <1>3

\* A step that writes no row leaves the chain, and its conversation, as it is.
LEMMA SameRows ==
  ASSUME StoreInv, [Next]_vars, UNCHANGED row, NoGaps, StoreIsOne
  PROVE  NoGaps' /\ StoreIsOne'
<1>1. NoGaps'
  BY DEF NoGaps, Chain, InChain
<1>2. StoreIsOne'
  <2>1. PICK a \in Attempts : \A k \in Steps :
          row[k] # Absent => k <= Len(conv[a]) /\ conv[a][k] = row[k]
    BY DEF StoreIsOne
  <2>2. \A k \in Steps : row'[k] # Absent => k <= Len(conv'[a]) /\ conv'[a][k] = row'[k]
    BY <2>1, ConvKeeps
  <2> QED  BY <2>2 DEF StoreIsOne
<1> QED  BY <1>1, <1>2

\* The owner's conversation goes on with the rows it has.
LEMMA OwnerKeepsFit ==
  ASSUME StoreInv, [Next]_vars, UNCHANGED row, NoGaps, OwnerFits, late' \in Nat,
         late \in Nat, late <= late', \A a \in Attempts : Saves(a) => at'[a] = "gone"
  PROVE  OwnerFits'
<1> DEFINE o == owner
<1>0. /\ at \in [Attempts -> Places] /\ conv \in [Attempts -> Seq(Attempts)] /\ o \in Attempts
      /\ Len(conv[o]) \in Nat /\ conv[o] \in Seq(Attempts)
  BY ConvSeq DEF StoreInv, TypeOK
<1>1. ASSUME Resumes PROVE OwnerFits'
  <2>1. at'[owner'] = "loading"
    BY <1>0, <1>1 DEF Resumes, Goto, Attempts
  <2> QED  BY <2>1 DEF OwnerFits
<1>2. ASSUME owner' = o, at'[o] = at[o], conv'[o] = conv[o] PROVE OwnerFits'
  BY <1>2 DEF OwnerFits
<1>3. ASSUME owner' = o, at'[o] = "gone" PROVE OwnerFits'
  BY <1>3 DEF OwnerFits
<1>4. ASSUME NEW a \in Attempts, AgentStep(a), a # o PROVE OwnerFits'
  <2>1. owner' = o /\ at'[o] = at[o] /\ conv'[o] = conv[o]
    BY <1>0, <1>4 DEF AgentStep, Loads, Explores, Saves, Marks, Finishes, Summarises, Dies, Goto
  <2> QED  BY <1>2, <2>1
<1>5. CASE Loads(o)
  <2>1. CASE at'[o] = "gone"
    BY <1>3, <1>5, <2>1 DEF Loads
  <2>2. CASE at'[o] # "gone"
    <3>1. conv'[o] = Prefix /\ owner' = o /\ at'[o] \in {"analysing", "exploring"}
      BY <1>0, <1>5, <2>2 DEF Loads, Goto
    <3>2. /\ Len(Prefix) = PrefixLen /\ PrefixLen \in Nat
          /\ \A k \in 1..PrefixLen : row[k] = Prefix[k]
          /\ \A k \in Steps : k > PrefixLen => row[k] = Absent
      BY PrefixSeq, PrefixIsChain, PrefixIsAll DEF StoreInv, Steps
    <3>3. \A k \in Steps : k > PrefixLen + 1 => k > PrefixLen
      BY <3>2 DEF Steps
    <3> QED  BY <3>1, <3>2, <3>3 DEF OwnerFits
  <2> QED  BY <2>1, <2>2
<1>6. CASE Explores(o)
  <2> DEFINE n == Len(conv[o])
  <2>1. /\ at'[o] = "gated" /\ at[o] = "exploring" /\ owner' = o /\ conv'[o] = Append(conv[o], o)
    BY <1>0, <1>6 DEF Explores, Goto
  <2>2. /\ Len(conv'[o]) = n + 1 /\ \A k \in 1..n : conv'[o][k] = conv[o][k]
    BY <1>0, <2>1, AppendProperties
  <2>3. /\ \A k \in 1..n : row[k] = conv[o][k]
        /\ \A k \in Steps : k > n + 1 \/ (k > n /\ late = 0) => row[k] = Absent
    BY <2>1 DEF OwnerFits
  <2>4. \A k \in 1..((n + 1) - 1) : k \in 1..n
    BY <1>0
  <2>5. \A k \in Steps : k > n + 1 \/ (k = n + 1 /\ late' = 0) => row'[k] = Absent
    <3> HIDE DEF o
    <3> QED  BY <1>0, <2>3 DEF Steps
  <2> QED  BY <2>1, <2>2, <2>3, <2>4, <2>5 DEF OwnerFits
<1>7. CASE Saves(o)
  BY <1>0, <1>3, <1>7 DEF Saves
<1>8. CASE Marks(o) \/ Finishes(o) \/ Summarises(o) \/ Dies(o)
  <2>1. /\ owner' = o /\ conv'[o] = conv[o]
        /\ \/ at'[o] = "gone"
           \/ /\ at[o] \in {"exploring", "marking", "finishing", "analysing"}
              /\ at'[o] \in {"exploring", "marking", "finishing", "analysing"}
    BY <1>0, <1>8 DEF Marks, Finishes, Summarises, Dies, Goto
  <2> QED  BY <1>3, <2>1 DEF OwnerFits
<1>9. CASE Expires \/ UNCHANGED vars
  BY <1>2, <1>9 DEF Expires, vars
<1> QED
  BY <1>1, <1>4, <1>5, <1>6, <1>7, <1>8, <1>9 DEF Next, AgentStep

\* An agent about to save has found what GatedFits says since it was the owner.
LEMMA GatedKeepsFit ==
  ASSUME StoreInv, [Next]_vars, UNCHANGED row, OwnerFits, GatedFits, late \in Nat,
         late' \in Nat, late <= late', \A a \in Attempts : Saves(a) => at'[a] = "gone"
  PROVE  GatedFits'
<1> SUFFICES ASSUME late' = 0, NEW b \in Attempts, at'[b] = "gated"
             PROVE  /\ \A k \in 1..(Len(conv'[b]) - 1) : row[k] = conv'[b][k]
                    /\ row[Len(conv'[b])] = Absent \/ row[Len(conv'[b])] > b
  BY DEF GatedFits
<1>0. /\ at \in [Attempts -> Places] /\ conv \in [Attempts -> Seq(Attempts)] /\ owner \in Attempts
      /\ Len(conv[b]) \in Nat /\ conv[b] \in Seq(Attempts) /\ late = 0
  BY ConvSeq DEF StoreInv, TypeOK
<1>1. ASSUME at[b] = "gated", conv'[b] = conv[b]
      PROVE  /\ \A k \in 1..(Len(conv'[b]) - 1) : row[k] = conv'[b][k]
             /\ row[Len(conv'[b])] = Absent \/ row[Len(conv'[b])] > b
  BY <1>0, <1>1 DEF GatedFits
<1>2. CASE Explores(b)
  <2> DEFINE n == Len(conv[b])
  <2>1. at[b] = "exploring" /\ owner = b /\ conv'[b] = Append(conv[b], b) /\ n < MaxStep
    BY <1>0, <1>2 DEF Explores, Goto
  <2>2. /\ Len(conv'[b]) = n + 1 /\ \A k \in 1..n : conv'[b][k] = conv[b][k]
    BY <1>0, <2>1, AppendProperties
  <2>3. /\ \A k \in 1..n : row[k] = conv[b][k]
        /\ \A k \in Steps : k > n => row[k] = Absent
    BY <1>0, <2>1 DEF OwnerFits
  <2>4. n + 1 \in Steps /\ n + 1 > n /\ (n + 1) - 1 = n
    BY <1>0, <2>1 DEF Steps
  <2>5. row[n + 1] = Absent
    BY <2>3, <2>4
  <2> QED  BY <2>2, <2>3, <2>4, <2>5
<1>3. ASSUME ~Explores(b) PROVE at[b] = "gated" /\ conv'[b] = conv[b]
  <2>1. CASE Resumes
    BY <1>0, <2>1 DEF Resumes, Goto
  <2>2. ASSUME NEW a \in Attempts, AgentStep(a), a # b PROVE at'[b] = at[b] /\ conv'[b] = conv[b]
    BY <1>0, <2>2 DEF AgentStep, Loads, Explores, Saves, Marks, Finishes, Summarises, Dies, Goto
  <2>3. ~AgentStep(b)
    <3>1. Loads(b) \/ Marks(b) \/ Finishes(b) \/ Summarises(b) \/ Dies(b) => at'[b] # "gated"
      BY <1>0 DEF Loads, Marks, Finishes, Summarises, Dies, Goto
    <3> QED  BY <1>3, <3>1 DEF AgentStep
  <2>4. CASE Expires \/ UNCHANGED vars
    BY <2>4 DEF Expires, vars
  <2> QED  BY <2>1, <2>2, <2>3, <2>4 DEF Next
<1> QED  BY <1>1, <1>2, <1>3

\* A row saved after the rows of its conversation, with nothing behind it, goes
\* on with the chain, and is of one conversation with it.
LEMMA SavedAtTheEnd ==
  ASSUME StoreInv, ConvIsOlder, NoGaps, NEW a \in Attempts, at[a] = "gated",
         SaveStep(a, Len(conv[a])), UNCHANGED conv,
         \A k \in 1..(Len(conv[a]) - 1) : row[k] = conv[a][k],
         \A k \in Steps : k > Len(conv[a]) => row[k] = Absent
  PROVE  NoGaps' /\ StoreIsOne'
<1> DEFINE n == Len(conv[a])
<1>0. /\ row \in [Steps -> 0..MaxAttempt] /\ n \in Nat /\ n \in Steps /\ n >= 1
      /\ a \in Nat /\ a # Absent /\ conv[a][n] = a
      /\ row' = [row EXCEPT ![n] = a]
      /\ \A k \in 1..n : conv[a][k] \in Attempts /\ conv[a][k] <= a
  <2>1. n \in Nat /\ conv[a] \in Seq(Attempts) /\ n <= MaxStep /\ n > 0
    BY ConvSeq DEF StoreInv, Placed, PlacedAt, ConvFits
  <2>2. conv[a][n] = a
    BY DEF StoreInv, Placed, PlacedAt
  <2>3. \A k \in 1..n : conv[a][k] \in Attempts /\ conv[a][k] <= a
    BY <2>1 DEF ConvIsOlder
  <2>4. n \in Steps /\ n >= 1 /\ a \in Nat /\ a # Absent
    BY <2>1 DEF Steps, Attempts, Absent
  <2> QED  BY <2>1, <2>2, <2>3, <2>4 DEF StoreInv, TypeOK, SaveStep
<1>1. ASSUME NEW k \in Steps, row'[k] # Absent
      PROVE  k <= n /\ conv[a][k] = row'[k]
  <2>1. k \in Nat /\ k >= 1
    BY DEF Steps
  <2>2. CASE k = n
    BY <1>0, <2>2
  <2>3. CASE k # n
    <3>1. row'[k] = row[k]
      BY <1>0, <2>3
    <3>2. ~(k > n)
      BY <1>1, <3>1
    <3>3. k \in 1..(n - 1)
      BY <1>0, <2>1, <2>3, <3>2
    <3> QED  BY <1>0, <2>1, <3>1, <3>2, <3>3
  <2> QED  BY <2>2, <2>3
<1>2. StoreIsOne'
  BY <1>1 DEF StoreIsOne
<1>3. ASSUME NEW i \in 1..n PROVE row'[i] # Absent /\ (i = 1 \/ row'[i - 1] <= row'[i])
  <2>1. ASSUME NEW j \in 1..(n - 1) PROVE row'[j] = row[j] /\ row[j] # Absent /\ row[j] <= a
    <3>1. j # n /\ j \in Steps /\ j \in 1..n
      BY <1>0 DEF Steps
    <3> QED  BY <1>0, <3>1 DEF Attempts, Absent
  <2>2. CASE i = n
    <3>1. i = 1 \/ i - 1 \in 1..(n - 1)
      <4>1. n \in Nat /\ n >= 1
        BY <1>0
      <4> HIDE DEF n
      <4> QED  BY <2>2, <4>1
    <3>2. row'[n] = a
      BY <1>0
    <3> QED  BY <1>0, <2>1, <2>2, <3>1, <3>2
  <2>3. CASE i # n
    <3>1. i \in 1..(n - 1) /\ i \in Steps /\ (i = 1 \/ i - 1 \in 1..(n - 1)) /\ i \in 1..i
      BY <1>0, <2>3 DEF Steps
    <3>2. Chain(i)
      BY <2>1, <3>1 DEF NoGaps
    <3>3. i = 1 \/ row[i - 1] <= row[i]
      BY <3>1, <3>2 DEF Chain, InChain
    <3> QED  BY <2>1, <3>1, <3>3
  <2> QED  BY <2>2, <2>3
<1>4. NoGaps'
  <2> SUFFICES ASSUME NEW k \in Steps, row'[k] # Absent PROVE Chain(k)'
    BY DEF NoGaps
  <2>1. k <= n /\ k \in Nat
    BY <1>1 DEF Steps
  <2>2. \A i \in 1..k : i \in 1..n
    BY <1>0, <2>1
  <2> QED  BY <1>3, <2>2 DEF Chain, InChain
<1> QED  BY <1>2, <1>4

\* The owner saves its step behind the rows it has.
LEMMA OwnerSaves ==
  ASSUME StoreInv, ConvIsOlder, NoGaps, OwnerFits, GatedFits, late \in Nat, at[owner] = "gated",
         SaveStep(owner, Len(conv[owner])), UNCHANGED <<owner, conv>>,
         at' = [at EXCEPT ![owner] = "marking"]
  PROVE  NoGaps' /\ StoreIsOne' /\ OwnerFits' /\ GatedFits'
<1> DEFINE n == Len(conv[owner])
<1>0. /\ row \in [Steps -> 0..MaxAttempt] /\ n \in Nat /\ n \in Steps /\ n >= 1
      /\ at \in [Attempts -> Places] /\ owner \in Attempts /\ owner \in Nat
      /\ row' = [row EXCEPT ![n] = owner] /\ late' = late
      /\ conv[owner][n] = owner
  <2>1. n \in Nat /\ n <= MaxStep /\ n > 0 /\ owner \in Attempts
    BY ConvSeq DEF StoreInv, TypeOK, Placed, PlacedAt, ConvFits
  <2>2. conv[owner][n] = owner
    BY <2>1 DEF StoreInv, Placed, PlacedAt
  <2> QED  BY <2>1, <2>2 DEF StoreInv, TypeOK, SaveStep, Noted, Steps, Attempts
<1>1. /\ \A k \in 1..(n - 1) : row[k] = conv[owner][k]
      /\ \A k \in Steps : k > n \/ (k = n /\ late = 0) => row[k] = Absent
  BY DEF OwnerFits
<1>2. NoGaps' /\ StoreIsOne'
  BY <1>0, <1>1, SavedAtTheEnd
<1>3. OwnerFits'
  <2>1. \A k \in 1..n : row'[k] = conv[owner][k]
    <3> SUFFICES ASSUME NEW k \in 1..n PROVE row'[k] = conv[owner][k]
      OBVIOUS
    <3>1. CASE k = n
      BY <1>0, <3>1
    <3>2. CASE k # n
      BY <1>0, <1>1, <3>2 DEF Steps
    <3> QED  BY <3>1, <3>2
  <2>2. \A k \in Steps : k > n \/ k > n + 1 => row'[k] = Absent
    <3>1. \A k \in Steps : k > n \/ k > n + 1 => k > n /\ k # n
      BY <1>0 DEF Steps
    <3> QED  BY <1>0, <1>1, <3>1
  <2>3. at'[owner] = "marking"
    BY <1>0
  <2> QED  BY <1>0, <2>1, <2>2, <2>3 DEF OwnerFits
<1>4. GatedFits'
  <2> SUFFICES ASSUME late = 0, NEW b \in Attempts, at'[b] = "gated"
               PROVE  /\ \A k \in 1..(Len(conv[b]) - 1) : row'[k] = conv[b][k]
                      /\ row'[Len(conv[b])] = Absent \/ row'[Len(conv[b])] > b
    BY <1>0 DEF GatedFits
  <2> DEFINE m == Len(conv[b])
  <2>1. at[b] = "gated" /\ b # owner /\ b < owner /\ m \in Nat /\ m \in Steps
        /\ conv[b] \in Seq(Attempts)
    <3>1. b # owner /\ at[b] = "gated"
      BY <1>0
    <3>2. b <= owner /\ conv[b] # << >> /\ m <= MaxStep
      BY <3>1 DEF StoreInv, Placed, PlacedAt, ConvFits
    <3> QED  BY <1>0, <3>1, <3>2, ConvSeq DEF StoreInv, Attempts, Steps
  <2>2. /\ \A k \in 1..(m - 1) : row[k] = conv[b][k]
        /\ row[m] = Absent \/ row[m] > b
    BY <2>1 DEF GatedFits
  <2>3. row[n] = Absent
    BY <1>0, <1>1
  <2>4. \A k \in 1..(m - 1) : k # n
    <3> SUFFICES ASSUME n \in 1..(m - 1) PROVE FALSE
      OBVIOUS
    <3>1. conv[b][n] \in Attempts
      BY <2>1
    <3>2. row[n] = conv[b][n]
      BY <2>2
    <3> QED  BY <2>3, <3>1, <3>2 DEF Attempts, Absent
  <2>5. \A k \in 1..(m - 1) : row'[k] = row[k]
    BY <1>0, <2>1, <2>4 DEF Steps
  <2>6. row'[m] = Absent \/ row'[m] > b
    BY <1>0, <2>1, <2>2
  <2> QED  BY <2>2, <2>5, <2>6
<1> QED  BY <1>2, <1>3, <1>4

\* The row that slips through lands right behind what the owner found.
LEMMA LateSave ==
  ASSUME StoreInv, ConvIsOlder, NoGaps, OwnerFits, GatedFits, late = 0, late' # 0,
         NEW a \in Attempts, a # owner, at[a] = "gated", RowFence(a, Len(conv[a])),
         SaveStep(a, Len(conv[a])), UNCHANGED <<owner, conv>>,
         at' = [at EXCEPT ![a] = "marking"]
  PROVE  NoGaps' /\ StoreIsOne' /\ OwnerFits' /\ GatedFits'
<1> DEFINE n == Len(conv[a])
           m == Len(conv[owner])
<1>0. /\ row \in [Steps -> 0..MaxAttempt] /\ n \in Nat /\ n \in Steps /\ n >= 1
      /\ at \in [Attempts -> Places] /\ owner \in Attempts /\ a \in Nat
      /\ row' = [row EXCEPT ![n] = a] /\ m \in Nat /\ conv[owner] \in Seq(Attempts)
      /\ conv[a] \in Seq(Attempts)
  <2>1. n \in Nat /\ n <= MaxStep /\ n > 0 /\ m \in Nat
    BY ConvSeq DEF StoreInv, TypeOK, Placed, PlacedAt, ConvFits
  <2>2. conv[owner] \in Seq(Attempts) /\ conv[a] \in Seq(Attempts)
    BY DEF StoreInv, TypeOK
  <2> QED  BY <2>1, <2>2 DEF StoreInv, TypeOK, SaveStep, Steps, Attempts
<1>1. /\ \A k \in 1..(n - 1) : row[k] = conv[a][k]
      /\ row[n] = Absent
  <2>1. /\ \A k \in 1..(n - 1) : row[k] = conv[a][k]
        /\ row[n] = Absent \/ row[n] > a
    BY DEF GatedFits
  <2> QED  BY <1>0, <2>1 DEF RowFence
<1>2. ASSUME NEW k \in Steps, k > n PROVE row[k] = Absent
  <2>1. n \in 1..k
    BY <1>0, <1>2 DEF Steps
  <2> QED  BY <1>1, <1>2, <2>1 DEF NoGaps, Chain
<1>3. NoGaps' /\ StoreIsOne'
  BY <1>0, <1>1, <1>2, SavedAtTheEnd
<1>4. GatedFits'
  BY DEF GatedFits
<1>5. ASSUME NEW j \in Nat, j <= m, \A k \in 1..j : row[k] = conv[owner][k],
             \A k \in Steps : k > j => row[k] = Absent
      PROVE  n = j + 1
  <2>1. ~(n <= j)
    <3> SUFFICES ASSUME n \in 1..j PROVE FALSE
      BY <1>0
    <3>1. conv[owner][n] \in Attempts
      BY <1>0, <1>5
    <3> QED  BY <1>1, <1>5, <3>1 DEF Attempts, Absent
  <2>2. ~(n - 1 > j)
    <3> SUFFICES ASSUME n - 1 > j PROVE FALSE
      OBVIOUS
    <3>1. n - 1 \in Steps /\ n - 1 \in 1..(n - 1) /\ n - 1 \in 1..n
      BY <1>0, <1>5 DEF Steps
    <3>2. conv[a][n - 1] \in Attempts
      BY <1>0, <3>1
    <3> QED  BY <1>1, <1>5, <3>1, <3>2 DEF Attempts, Absent
  <2> QED  BY <1>0, <1>5, <2>1, <2>2
<1>6. \A k : k # n => row'[k] = row[k]
  BY <1>0
<1>7. CASE at[owner] \in {"exploring", "marking", "finishing", "analysing"}
  <2>1. /\ \A k \in 1..m : row[k] = conv[owner][k]
        /\ \A k \in Steps : k > m => row[k] = Absent
    BY <1>7 DEF OwnerFits
  <2>2. n = m + 1
    <3>1. m \in Nat /\ m <= m
      BY <1>0
    <3> QED  BY <1>5, <2>1, <3>1
  <2>3. \A k \in 1..m : row'[k] = conv[owner][k]
    <3>1. \A k \in 1..m : k # m + 1
      BY <1>0
    <3> QED  BY <1>6, <2>1, <2>2, <3>1
  <2>4. \A k \in Steps : k > m + 1 => row'[k] = Absent
    <3>1. \A k \in Steps : k > m + 1 => k > m /\ k # m + 1
      BY <1>0 DEF Steps
    <3> QED  BY <1>6, <2>1, <2>2, <3>1
  <2>5. at'[owner] = at[owner]
    BY <1>0
  <2> QED  BY <1>3, <1>4, <1>7, <2>3, <2>4, <2>5 DEF OwnerFits
<1>8. CASE at[owner] = "gated"
  <2>0. m > 0
    BY <1>0, <1>8, ConvSeq DEF StoreInv, Placed, PlacedAt
  <2>1. /\ \A k \in 1..(m - 1) : row[k] = conv[owner][k]
        /\ \A k \in Steps : k > m \/ k = m => row[k] = Absent
    BY <1>8 DEF OwnerFits
  <2>2. n = m
    <3>1. m - 1 \in Nat /\ m - 1 <= m
      BY <1>0, <2>0
    <3>2. \A k \in Steps : k > m - 1 => row[k] = Absent
      BY <1>0, <2>1 DEF Steps
    <3>3. n = (m - 1) + 1
      BY <1>5, <2>1, <3>1, <3>2
    <3> QED  BY <1>0, <3>3
  <2>3. \A k \in 1..(m - 1) : row'[k] = conv[owner][k]
    <3>1. \A k \in 1..(m - 1) : k # m
      BY <1>0
    <3> QED  BY <1>6, <2>1, <2>2, <3>1
  <2>4. \A k \in Steps : k > m => row'[k] = Absent
    <3>1. \A k \in Steps : k > m => k # m
      BY <1>0 DEF Steps
    <3> QED  BY <1>6, <2>1, <2>2, <3>1
  <2>5. at'[owner] = "gated"
    BY <1>0, <1>8
  <2> QED  BY <1>3, <1>4, <2>3, <2>4, <2>5 DEF OwnerFits
<1>9. CASE at[owner] \notin {"exploring", "marking", "finishing", "analysing", "gated"}
  <2>1. at'[owner] = at[owner]
    BY <1>0
  <2> QED  BY <1>3, <1>4, <1>9, <2>1 DEF OwnerFits
<1> QED  BY <1>7, <1>8, <1>9

\* QuietInv is inductive, with ConvIsOlder and what StoreInv says.
LEMMA QuietStep == ASSUME StoreInv, ConvIsOlder, QuietInv, [Next]_vars PROVE QuietInv'
<1>1. late \in Nat /\ late' \in Nat /\ late <= late'
  BY OwnerGrows DEF StoreInv
<1> SUFFICES ASSUME faults' = 0, late' <= 1
             PROVE  NoGaps' /\ OwnerFits' /\ GatedFits' /\ StoreIsOne'
  BY DEF QuietInv
<1>2. /\ faults = 0 /\ ~Fault /\ late \in Nat /\ late' \in Nat /\ late <= late' /\ late <= 1
  <2>1. faults \in Nat
    BY DEF StoreInv, TypeOK
  <2>2. ~Fault
    BY <2>1 DEF Fault
  <2>3. faults' = faults
    BY <2>2 DEF Next, AgentStep, Resumes, Expires, Loads, Explores, Saves, Marks, Finishes,
                Summarises, Dies, vars, NoFault
  <2>4. late <= 1
    BY <1>1
  <2> QED  BY <1>1, <2>2, <2>3, <2>4
<1>3. NoGaps /\ OwnerFits /\ GatedFits /\ StoreIsOne
  BY <1>2 DEF QuietInv
<1>4. ASSUME NEW a \in Attempts, at[a] = "gated", RowFence(a, Len(conv[a])),
             SaveStep(a, Len(conv[a])), Goto(a, "marking"), UNCHANGED <<owner, conv>>
      PROVE  NoGaps' /\ OwnerFits' /\ GatedFits' /\ StoreIsOne'
  <2>1. CASE a = owner
    BY <1>2, <1>3, <1>4, <2>1, OwnerSaves DEF Goto
  <2>2. CASE a # owner
    <3>1. late' = late + 1
      BY <1>4, <2>2 DEF SaveStep, Noted
    <3>2. late = 0 /\ late' # 0
      BY <1>2, <3>1
    <3> QED  BY <1>3, <1>4, <2>2, <3>2, LateSave DEF Goto
  <2> QED  BY <2>1, <2>2
<1>5. ASSUME UNCHANGED row, \A a \in Attempts : Saves(a) => at'[a] = "gone"
      PROVE  NoGaps' /\ OwnerFits' /\ GatedFits' /\ StoreIsOne'
  BY <1>2, <1>3, <1>5, SameRows, OwnerKeepsFit, GatedKeepsFit
<1>6. ASSUME NEW a \in Attempts, Saves(a)
      PROVE  NoGaps' /\ OwnerFits' /\ GatedFits' /\ StoreIsOne'
  <2>1. CASE RowFence(a, Len(conv[a])) /\ SaveStep(a, Len(conv[a])) /\ Goto(a, "marking")
    BY <1>4, <1>6, <2>1 DEF Saves
  <2>2. CASE ~(RowFence(a, Len(conv[a])) /\ SaveStep(a, Len(conv[a])) /\ Goto(a, "marking"))
    <3>1. UNCHANGED row /\ Goto(a, "gone") /\ at[a] = "gated"
      BY <1>2, <1>6, <2>2 DEF Saves, store
    <3>2. at'[a] = "gone" /\ \A b \in Attempts : b # a => at'[b] = at[b]
      BY <3>1 DEF Goto, StoreInv, TypeOK
    <3>3. \A b \in Attempts : Saves(b) => at'[b] = "gone"
      <4> SUFFICES ASSUME NEW b \in Attempts, Saves(b), b # a PROVE FALSE
        BY <3>2
      <4>1. at'[b] = "gated"
        BY <3>2 DEF Saves
      <4>2. at'[b] \in {"marking", "gone"}
        BY <1>2 DEF Saves, Goto, StoreInv, TypeOK
      <4> QED  BY <4>1, <4>2
    <3> QED  BY <1>5, <3>1, <3>3
  <2> QED  BY <2>1, <2>2
<1>7. ASSUME \A a \in Attempts : ~Saves(a)
      PROVE  NoGaps' /\ OwnerFits' /\ GatedFits' /\ StoreIsOne'
  <2>1. UNCHANGED row
    BY <1>2, <1>7 DEF Next, AgentStep, Resumes, Expires, Loads, Explores, Marks, Finishes,
                      Summarises, SaveSummary, Dies, vars, store
  <2> QED  BY <1>5, <1>7, <2>1
<1> QED  BY <1>6, <1>7

\* Nothing is said or stored yet.
LEMMA QuietStart == ASSUME Init PROVE ConvIsOlder /\ QuietInv
<1>1. /\ owner = 1 /\ at[1] = "exploring" /\ 1 \in Attempts
      /\ \A a \in Attempts : conv[a] = << >> /\ at[a] # "gated"
      /\ \A k \in Steps : row[k] = Absent
  BY DEF Init, Attempts
<1>2. ConvIsOlder
  BY <1>1 DEF ConvIsOlder
<1>3. NoGaps /\ GatedFits /\ StoreIsOne
  BY <1>1 DEF NoGaps, GatedFits, StoreIsOne
<1>4. OwnerFits
  BY <1>1 DEF OwnerFits
<1> QED  BY <1>2, <1>3, <1>4 DEF QuietInv

\* They hold of every reachable state.
LEMMA QuietHolds == Spec => [](ConvIsOlder /\ QuietInv)
<1>1. Init => ConvIsOlder /\ QuietInv
  BY QuietStart
<1>2. StoreInv /\ ConvIsOlder /\ QuietInv /\ [Next]_vars => (ConvIsOlder /\ QuietInv)'
  BY OlderConvStep, QuietStep
<1> QED  BY <1>1, <1>2, InvHolds, PTL DEF Spec

\* What begins like the prefix is what the prefix begins with.
LEMMA PrefixStarts ==
  ASSUME TypeOK, NEW b \in Attempts, NEW p \in Nat, p <= PrefixLen, p <= Len(conv[b]),
         \A k \in 1..p : row[k] = conv[b][k]
  PROVE  SubSeq(Prefix, 1, p) = SubSeq(conv[b], 1, p)
<1>1. /\ Prefix \in Seq(Attempts) /\ Len(Prefix) = PrefixLen /\ PrefixLen \in Nat
      /\ conv[b] \in Seq(Attempts) /\ Len(conv[b]) \in Nat
      /\ \A k \in 1..p : Prefix[k] = conv[b][k]
  BY PrefixSeq, PrefixIsChain, ConvSeq
<1>2. CASE p = 0
  <2>1. SubSeq(Prefix, 1, 0) = << >> /\ SubSeq(conv[b], 1, 0) = << >>
    BY SubSeqEmpty
  <2> QED  BY <1>2, <2>1
<1>3. CASE p > 0
  <2>1. ASSUME NEW s \in Seq(Attempts), p <= Len(s)
        PROVE  /\ SubSeq(s, 1, p) \in Seq(Attempts) /\ Len(SubSeq(s, 1, p)) = p
               /\ \A k \in 1..p : SubSeq(s, 1, p)[k] = s[k]
    <3>1. Len(s) \in Nat /\ \A k \in 1..p : s[k] \in Attempts
      BY <2>1
    <3>2. p \in Int /\ 1 \in Int /\ 1 <= p
      BY <1>3
    <3>3. /\ SubSeq(s, 1, p) \in Seq(Attempts)
          /\ Len(SubSeq(s, 1, p)) = p - 1 + 1
          /\ \A k \in 1..(p - 1 + 1) : SubSeq(s, 1, p)[k] = s[1 + k - 1]
      BY <3>1, <3>2, SubSeqProperties
    <3> QED  BY <3>3
  <2> DEFINE u == SubSeq(Prefix, 1, p)
             v == SubSeq(conv[b], 1, p)
  <2>2. u \in Seq(Attempts) /\ Len(u) = p /\ \A k \in 1..p : u[k] = Prefix[k]
    BY <1>1, <2>1
  <2>3. v \in Seq(Attempts) /\ Len(v) = p /\ \A k \in 1..p : v[k] = conv[b][k]
    BY <1>1, <2>1
  <2> HIDE DEF u, v
  <2>4. u = v
    BY <1>1, <2>2, <2>3, SeqEqual
  <2> QED  BY <2>4 DEF u, v
<1> QED  BY <1>2, <1>3

\* A sequence begins with itself.
LEMMA WholePrefix ==
  ASSUME NEW s \in Seq(Attempts)
  PROVE  SubSeq(s, 1, Len(s)) = s
<1>1. CASE Len(s) = 0
  <2>1. s = << >> /\ SubSeq(s, 1, 0) = << >>
    BY <1>1, SubSeqEmpty
  <2> QED  BY <1>1, <2>1
<1>2. CASE Len(s) # 0
  <2> DEFINE u == SubSeq(s, 1, Len(s))
  <2>1. \A k \in 1..Len(s) : s[k] \in Attempts
    OBVIOUS
  <2>2. Len(s) \in Int /\ 1 \in Int /\ 1 <= Len(s)
    BY <1>2
  <2>3. /\ u \in Seq(Attempts) /\ Len(u) = Len(s) - 1 + 1
        /\ \A k \in 1..(Len(s) - 1 + 1) : u[k] = s[1 + k - 1]
    BY <2>1, <2>2, SubSeqProperties
  <2> HIDE DEF u
  <2>4. u = s
    BY <2>2, <2>3, SeqEqual
  <2> QED  BY <2>4 DEF u
<1> QED  BY <1>1, <1>2

-----------------------------------------------------------------------------
(* The theorems.                                                           *)

\* discovery_checkpoint_repo.go, LoadPrefix: whatever writes fail, whatever rows
\* expire and however often the run is resumed, a resume replays a conversation
\* that one attempt had.
THEOREM OneExploration == Spec => []ReplayIsOneExploration
<1>1. StoreInv => ReplayIsOneExploration
  BY ReplaysOne
<1> QED  BY <1>1, InvHolds, PTL

\* discovery_checkpoint_repo.go, SaveExplorationSummary and LoadPrefix: a summary
\* that lets a resume skip exploration covers exactly the steps it replays.
THEOREM SummaryExact == Spec => []SummaryIsOfReplayedSteps
<1>1. StoreInv => SummaryIsOfReplayedSteps
  BY SummaryFits
<1> QED  BY <1>1, InvHolds, PTL

\* discovery_checkpoint_repo.go, SaveStep: as long as no write fails, the row of
\* one superseded attempt that slips through the gate of checkpointStep leaves
\* the rows a conversation that one attempt had.
THEOREM OneLateWrite == Spec => []OneLateWriteIsHarmless
<1>1. StoreInv /\ QuietInv => OneLateWriteIsHarmless
  <2> SUFFICES ASSUME StoreInv, QuietInv, late = 1, faults = 0
               PROVE  \E a \in Attempts : IsConversationOf(a, Prefix)
    BY DEF OneLateWriteIsHarmless
  <2>1. PICK a \in Attempts : \A k \in Steps :
          row[k] # Absent => k <= Len(conv[a]) /\ conv[a][k] = row[k]
    BY DEF QuietInv, StoreIsOne
  <2>2. /\ PrefixLen \in Nat /\ Prefix \in Seq(Attempts) /\ Len(Prefix) = PrefixLen
        /\ Len(conv[a]) \in Nat
        /\ \A k \in 1..PrefixLen : k \in Steps /\ row[k] # Absent
    BY PrefixIsChain, PrefixSeq, ConvSeq DEF StoreInv, Chain, Steps
  <2>3. /\ \A k \in 1..PrefixLen : row[k] = conv[a][k]
        /\ PrefixLen <= Len(conv[a])
    <3>1. \A k \in 1..PrefixLen : row[k] = conv[a][k] /\ k <= Len(conv[a])
      BY <2>1, <2>2
    <3>2. PrefixLen = 0 \/ PrefixLen \in 1..PrefixLen
      BY <2>2
    <3> QED  BY <2>2, <3>1, <3>2
  <2>4. SubSeq(Prefix, 1, PrefixLen) = SubSeq(conv[a], 1, PrefixLen)
    BY <2>2, <2>3, PrefixStarts DEF StoreInv
  <2> QED  BY <2>2, <2>3, <2>4, WholePrefix DEF IsConversationOf
<1> QED  BY <1>1, InvHolds, QuietHolds, PTL

\* exploration.go, contiguousCheckpointThrough: as long as no write fails, what
\* the owner has been through is what a resume would replay, one late row of a
\* superseded attempt or none; a pause may be offered.
THEOREM OwnerReplays == Spec => []OwnersStepsReplay
<1>1. StoreInv /\ QuietInv => OwnersStepsReplay
  <2> SUFFICES ASSUME StoreInv, QuietInv, late <= 1, faults = 0,
                      at[owner] \in {"exploring", "marking", "finishing"}
               PROVE  /\ Len(conv[owner]) <= PrefixLen
                      /\ SubSeq(Prefix, 1, Len(conv[owner])) = conv[owner]
    BY DEF OwnersStepsReplay
  <2> DEFINE n == Len(conv[owner])
  <2>1. /\ owner \in Attempts /\ n \in Nat /\ conv[owner] \in Seq(Attempts) /\ n <= MaxStep
        /\ PrefixLen \in Nat
    BY PrefixIsChain, ConvSeq DEF StoreInv, TypeOK, ConvFits
  <2>2. NoGaps /\ \A k \in 1..n : row[k] = conv[owner][k]
    BY DEF QuietInv, OwnerFits
  <2>3. n <= PrefixLen
    <3>1. CASE n = 0
      BY <2>1, <3>1
    <3>2. CASE n > 0
      <4>1. n \in Steps /\ n \in 1..n
        BY <2>1, <3>2 DEF Steps
      <4>2. row[n] # Absent
        BY <2>1, <2>2, <4>1 DEF Attempts, Absent
      <4> QED  BY <2>2, <4>1, <4>2, PrefixIsAll DEF StoreInv
    <3> QED  BY <2>1, <3>1, <3>2
  <2>4. SubSeq(Prefix, 1, n) = SubSeq(conv[owner], 1, n)
    BY <2>1, <2>2, <2>3, PrefixStarts DEF StoreInv
  <2> QED  BY <2>1, <2>3, <2>4, WholePrefix
<1> QED  BY <1>1, InvHolds, QuietHolds, PTL

\* The types of the store, the agents and their conversations.
THEOREM TypeCorrect == Spec => []TypeOK
<1>1. StoreInv => TypeOK
  BY DEF StoreInv
<1> QED  BY <1>1, InvHolds, PTL
=============================================================================
