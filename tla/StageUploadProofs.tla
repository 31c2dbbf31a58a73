-------------------------- MODULE StageUploadProofs --------------------------
(***************************************************************************)
(* Proofs about what is uploaded to a build.  Deferred uploads: gates are  *)
(* there, a component is expanded once, and a stage that passes has in the *)
(* build what its run decided.  Selection: a build runs the workflows that *)
(* GitHub would run for its event.                                         *)
(***************************************************************************)
EXTENDS StageUpload, TriggerSelection, FiniteSetTheorems, SequenceTheorems, WellFoundedInduction, TLAPS

-----------------------------------------------------------------------------
(* The invariant.                                                          *)

\* Where a run has decided and not ended.
Deciding == {"ask", "askAgain", "upload", "uploadAgain", "rejected"}

NaturalRows(choice) == \A r \in DOMAIN choice : choice[r] \subseteq Nat

ProducerShape ==
  /\ producer = [p \in Producers |-> producer[p]]
  /\ \A p \in Producers :
        producer[p] \in [attempt : Nat, state : {"new", "running", "ended"},
                         receipt : Outcomes[p] \cup {None}]

StageShape ==
  /\ stage = [s \in Stages |-> stage[s]]
  /\ \A s \in Stages :
       stage[s] = [pc |-> stage[s].pc, seen |-> stage[s].seen, expected |-> stage[s].expected,
                   ask |-> stage[s].ask, create |-> stage[s].create,
                   runs |-> stage[s].runs, exit |-> stage[s].exit]

\* What a stage has read of a producer is a receipt of it.
SeenBy(s) ==
  \A p \in DOMAIN stage[s].seen : p \in Producers => stage[s].seen[p].receipt \in Outcomes[p]
SeenSound == \A s \in Stages : SeenBy(s)

\* A stage's record has all jobs from the stage on, and its parent uploaded it
\* together with all it had to compile or to skip.
RecordsSound ==
  \A s \in Stages : StepKey(s) \in DOMAIN build =>
    /\ build[StepKey(s)].kind = "stage"
    /\ Record(s).jobs = Owned(s)
    /\ NaturalRows(Record(s).choice)
    /\ Record(s).gates \subseteq DOMAIN build
    /\ Parent[s] # None => Dependents[Parent[s]] \subseteq DOMAIN build

\* The values of a root that jobs of the build were compiled from, or that
\* records pass on.
Compilations(r) == {k \in KeysOfKind("job") : r \in DOMAIN build[k].content}
Records(r) == {s \in Stages : StepKey(s) \in DOMAIN build /\ r \in DOMAIN Record(s).choice}
Values(r) == {build[k].content[r] : k \in Compilations(r)} \cup
             {Record(s).choice[r] : s \in Records(r)}

\* An upload that expands or skips a root has all dependents of its stage, so
\* there is none after it.
RootsTaken ==
  \A s \in Stages : \A r \in RootSet(s) :
    /\ HasDependents(r) /\ (Values(r) # {} \/ r \in DOMAIN build) =>
          Dependents[s] \subseteq DOMAIN build
    /\ r \in DOMAIN build /\ Parent[s] # None => Dependents[Parent[s]] \subseteq DOMAIN build

OneValue ==
  \A r \in Matrices : HasDependents(r) =>
    /\ \A v, w \in Values(r) : v = w
    /\ r \in DOMAIN build => Values(r) \subseteq {{}}

\* The key of a single root comes from the upload that skips all.
PlainRoots ==
  \A s \in Stages : \A r \in RootSet(s) :
    StepKey(s) \in DOMAIN build /\ Len(Roots[s]) = 1 /\ r \in DOMAIN build =>
      \A j \in Owned(s) : j \in DOMAIN build /\ build[j] = Entry("skip", None)

BuildInv == RecordsSound /\ GatesPresent /\ RootsTaken /\ OneValue /\ PlainRoots

DecidedBy(s) ==
  /\ \A r \in RootSet(s) : Source[r] \in DOMAIN stage[s].seen
  /\ stage[s].expected = Expected(s)
  /\ stage[s].ask \cup stage[s].create \subseteq {Gate[j] : j \in Jobs}
  /\ stage[s].pc \in {"upload", "uploadAgain", "rejected"} => stage[s].ask = {}
  /\ ~SkipsAll(s) =>
       UsedGates(s) \ Record(s).gates \subseteq stage[s].ask \cup stage[s].create \cup DOMAIN build

DecisionSound(s) ==
  /\ stage[s].pc \in {"read"} \cup Deciding => StepKey(s) \in DOMAIN build /\ stage[s].exit # 0
  /\ stage[s].pc = "read" => stage[s].create = {}
  /\ stage[s].pc \in Deciding => DecidedBy(s)

Passed(s) ==
  stage[s].exit = 0 => \A k \in DOMAIN stage[s].expected : Holds(k, stage[s].expected[k])

StageInv == \A s \in Stages : SeenBy(s) /\ DecisionSound(s) /\ Passed(s)

IInv == ProducerShape /\ StageShape /\ BuildInv /\ StageInv

-----------------------------------------------------------------------------
(* Chains of stages.                                                       *)

LEMMA ChainSelf ==
  ASSUME NEW s \in Stages
  PROVE  s \in Chain(s) /\ Chain(s) \subseteq Stages
BY DEF Chain

LEMMA ChainClosed ==
  ASSUME NEW s \in Stages, NEW t \in Chain(s), NEW c \in Children(t)
  PROVE  c \in Chain(s)
BY DEF Chain, Children

\* What is below a stage and not the stage itself has a parent.
LEMMA ChainParent ==
  ASSUME NEW s \in Stages, NEW t \in Chain(s), t # s
  PROVE  Parent[t] \in Chain(s) /\ Parent[t] # None
<1> DEFINE S == {s} \cup {c \in Chain(s) : Parent[c] \in Chain(s)}
<1>1. S \in SUBSET Stages  BY DEF Chain
<1>2. S \subseteq Chain(s)  BY ChainSelf
<1>3. ASSUME NEW c \in Stages, Parent[c] \in S
      PROVE  c \in S
  <2>1. Parent[c] \in Chain(s)  BY <1>2, <1>3
  <2>2. Parent[c] \in Stages  BY <2>1 DEF Chain
  <2>3. c \in Chain(s)  BY <2>1, ChainClosed DEF Children
  <2>. QED  BY <2>1, <2>3
<1>4. t \in S  BY <1>1, <1>3 DEF Chain
<1>5. Parent[t] \in Chain(s)  BY <1>4
<1>6. Parent[t] \in Stages  BY <1>5 DEF Chain
<1>. QED  BY <1>5, <1>6, StagesAssumption

\* The chain of a stage is the stage and the chain of its child.
LEMMA ChainSplit ==
  ASSUME NEW s \in Stages, NEW c \in Children(s)
  PROVE  Chain(s) = {s} \cup Chain(c) /\ s \notin Chain(c)
<1>0. c \in Stages /\ Parent[c] = s  BY DEF Children
<1>1. s \notin Chain(c)  BY <1>0, StagesAssumption
<1>2. ASSUME NEW t \in Chain(c) PROVE t \in Chain(s)
  <2>1. t \in Stages  BY DEF Chain
  <2>2. ASSUME NEW S \in SUBSET Stages, s \in S, \A d \in Stages : Parent[d] \in S => d \in S
        PROVE  t \in S
    <3>1. c \in S  BY <1>0, <2>2
    <3>. QED  BY <3>1, <2>2 DEF Chain
  <2>. QED  BY <2>1, <2>2 DEF Chain
<1>3. ASSUME NEW t \in Chain(s) PROVE t \in {s} \cup Chain(c)
  <2> DEFINE S == {s} \cup Chain(c)
  <2>1. S \in SUBSET Stages  BY DEF Chain
  <2>2. ASSUME NEW d \in Stages, Parent[d] \in S PROVE d \in S
    <3>1. CASE Parent[d] = s
      <4>1. d \in Children(s)  BY <3>1 DEF Children
      <4>2. d = c  BY <4>1, StagesAssumption
      <4>. QED  BY <4>2, <1>0, ChainSelf
    <3>2. CASE Parent[d] \in Chain(c)
      BY <3>2, <1>0, ChainClosed DEF Children
    <3>. QED  BY <2>2, <3>1, <3>2
  <2>. QED  BY <2>1, <2>2 DEF Chain
<1>. QED  BY <1>1, <1>2, <1>3, ChainSelf

LEMMA OwnedFacts ==
  ASSUME NEW s \in Stages
  PROVE  /\ Own(s) \subseteq Owned(s)
         /\ Owned(s) \subseteq Jobs
         /\ \A t \in Stages : \A j \in Own(t) : j \in Owned(s) => t \in Chain(s)
         /\ \A t \in Chain(s) : Own(t) \subseteq Owned(s)
<1>1. Own(s) \subseteq Owned(s)  BY ChainSelf DEF Owned
<1>2. Owned(s) \subseteq Jobs  BY TopologyAssumption DEF Owned, Chain
<1>3. ASSUME NEW t \in Stages, NEW j \in Own(t), j \in Owned(s)
      PROVE  t \in Chain(s)
  <2>1. PICK u \in Chain(s) : j \in Own(u)  BY <1>3 DEF Owned
  <2>2. u \in Stages  BY DEF Chain
  <2>3. u = t
    <3> SUFFICES ASSUME u # t PROVE FALSE  OBVIOUS
    <3>1. Own(u) \cap Own(t) = {}  BY <2>2, TopologyAssumption
    <3>. QED  BY <3>1, <2>1
  <2>. QED  BY <2>3
<1>4. \A t \in Chain(s) : Own(t) \subseteq Owned(s)  BY DEF Owned
<1>. QED  BY <1>1, <1>2, <1>3, <1>4

\* The jobs from a stage on are its own and, apart from them, those from its
\* child on.
LEMMA OwnedSplit ==
  ASSUME NEW s \in Stages, NEW c \in Children(s)
  PROVE  Owned(s) = Own(s) \cup Owned(c) /\ Own(s) \cap Owned(c) = {}
<1>1. c \in Stages  BY DEF Children
<1>2. Chain(s) = {s} \cup Chain(c) /\ s \notin Chain(c)  BY ChainSplit
<1>3. Owned(s) = Own(s) \cup Owned(c)  BY <1>2 DEF Owned
<1>4. Own(s) \cap Owned(c) = {}  BY <1>1, <1>2, OwnedFacts
<1>. QED  BY <1>3, <1>4

\* The one root of a stage that another one leaves.
LEMMA LaterRoot ==
  ASSUME NEW s \in Stages, Parent[s] # None
  PROVE  /\ Parent[s] \in Stages /\ Dependents[Parent[s]] # {}
         /\ \E r : RootSet(s) = {r}
<1>1. Roots[s] \in Seq(Matrices) /\ Len(Roots[s]) = 1  BY StagesAssumption
<1>2. DOMAIN Roots[s] = {1}  BY <1>1
<1>3. RootSet(s) = {Roots[s][1]}  BY <1>2 DEF RootSet, Range
<1>4. Parent[s] \in Stages  BY StagesAssumption
<1>5. Source[Roots[s][1]] \in Dependents[Parent[s]]  BY <1>3, StagesAssumption
<1>. QED  BY <1>3, <1>4, <1>5

LEMMA RootFacts ==
  ASSUME NEW s \in Stages
  PROVE  /\ RootSet(s) \subseteq Matrices /\ RootSet(s) # {}
         /\ \A r \in RootSet(s) : Source[r] \in Producers
         /\ Len(Roots[s]) = 1 => \A q, r \in RootSet(s) : q = r
<1>1. Roots[s] \in Seq(Matrices) /\ Roots[s] # <<>>  BY StagesAssumption
<1>2. RootSet(s) \subseteq Matrices  BY <1>1 DEF RootSet, Range
<1>3. 1 \in DOMAIN Roots[s]  BY <1>1
<1>4. RootSet(s) # {}  BY <1>3 DEF RootSet, Range
<1>5. \A r \in RootSet(s) : Source[r] \in Producers  BY <1>2 DEF Producers, Range, Matrices
<1>6. Len(Roots[s]) = 1 => \A q, r \in RootSet(s) : q = r  BY <1>1 DEF RootSet, Range
<1>. QED  BY <1>2, <1>4, <1>5, <1>6

\* A root that has dependents has one in its stage.
LEMMA RootHasDependents ==
  ASSUME NEW s \in Stages, NEW r \in RootSet(s), HasDependents(r)
  PROVE  Dependents[s] # {}
<1>1. PICK j \in Jobs : r \in Upstream[j]  BY DEF HasDependents
<1>2. j \in Owned(s) /\ j \notin RootSet(s)  BY <1>1, TopologyAssumption
<1>3. PICK t \in Chain(s) : j \in Own(t)  BY <1>2 DEF Owned
<1>4. CASE t = s  BY <1>2, <1>3, <1>4 DEF Own
<1>5. CASE t # s
  <2>1. Parent[t] \in Chain(s) /\ Parent[t] # None  BY <1>5, ChainParent
  <2>. SUFFICES ASSUME Dependents[s] = {} PROVE FALSE  OBVIOUS
  <2> DEFINE S == {s}
  <2>2. ASSUME NEW c \in Stages, Parent[c] \in S PROVE c \in S
    <3>1. Parent[c] = s  BY <2>2
    <3>2. s # None  BY StagesAssumption
    <3>3. Dependents[s] # {}  BY <3>1, <3>2, LaterRoot
    <3>. QED  BY <3>3
  <2>3. t \in S  BY <2>2 DEF Chain
  <2>. QED  BY <2>3, <1>5
<1>. QED  BY <1>4, <1>5

\* A later stage's jobs go with its root: what skips the root skips its
\* dependents too.
LEMMA SkippedTogether ==
  ASSUME NEW s \in Stages, NEW t \in Chain(s), t # s, NEW q \in RootSet(s)
  PROVE  \A j \in Owned(t) : q \in Upstream[j] =>
           \A d \in Dependents[t] : q \in Upstream[d]
<1> SUFFICES ASSUME NEW j \in Owned(t), q \in Upstream[j], NEW d \in Dependents[t]
             PROVE  q \in Upstream[d]
  OBVIOUS
<1>0. t \in Stages  BY DEF Chain
<1>1. Parent[t] # None  BY ChainParent
<1>2. PICK r : RootSet(t) = {r}  BY <1>0, <1>1, LaterRoot
<1>3. q \notin Owned(t)
  <2>1. q \in Own(s)  BY DEF Own
  <2>2. SUFFICES ASSUME q \in Owned(t) PROVE FALSE  OBVIOUS
  <2>3. s \in Chain(t)  BY <1>0, <2>1, <2>2, OwnedFacts
  <2>4. Parent[t] \in Chain(s)  BY ChainParent
  <2> DEFINE S == Chain(t)
  <2>5. S \in SUBSET Stages /\ s \in S /\ \A c \in Stages : Parent[c] \in S => c \in S
    BY <1>0, <2>3, ChainClosed DEF Chain, Children
  <2>6. Parent[t] \in S  BY <2>4, <2>5 DEF Chain
  <2>. QED  BY <1>0, <2>6, StagesAssumption
<1>4. q \in Upstream[r]  BY <1>0, <1>1, <1>2, <1>3, TopologyAssumption
<1>5. d \in Jobs /\ r \in Upstream[d]
  BY <1>0, <1>2, TopologyAssumption DEF Own
<1>. QED  BY <1>4, <1>5, TopologyAssumption

-----------------------------------------------------------------------------
(* What a run decides.                                                     *)

\* All that a stage has to read is read, and its record is there.
Informed(s) ==
  /\ StepKey(s) \in DOMAIN build /\ RecordsSound /\ SeenSound
  /\ \A r \in RootSet(s) : Source[r] \in DOMAIN stage[s].seen

LEMMA ChoiceFacts ==
  ASSUME NEW s \in Stages, Informed(s)
  PROVE  /\ DOMAIN Choice(s) = DOMAIN Record(s).choice \cup RootSet(s)
         /\ \A r \in DOMAIN Record(s).choice : Choice(s)[r] = Record(s).choice[r]
         /\ \A r \in SkippedRoots(s) : r \notin DOMAIN Record(s).choice => Choice(s)[r] = {}
         /\ NaturalRows(Choice(s))
<1> DEFINE own == [r \in RootSet(s) |-> IF Succeeded(s, r) THEN Seen(s, r).receipt.rows ELSE {}]
<1>1. Choice(s) = Extended(Record(s).choice, own)  BY DEF Choice
<1>2. DOMAIN own = RootSet(s)  OBVIOUS
<1>. HIDE DEF own
<1>3. DOMAIN Choice(s) = DOMAIN Record(s).choice \cup RootSet(s)
  BY <1>1, <1>2 DEF Extended
<1>4. \A r \in DOMAIN Record(s).choice : Choice(s)[r] = Record(s).choice[r]
  BY <1>1 DEF Extended
<1>5. \A r \in RootSet(s) : r \notin DOMAIN Record(s).choice => Choice(s)[r] = own[r]
  BY <1>1, <1>2 DEF Extended
<1>6. \A r \in SkippedRoots(s) : r \notin DOMAIN Record(s).choice => Choice(s)[r] = {}
  BY <1>5 DEF SkippedRoots, own
<1>7. ASSUME NEW r \in RootSet(s) PROVE own[r] \subseteq Nat
  <2>1. Source[r] \in Producers /\ Source[r] \in DOMAIN stage[s].seen
    BY RootFacts DEF Informed
  <2>2. stage[s].seen[Source[r]].receipt \in Outcomes[Source[r]]
    BY <2>1 DEF Informed, SeenSound, SeenBy
  <2>3. Seen(s, r).receipt.rows \subseteq Nat  BY <2>1, <2>2, BoundsAssumption DEF Seen
  <2>. QED  BY <2>3 DEF own
<1>8. NaturalRows(Record(s).choice)  BY DEF Informed, RecordsSound
<1>9. NaturalRows(Choice(s))
  BY <1>3, <1>4, <1>5, <1>7, <1>8 DEF NaturalRows
<1>. QED  BY <1>3, <1>4, <1>6, <1>9

LEMMA KeyFacts ==
  ASSUME NEW s \in Stages, Informed(s), NEW j \in Own(s), NEW k \in KeysOf(s, j)
  PROVE  /\ JobOf(k) = j
         /\ k \in Jobs => k = j /\ j \in Dependents[s]
         /\ \A t \in Stages : k # StepKey(t)
<1>1. j \in Jobs  BY TopologyAssumption
<1>2. CASE j \in RootSet(s)
  <2>1. PICK row \in Choice(s)[j] : k = <<j, row>>  BY <1>2 DEF KeysOf
  <2>2. row \in Nat  BY <1>2, ChoiceFacts DEF NaturalRows
  <2>3. k \in Jobs \X Nat  BY <1>1, <2>1, <2>2
  <2>4. k \notin Jobs  BY <2>3, KeyAssumption
  <2>5. JobOf(k) = j  BY <2>1, <2>4 DEF JobOf
  <2>6. \A t \in Stages : k # StepKey(t)  BY <1>1, <2>1, KeyAssumption DEF StepKey
  <2>. QED  BY <2>4, <2>5, <2>6
<1>3. CASE j \notin RootSet(s)
  <2>1. k = j  BY <1>3 DEF KeysOf
  <2>2. j \in Dependents[s]  BY <1>3 DEF Own
  <2>. QED  BY <1>1, <2>1, <2>2, KeyAssumption DEF JobOf
<1>. QED  BY <1>2, <1>3

LEMMA JobStepFacts ==
  ASSUME NEW s \in Stages, Informed(s), NEW k \in DOMAIN JobSteps(s)
  PROVE  /\ JobOf(k) \in Compiled(s)
         /\ k \in Jobs => k \in Dependents[s]
         /\ \A t \in Stages : k # StepKey(t)
         /\ JobSteps(s)[k] = Entry("job", PlanOf(s, JobOf(k)))
<1>1. k \in UNION {KeysOf(s, j) : j \in Compiled(s)}  BY DEF JobSteps
<1>2. PICK j \in Compiled(s) : k \in KeysOf(s, j)  BY <1>1
<1>3. j \in Own(s)  BY DEF Compiled
<1>4. JobSteps(s)[k] = Entry("job", PlanOf(s, JobOf(k)))  BY <1>1 DEF JobSteps
<1>. QED  BY <1>2, <1>3, <1>4, KeyFacts

LEMMA EntryFacts ==
  ASSUME NEW kind, NEW content
  PROVE  Entry(kind, content).kind = kind /\ Entry(kind, content).content = content
BY DEF Entry

\* What a stage expects that does not skip everything.
LEMMA ExpansionFacts ==
  ASSUME NEW s \in Stages, Informed(s), ~SkipsAll(s)
  PROVE  /\ DOMAIN Expected(s) = DOMAIN JobSteps(s) \cup SkippedJobs(s) \cup DOMAIN StageSteps(s)
         /\ \A k \in DOMAIN JobSteps(s) : Expected(s)[k] = Entry("job", PlanOf(s, JobOf(k)))
         /\ \A k \in DOMAIN Expected(s) : Expected(s)[k].kind = "job" => k \in DOMAIN JobSteps(s)
         /\ Dependents[s] \subseteq DOMAIN Expected(s)
         /\ \A k \in DOMAIN Expected(s) : k \in Jobs => k \in Dependents[s] \cup SkippedJobs(s)
         /\ \A t \in Stages : StepKey(t) \in DOMAIN Expected(s) =>
               t \in NextStage(s) /\ Expected(s)[StepKey(t)] = Entry("stage", NextRecord(s))
<1> DEFINE rest == Extended(SkipSteps(s), StageSteps(s))
<1>1. Expected(s) = Extended(JobSteps(s), rest)  BY DEF Expected
<1>2. DOMAIN rest = SkippedJobs(s) \cup DOMAIN StageSteps(s)
  BY DEF SkipSteps, Extended
<1>10. \A k \in SkippedJobs(s) : rest[k] = Entry("skip", Record(s))
  BY DEF SkipSteps, Extended
<1>11. \A k \in DOMAIN StageSteps(s) :
         k \notin SkippedJobs(s) => rest[k] = Entry("stage", NextRecord(s))
  BY DEF SkipSteps, StageSteps, Extended
<1>. HIDE DEF rest
<1>3. DOMAIN Expected(s) = DOMAIN JobSteps(s) \cup SkippedJobs(s) \cup DOMAIN StageSteps(s)
  BY <1>1, <1>2 DEF Extended
<1>4. \A k \in DOMAIN JobSteps(s) : Expected(s)[k] = Entry("job", PlanOf(s, JobOf(k)))
  BY <1>1, JobStepFacts DEF Extended
<1>5. ASSUME NEW k \in DOMAIN Expected(s), k \notin DOMAIN JobSteps(s)
      PROVE  Expected(s)[k].kind # "job"
  <2>1. k \in DOMAIN rest /\ Expected(s)[k] = rest[k]  BY <1>1, <1>2, <1>3, <1>5 DEF Extended
  <2>2. CASE k \in SkippedJobs(s)  BY <1>10, <2>1, <2>2, EntryFacts
  <2>3. CASE k \notin SkippedJobs(s)
    <3>1. k \in DOMAIN StageSteps(s)  BY <1>2, <2>1, <2>3
    <3>. QED  BY <1>11, <2>1, <2>3, <3>1, EntryFacts
  <2>. QED  BY <2>2, <2>3
<1>6. \A k \in DOMAIN Expected(s) : Expected(s)[k].kind = "job" => k \in DOMAIN JobSteps(s)
  BY <1>5
<1>7. ASSUME NEW d \in Dependents[s] PROVE d \in DOMAIN Expected(s)
  <2>1. d \in Own(s) /\ d \in Record(s).jobs
    BY OwnedFacts DEF Own, Informed, RecordsSound
  <2>2. d \notin RootSet(s)  BY TopologyAssumption
  <2>3. CASE d \in SkippedJobs(s)  BY <1>3, <2>3
  <2>4. CASE d \notin SkippedJobs(s)
    <3>1. d \in Compiled(s)  BY <2>1, <2>4 DEF Compiled
    <3>2. d \in KeysOf(s, d)  BY <2>2 DEF KeysOf
    <3>3. d \in DOMAIN JobSteps(s)  BY <3>1, <3>2 DEF JobSteps
    <3>. QED  BY <1>3, <3>3
  <2>. QED  BY <2>3, <2>4
<1>8. ASSUME NEW k \in DOMAIN Expected(s), k \in Jobs
      PROVE  k \in Dependents[s] \cup SkippedJobs(s)
  <2>1. k \notin DOMAIN StageSteps(s)
    <3>1. DOMAIN StageSteps(s) = {StepKey(c) : c \in NextStage(s)}  BY DEF StageSteps
    <3>2. NextStage(s) \subseteq Stages  BY DEF NextStage, Children
    <3>. QED  BY <1>8, <3>1, <3>2, KeyAssumption
  <2>. QED  BY <1>3, <1>8, <2>1, JobStepFacts
<1>9. ASSUME NEW t \in Stages, StepKey(t) \in DOMAIN Expected(s)
      PROVE  t \in NextStage(s) /\ Expected(s)[StepKey(t)] = Entry("stage", NextRecord(s))
  <2>1. StepKey(t) \notin DOMAIN JobSteps(s)  BY JobStepFacts
  <2>2. SkippedJobs(s) \subseteq Jobs
    BY OwnedFacts DEF SkippedJobs, Informed, RecordsSound
  <2>3. StepKey(t) \notin SkippedJobs(s)  BY <2>2, KeyAssumption
  <2>4. StepKey(t) \in DOMAIN StageSteps(s)  BY <1>3, <1>9, <2>1, <2>3
  <2>5. PICK c \in NextStage(s) : StepKey(t) = StepKey(c)  BY <2>4 DEF StageSteps
  <2>6. t = c  BY <2>5 DEF StepKey
  <2>7. Expected(s)[StepKey(t)] = rest[StepKey(t)]
    BY <1>1, <1>2, <2>1, <2>4 DEF Extended
  <2>. QED  BY <1>11, <2>3, <2>4, <2>5, <2>6, <2>7
<1>. QED  BY <1>3, <1>4, <1>6, <1>7, <1>8, <1>9

\* What a stage expects that skips everything.
LEMMA PlainFacts ==
  ASSUME NEW s \in Stages, Informed(s), SkipsAll(s)
  PROVE  /\ DOMAIN Expected(s) = Owned(s)
         /\ \A j \in Owned(s) : Expected(s)[j] = Entry("skip", None)
BY DEF Expected, PlainSkips, Placeholders, Informed, RecordsSound

\* The record of the next stage has exactly the jobs from there on.
LEMMA NextRecordFacts ==
  ASSUME NEW s \in Stages, Informed(s), NEW c \in NextStage(s)
  PROVE  /\ c \in Stages /\ Parent[c] = s
         /\ NextRecord(s).jobs = Owned(c)
         /\ NextRecord(s).choice = Choice(s)
         /\ NextRecord(s).gates = Record(s).gates \cup UsedGates(s)
<1>1. c \in Children(s) /\ c \in Stages /\ Parent[c] = s  BY DEF NextStage, Children
<1>2. Parent[c] # None  BY <1>1, StagesAssumption
<1>3. Record(s).jobs = Owned(s)  BY DEF Informed, RecordsSound
<1>4. Owned(s) = Own(s) \cup Owned(c) /\ Own(s) \cap Owned(c) = {}  BY <1>1, OwnedSplit
<1>5. ASSUME NEW j \in Owned(c) PROVE j \notin SkippedJobs(s)
  <2> SUFFICES ASSUME j \in SkippedJobs(s) PROVE FALSE  OBVIOUS
  <2>1. SkippedRoots(s) \subseteq Own(s) /\ SkippedRoots(s) \subseteq RootSet(s)
    BY DEF SkippedRoots, Own
  <2>2. PICK q \in SkippedRoots(s) : q \in Upstream[j]
    BY <1>4, <2>1 DEF SkippedJobs
  <2>3. q \notin Owned(c)  BY <1>4, <2>1
  <2>4. PICK r \in RootSet(c) : q \in Upstream[r]
    BY <1>1, <1>2, <2>2, <2>3, TopologyAssumption
  <2>5. r \in Owned(s)  BY <1>1, <1>4, OwnedFacts DEF Own
  <2>6. r \in SkippedJobs(s)  BY <1>3, <2>4, <2>5 DEF SkippedJobs
  <2>. QED  BY <2>4, <2>6 DEF NextStage
<1>6. NextRecord(s).jobs = Record(s).jobs \ (Compiled(s) \cup SkippedJobs(s))
  BY DEF NextRecord
<1>7. Compiled(s) \cup SkippedJobs(s) = Own(s) \cup SkippedJobs(s)
  BY <1>3, <1>4 DEF Compiled
<1>8. NextRecord(s).jobs = Owned(c)
  BY <1>3, <1>4, <1>5, <1>6, <1>7 DEF SkippedJobs
<1>. QED  BY <1>1, <1>8 DEF NextRecord

\* An upload that has the key of a root has all dependents of the root's stage
\* and of the stage before it.
LEMMA RootUploaded ==
  ASSUME NEW s \in Stages, Informed(s), NEW t \in Stages, NEW r \in RootSet(t),
         r \in DOMAIN Expected(s)
  PROVE  /\ t \in Chain(s)
         /\ Dependents[t] \subseteq DOMAIN Expected(s)
         /\ t # s => Dependents[Parent[t]] \subseteq DOMAIN Expected(s)
         /\ t = s => SkipsAll(s) \/ r \in SkippedRoots(s)
<1>1. r \in Own(t) /\ r \in Jobs  BY TopologyAssumption DEF Own
<1>2. CASE SkipsAll(s)
  <2>1. DOMAIN Expected(s) = Owned(s)  BY <1>2, PlainFacts
  <2>2. t \in Chain(s)  BY <1>1, <2>1, OwnedFacts
  <2>3. Own(t) \subseteq Owned(s)  BY <2>2, OwnedFacts
  <2>4. t # s => Own(Parent[t]) \subseteq Owned(s)  BY <2>2, ChainParent, OwnedFacts
  <2>. QED  BY <1>2, <2>1, <2>2, <2>3, <2>4 DEF Own
<1>3. CASE ~SkipsAll(s)
  <2>1. r \notin Dependents[s]
    <3>1. CASE t = s  BY <3>1, TopologyAssumption
    <3>2. CASE t # s
      <4>1. Own(s) \cap Own(t) = {}  BY <3>2, TopologyAssumption
      <4>. QED  BY <4>1, <1>1 DEF Own
    <3>. QED  BY <3>1, <3>2
  <2>2. r \in SkippedJobs(s)  BY <1>1, <1>3, <2>1, ExpansionFacts
  <2>3. r \in Owned(s)  BY <2>2 DEF SkippedJobs, Informed, RecordsSound
  <2>4. t \in Chain(s)  BY <1>1, <2>3, OwnedFacts
  <2>5. SkippedJobs(s) \subseteq DOMAIN Expected(s) /\ Dependents[s] \subseteq DOMAIN Expected(s)
    BY <1>3, ExpansionFacts
  <2>6. CASE t = s
    <3>1. Upstream[r] \cap SkippedRoots(s) = {}
      BY <1>1, <2>6, TopologyAssumption DEF SkippedRoots
    <3>2. r \in SkippedRoots(s)  BY <2>2, <3>1 DEF SkippedJobs
    <3>. QED  BY <2>4, <2>5, <2>6, <3>2
  <2>7. CASE t # s
    <3>1. r \notin SkippedRoots(s)
      <4>1. Own(s) \cap Own(t) = {}  BY <2>7, TopologyAssumption
      <4>. QED  BY <1>1, <4>1 DEF SkippedRoots, Own
    <3>2. PICK q \in SkippedRoots(s) : q \in Upstream[r]  BY <2>2, <3>1 DEF SkippedJobs
    <3>3. q \in RootSet(s)  BY DEF SkippedRoots
    <3>4. ASSUME NEW u \in Chain(s), u # s, r \in Owned(u)
          PROVE  Dependents[u] \subseteq DOMAIN Expected(s)
      <4>1. \A d \in Dependents[u] : q \in Upstream[d]
        BY <3>2, <3>3, <3>4, SkippedTogether
      <4>2. Dependents[u] \subseteq Owned(s)  BY OwnedFacts DEF Own
      <4>3. Dependents[u] \subseteq SkippedJobs(s)
        BY <4>1, <4>2 DEF SkippedJobs, Informed, RecordsSound
      <4>. QED  BY <4>3, <2>5
    <3>5. r \in Owned(t)  BY <1>1, OwnedFacts
    <3>6. Dependents[t] \subseteq DOMAIN Expected(s)  BY <2>4, <2>7, <3>4, <3>5
    <3>7. Parent[t] \in Chain(s) /\ Parent[t] # None  BY <2>4, <2>7, ChainParent
    <3>8. CASE Parent[t] = s  BY <2>4, <2>5, <2>7, <3>6, <3>8
    <3>9. CASE Parent[t] # s
      <4>1. Parent[t] \in Stages /\ t \in Children(Parent[t])
        BY <3>7 DEF Chain, Children
      <4>2. r \in Owned(Parent[t])  BY <3>5, <4>1, OwnedSplit
      <4>. QED  BY <2>4, <2>7, <3>4, <3>6, <3>7, <3>9, <4>2
    <3>. QED  BY <3>8, <3>9
  <2>. QED  BY <2>6, <2>7
<1>. QED  BY <1>2, <1>3

-----------------------------------------------------------------------------
(* An upload that is taken.                                                *)

LEMMA TakenShape ==
  ASSUME NEW s \in Stages, Fresh(s), stage[s].expected = Expected(s),
         stage[s].create \subseteq {Gate[j] : j \in Jobs},
         build' = Extended(build, Pipeline(s))
  PROVE  /\ DOMAIN build' = DOMAIN build \cup DOMAIN Expected(s) \cup stage[s].create
         /\ \A k \in DOMAIN build : build'[k] = build[k]
         /\ \A k \in DOMAIN Expected(s) : k \notin DOMAIN build /\ build'[k] = Expected(s)[k]
         /\ \A k \in DOMAIN build' :
               k \in DOMAIN build \/ k \in DOMAIN Expected(s)
                 \/ (k \in stage[s].create /\ build'[k].kind = "gate")
         /\ \A j \in Jobs : j \notin stage[s].create
         /\ \A t \in Stages : StepKey(t) \notin stage[s].create
<1> DEFINE pipeline == Pipeline(s)
<1>1. /\ DOMAIN pipeline = DOMAIN Expected(s) \cup stage[s].create
      /\ \A k \in DOMAIN Expected(s) : pipeline[k] = Expected(s)[k]
      /\ \A k \in stage[s].create : k \notin DOMAIN Expected(s) => pipeline[k] = Entry("gate", None)
  BY DEF Pipeline, Extended
<1>2. \A k \in DOMAIN pipeline : k \notin DOMAIN build  BY <1>1 DEF Fresh
<1>3. build' = Extended(build, pipeline)  OBVIOUS
<1>. HIDE DEF pipeline
<1>4. /\ DOMAIN build' = DOMAIN build \cup DOMAIN pipeline
      /\ \A k \in DOMAIN build : build'[k] = build[k]
      /\ \A k \in DOMAIN pipeline : k \notin DOMAIN build => build'[k] = pipeline[k]
  BY <1>3 DEF Extended
<1>5. \A k \in DOMAIN Expected(s) : k \notin DOMAIN build /\ build'[k] = Expected(s)[k]
  BY <1>1, <1>2, <1>4
<1>6. ASSUME NEW k \in stage[s].create, k \notin DOMAIN Expected(s)
      PROVE  build'[k].kind = "gate"
  <2>1. build'[k] = Entry("gate", None)  BY <1>1, <1>2, <1>4, <1>6
  <2>. QED  BY <2>1, EntryFacts
<1>7. \A j \in Jobs : j \notin stage[s].create  BY KeyAssumption
<1>8. \A t \in Stages : StepKey(t) \notin stage[s].create  BY KeyAssumption
<1>. QED  BY <1>1, <1>4, <1>5, <1>6, <1>7, <1>8

\* What is known when an upload is taken.
Taking(s) ==
  /\ Informed(s) /\ BuildInv
  /\ stage[s].expected = Expected(s)
  /\ stage[s].create \subseteq {Gate[j] : j \in Jobs}
  /\ ~SkipsAll(s) => UsedGates(s) \ Record(s).gates \subseteq stage[s].create \cup DOMAIN build
  /\ Fresh(s) /\ build' = Extended(build, Pipeline(s))

\* A stage step that an upload adds is that of the next stage.
LEMMA NewStage ==
  ASSUME NEW s \in Stages, Taking(s), NEW t \in Stages,
         StepKey(t) \in DOMAIN build', StepKey(t) \notin DOMAIN build
  PROVE  /\ ~SkipsAll(s) /\ t \in NextStage(s)
         /\ build'[StepKey(t)].kind = "stage" /\ build'[StepKey(t)].content = NextRecord(s)
<1>1. StepKey(t) \in DOMAIN Expected(s) /\ build'[StepKey(t)] = Expected(s)[StepKey(t)]
  <2> DEFINE key == StepKey(t)
  <2>1. key \in DOMAIN build' /\ key \notin DOMAIN build  OBVIOUS
  <2>2. key \notin stage[s].create  BY TakenShape DEF Taking
  <2>. HIDE DEF key
  <2>3. key \in DOMAIN Expected(s) /\ build'[key] = Expected(s)[key]
    BY <2>1, <2>2, TakenShape DEF Taking
  <2>. QED  BY <2>3 DEF key
<1>2. ~SkipsAll(s)
  <2> SUFFICES ASSUME SkipsAll(s) PROVE FALSE  OBVIOUS
  <2>1. StepKey(t) \in Owned(s)  BY <1>1, PlainFacts DEF Taking
  <2>. QED  BY <2>1, OwnedFacts, KeyAssumption
<1>3. t \in NextStage(s) /\ Expected(s)[StepKey(t)] = Entry("stage", NextRecord(s))
  BY <1>1, <1>2, ExpansionFacts DEF Taking
<1>. QED  BY <1>1, <1>2, <1>3, EntryFacts

\* A job that an upload adds was compiled by this run.
LEMMA NewJob ==
  ASSUME NEW s \in Stages, Taking(s), NEW k \in KeysOfKind("job")', k \notin DOMAIN build
  PROVE  /\ ~SkipsAll(s) /\ JobOf(k) \in Compiled(s)
         /\ build'[k].content = PlanOf(s, JobOf(k))
<1>0. k \in DOMAIN build' /\ build'[k].kind = "job"  BY DEF KeysOfKind
<1>1. k \in DOMAIN Expected(s) /\ build'[k] = Expected(s)[k]
  BY <1>0, TakenShape DEF Taking
<1>2. ~SkipsAll(s)
  <2> SUFFICES ASSUME SkipsAll(s) PROVE FALSE  OBVIOUS
  <2>1. build'[k] = Entry("skip", None)  BY <1>1, PlainFacts DEF Taking
  <2>. QED  BY <1>0, <2>1, EntryFacts
<1>3. k \in DOMAIN JobSteps(s) /\ Expected(s)[k] = Entry("job", PlanOf(s, JobOf(k)))
  BY <1>0, <1>1, <1>2, ExpansionFacts DEF Taking
<1>4. JobOf(k) \in Compiled(s)  BY <1>3, JobStepFacts DEF Taking
<1>. QED  BY <1>1, <1>2, <1>3, <1>4, EntryFacts

\* What an upload does to the values of a root: it carries on the one there
\* is, or it is the upload that expands the root.
Expands(s, r) == r \in RootSet(s) /\ r \notin DOMAIN Record(s).choice /\ ~SkipsAll(s)

LEMMA NewValues ==
  ASSUME NEW s \in Stages, Taking(s), NEW r, NEW v \in Values(r)'
  PROVE  v \in Values(r) \/ (Expands(s, r) /\ v = Choice(s)[r])
<1>0. Informed(s) /\ StepKey(s) \in DOMAIN build  BY DEF Taking, Informed
<1>1. ASSUME r \in DOMAIN Choice(s), ~SkipsAll(s)
      PROVE  Choice(s)[r] \in Values(r) \/ Expands(s, r)
  <2>1. CASE r \in DOMAIN Record(s).choice
    <3>1. s \in Records(r)  BY <1>0, <2>1 DEF Records
    <3>2. Record(s).choice[r] \in Values(r)  BY <3>1 DEF Values
    <3>. QED  BY <1>0, <2>1, <3>2, ChoiceFacts
  <2>2. CASE r \notin DOMAIN Record(s).choice
    BY <1>0, <1>1, <2>2, ChoiceFacts DEF Expands
  <2>. QED  BY <2>1, <2>2
<1>2. CASE \E k \in Compilations(r)' : v = build'[k].content[r]
  <2>1. PICK k \in Compilations(r)' : v = build'[k].content[r]  BY <1>2
  <2>2. k \in KeysOfKind("job")' /\ r \in DOMAIN build'[k].content  BY DEF Compilations
  <2>3. CASE k \in DOMAIN build
    <3>1. build'[k] = build[k]  BY <2>3, TakenShape DEF Taking
    <3>2. k \in Compilations(r)  BY <2>2, <2>3, <3>1 DEF Compilations, KeysOfKind
    <3>. QED  BY <2>1, <3>1, <3>2 DEF Values
  <2>4. CASE k \notin DOMAIN build
    <3>1. ~SkipsAll(s) /\ build'[k].content = PlanOf(s, JobOf(k))  BY <2>2, <2>4, NewJob
    <3>2. /\ DOMAIN PlanOf(s, JobOf(k)) \subseteq DOMAIN Choice(s)
          /\ \A q \in DOMAIN PlanOf(s, JobOf(k)) : PlanOf(s, JobOf(k))[q] = Choice(s)[q]
      BY DEF PlanOf, Restrict
    <3>. QED  BY <1>1, <2>1, <2>2, <3>1, <3>2
  <2>. QED  BY <2>3, <2>4
<1>3. CASE \E t \in Records(r)' : v = Record(t)'.choice[r]
  <2>1. PICK t \in Records(r)' : v = Record(t)'.choice[r]  BY <1>3
  <2>2. t \in Stages /\ StepKey(t) \in DOMAIN build' /\ r \in DOMAIN Record(t)'.choice
    BY DEF Records
  <2>3. CASE StepKey(t) \in DOMAIN build
    <3>1. Record(t)' = Record(t)  BY <2>3, TakenShape DEF Taking, Record
    <3>2. t \in Records(r)  BY <2>2, <2>3, <3>1 DEF Records
    <3>. QED  BY <2>1, <3>1, <3>2 DEF Values
  <2>4. CASE StepKey(t) \notin DOMAIN build
    <3>1. ~SkipsAll(s) /\ t \in NextStage(s) /\ Record(t)' = NextRecord(s)
      BY <2>2, <2>4, NewStage DEF Record
    <3>2. Record(t)'.choice = Choice(s)  BY <1>0, <3>1, NextRecordFacts
    <3>. QED  BY <1>1, <2>1, <2>2, <3>1, <3>2
  <2>. QED  BY <2>3, <2>4
<1>. QED  BY <1>2, <1>3 DEF Values

\* Nobody has expanded or skipped a root before the upload that does.
LEMMA FirstUpload ==
  ASSUME NEW s \in Stages, Taking(s), NEW t \in Stages, NEW r \in RootSet(t), HasDependents(r),
         Dependents[t] \subseteq DOMAIN Expected(s)
  PROVE  Values(r) = {} /\ r \notin DOMAIN build
<1> SUFFICES ASSUME Values(r) # {} \/ r \in DOMAIN build PROVE FALSE
  OBVIOUS
<1>1. Dependents[t] \subseteq DOMAIN build  BY DEF Taking, BuildInv, RootsTaken
<1>2. PICK d : d \in Dependents[t]  BY RootHasDependents
<1>3. d \notin DOMAIN build  BY <1>2, TakenShape DEF Taking
<1>. QED  BY <1>1, <1>2, <1>3

LEMMA TakenRecords ==
  ASSUME NEW s \in Stages, Taking(s)
  PROVE  RecordsSound'
<1> SUFFICES ASSUME NEW t \in Stages, StepKey(t) \in DOMAIN build'
             PROVE  /\ build'[StepKey(t)].kind = "stage"
                    /\ Record(t)'.jobs = Owned(t)
                    /\ NaturalRows(Record(t)'.choice)
                    /\ Record(t)'.gates \subseteq DOMAIN build'
                    /\ Parent[t] # None => Dependents[Parent[t]] \subseteq DOMAIN build'
  BY DEF RecordsSound, NaturalRows, Owned, Own, Chain, RootSet
<1>0. Informed(s) /\ StepKey(s) \in DOMAIN build /\ RecordsSound  BY DEF Taking, Informed
<1>1. DOMAIN build' = DOMAIN build \cup DOMAIN Expected(s) \cup stage[s].create
  BY TakenShape DEF Taking
<1>2. CASE StepKey(t) \in DOMAIN build
  <2>1. build'[StepKey(t)] = build[StepKey(t)] /\ Record(t)' = Record(t)
    BY <1>2, TakenShape DEF Taking, Record
  <2>. QED  BY <1>0, <1>1, <1>2, <2>1 DEF RecordsSound
<1>3. CASE StepKey(t) \notin DOMAIN build
  <2>1. /\ ~SkipsAll(s) /\ t \in NextStage(s)
        /\ build'[StepKey(t)].kind = "stage" /\ Record(t)' = NextRecord(s)
    BY <1>3, NewStage DEF Record
  <2>2. /\ Parent[t] = s /\ NextRecord(s).jobs = Owned(t)
        /\ NextRecord(s).choice = Choice(s)
        /\ NextRecord(s).gates = Record(s).gates \cup UsedGates(s)
    BY <1>0, <2>1, NextRecordFacts
  <2>3. NaturalRows(Choice(s))  BY <1>0, ChoiceFacts
  <2>4. Record(s).gates \subseteq DOMAIN build  BY <1>0 DEF RecordsSound
  <2>5. UsedGates(s) \subseteq DOMAIN build'  BY <1>1, <2>1, <2>4 DEF Taking
  <2>6. Dependents[s] \subseteq DOMAIN Expected(s)  BY <1>0, <2>1, ExpansionFacts
  <2>. QED  BY <1>1, <2>1, <2>2, <2>3, <2>4, <2>5, <2>6
<1>. QED  BY <1>2, <1>3

LEMMA TakenGates ==
  ASSUME NEW s \in Stages, Taking(s)
  PROVE  GatesPresent'
<1> SUFFICES ASSUME NEW k \in KeysOfKind("job")', Gate[JobOf(k)] # None
             PROVE  Gate[JobOf(k)] \in DOMAIN build'
  BY DEF GatesPresent, JobOf
<1>1. DOMAIN build' = DOMAIN build \cup DOMAIN Expected(s) \cup stage[s].create
  BY TakenShape DEF Taking
<1>2. CASE k \in DOMAIN build
  <2>1. k \in KeysOfKind("job")  BY <1>2, TakenShape DEF KeysOfKind, Taking
  <2>. QED  BY <1>1, <2>1 DEF Taking, BuildInv, GatesPresent
<1>3. CASE k \notin DOMAIN build
  <2>1. ~SkipsAll(s) /\ JobOf(k) \in Compiled(s)  BY <1>3, NewJob
  <2>2. Gate[JobOf(k)] \in UsedGates(s)  BY <2>1 DEF UsedGates
  <2>3. Record(s).gates \subseteq DOMAIN build  BY DEF Taking, Informed, RecordsSound
  <2>. QED  BY <1>1, <2>1, <2>2, <2>3 DEF Taking
<1>. QED  BY <1>2, <1>3

LEMMA TakenRoots ==
  ASSUME NEW s \in Stages, Taking(s)
  PROVE  RootsTaken'
<1>0. Informed(s) /\ RootsTaken /\ StepKey(s) \in DOMAIN build  BY DEF Taking, BuildInv, Informed
<1>1. DOMAIN build' = DOMAIN build \cup DOMAIN Expected(s) \cup stage[s].create
  BY TakenShape DEF Taking
<1>2. ASSUME NEW t \in Stages, NEW r \in RootSet(t), r \in DOMAIN build'
      PROVE  r \in DOMAIN build \/ r \in DOMAIN Expected(s)
  <2>1. r \in Jobs  BY TopologyAssumption DEF Own
  <2>. QED  BY <1>1, <1>2, <2>1, TakenShape DEF Taking
<1>3. ASSUME NEW t \in Stages, NEW r \in RootSet(t), HasDependents(r),
             Values(r)' # {} \/ r \in DOMAIN build'
      PROVE  Dependents[t] \subseteq DOMAIN build'
  <2>1. CASE Values(r) # {} \/ r \in DOMAIN build  BY <1>0, <1>1, <1>3, <2>1 DEF RootsTaken
  <2>2. CASE r \in DOMAIN Expected(s)  BY <1>0, <1>1, <2>2, RootUploaded
  <2>3. CASE Values(r) = {} /\ Values(r)' # {}
    <3>1. PICK v \in Values(r)' : TRUE  BY <2>3
    <3>2. Expands(s, r)  BY <2>3, <3>1, NewValues
    <3>3. s = t
      <4> SUFFICES ASSUME s # t PROVE FALSE  OBVIOUS
      <4>1. Own(s) \cap Own(t) = {}  BY TopologyAssumption
      <4>. QED  BY <3>2, <4>1 DEF Expands, Own
    <3>4. Dependents[s] \subseteq DOMAIN Expected(s)  BY <1>0, <3>2, ExpansionFacts DEF Expands
    <3>. QED  BY <1>1, <3>3, <3>4
  <2>. QED  BY <1>2, <1>3, <2>1, <2>2, <2>3
<1>4. ASSUME NEW t \in Stages, NEW r \in RootSet(t), r \in DOMAIN build', Parent[t] # None
      PROVE  Dependents[Parent[t]] \subseteq DOMAIN build'
  <2>1. CASE r \in DOMAIN build  BY <1>0, <1>1, <1>4, <2>1 DEF RootsTaken
  <2>2. CASE r \in DOMAIN Expected(s) /\ t # s  BY <1>0, <1>1, <2>2, RootUploaded
  <2>3. CASE t = s  BY <1>0, <1>1, <1>4, <2>3 DEF Informed, RecordsSound
  <2>. QED  BY <1>2, <1>4, <2>1, <2>2, <2>3
<1>. QED  BY <1>3, <1>4 DEF RootsTaken, HasDependents, RootSet

LEMMA TakenValues ==
  ASSUME NEW s \in Stages, Taking(s)
  PROVE  OneValue'
<1>0. Informed(s) /\ OneValue  BY DEF Taking, BuildInv
<1>1. ASSUME NEW r \in Matrices, HasDependents(r)
      PROVE  /\ \A v, w \in Values(r)' : v = w
             /\ r \in DOMAIN build' => Values(r)' \subseteq {{}}
  <2>1. PICK t \in Stages : r \in RootSet(t)  BY TopologyAssumption
  <2>2. r \in DOMAIN build' => r \in DOMAIN build \/ r \in DOMAIN Expected(s)
    <3>1. r \in Jobs  BY <2>1, TopologyAssumption DEF Own
    <3>. QED  BY <3>1, TakenShape DEF Taking
  <2>3. CASE Expands(s, r)
    <3>1. Dependents[s] \subseteq DOMAIN Expected(s) /\ r \in RootSet(s)
      BY <1>0, <2>3, ExpansionFacts DEF Expands
    <3>2. Values(r) = {} /\ r \notin DOMAIN build  BY <1>1, <3>1, FirstUpload
    <3>3. \A v \in Values(r)' : v = Choice(s)[r]  BY <3>2, NewValues
    <3>4. ASSUME r \in DOMAIN build' PROVE Choice(s)[r] = {}
      <4>1. r \in DOMAIN Expected(s)  BY <2>2, <3>2, <3>4
      <4>2. r \in SkippedRoots(s)  BY <1>0, <2>3, <3>1, <4>1, RootUploaded DEF Expands
      <4>. QED  BY <1>0, <2>3, <4>2, ChoiceFacts DEF Expands
    <3>. QED  BY <3>3, <3>4
  <2>4. CASE ~Expands(s, r)
    <3>1. \A v \in Values(r)' : v \in Values(r)  BY <2>4, NewValues
    <3>2. CASE r \in DOMAIN build  BY <1>0, <1>1, <3>1, <3>2 DEF OneValue
    <3>3. CASE r \in DOMAIN Expected(s)
      <4>1. Dependents[t] \subseteq DOMAIN Expected(s)  BY <1>0, <2>1, <3>3, RootUploaded
      <4>2. Values(r) = {}  BY <1>1, <2>1, <4>1, FirstUpload
      <4>. QED  BY <3>1, <4>2
    <3>4. CASE r \notin DOMAIN build'  BY <1>0, <1>1, <3>1, <3>4 DEF OneValue
    <3>. QED  BY <2>2, <3>2, <3>3, <3>4
  <2>. QED  BY <2>3, <2>4
<1>. QED  BY <1>1 DEF OneValue, HasDependents, Matrices

LEMMA TakenPlain ==
  ASSUME NEW s \in Stages, Taking(s)
  PROVE  PlainRoots'
<1>0. /\ Informed(s) /\ PlainRoots /\ RootsTaken /\ RecordsSound
      /\ \A k \in DOMAIN build : build'[k] = build[k]
      /\ \A k \in DOMAIN Expected(s) : k \notin DOMAIN build /\ build'[k] = Expected(s)[k]
      /\ DOMAIN build' = DOMAIN build \cup DOMAIN Expected(s) \cup stage[s].create
  BY TakenShape DEF Taking, BuildInv
<1> SUFFICES ASSUME NEW t \in Stages, NEW r \in RootSet(t), StepKey(t) \in DOMAIN build',
                    Len(Roots[t]) = 1, r \in DOMAIN build', NEW j \in Owned(t)
             PROVE  j \in DOMAIN build' /\ build'[j] = Entry("skip", None)
  BY DEF PlainRoots, Owned, Own, Chain, RootSet, Entry
<1>1. r \in DOMAIN build \/ r \in DOMAIN Expected(s)
  <2>1. r \in Jobs  BY TopologyAssumption DEF Own
  <2>. QED  BY <2>1, TakenShape DEF Taking
<1>2. CASE StepKey(t) \in DOMAIN build /\ r \in DOMAIN build
  BY <1>0, <1>2 DEF PlainRoots
<1>3. CASE StepKey(t) \in DOMAIN build /\ r \in DOMAIN Expected(s)
  <2>1. t = s
    <3> SUFFICES ASSUME t # s PROVE FALSE  OBVIOUS
    <3>1. t \in Chain(s) /\ Dependents[Parent[t]] \subseteq DOMAIN Expected(s)
      BY <1>0, <1>3, RootUploaded
    <3>2. Parent[t] # None  BY <3>1, ChainParent
    <3>3. Dependents[Parent[t]] \subseteq DOMAIN build  BY <1>0, <1>3, <3>2 DEF RecordsSound
    <3>4. Dependents[Parent[t]] # {}  BY <3>2, LaterRoot
    <3>. QED  BY <1>0, <3>1, <3>3, <3>4
  <2>2. SkipsAll(s)
    <3>1. SkipsAll(s) \/ r \in SkippedRoots(s)  BY <1>0, <1>3, <2>1, RootUploaded
    <3>. QED  BY <2>1, <3>1 DEF SkipsAll
  <2>. QED  BY <1>0, <2>1, <2>2, PlainFacts
<1>4. CASE StepKey(t) \notin DOMAIN build
  <2>1. ~SkipsAll(s) /\ t \in NextStage(s)  BY <1>4, NewStage
  <2>2. Parent[t] = s /\ t \in Children(s)  BY <1>0, <2>1, NextRecordFacts DEF Children
  <2>3. s # None  BY StagesAssumption
  <2>4. Dependents[s] # {}  BY <2>2, <2>3, LaterRoot
  <2>5. Dependents[s] \subseteq DOMAIN Expected(s)  BY <1>0, <2>1, ExpansionFacts
  <2>6. CASE r \in DOMAIN build
    <3>1. Dependents[s] \subseteq DOMAIN build  BY <1>0, <2>2, <2>3, <2>6 DEF RootsTaken
    <3>. QED  BY <1>0, <2>4, <2>5, <3>1
  <2>7. CASE r \in DOMAIN Expected(s)
    <3>1. r \in Jobs /\ r \in Own(t)  BY TopologyAssumption DEF Own
    <3>2. r \in Dependents[s] \cup SkippedJobs(s)  BY <1>0, <2>1, <2>7, <3>1, ExpansionFacts
    <3>3. r \notin SkippedJobs(s)  BY <2>1 DEF NextStage
    <3>4. s # t  BY <2>2, ChainSplit, ChainSelf
    <3>5. Own(s) \cap Own(t) = {}  BY <3>4, TopologyAssumption
    <3>. QED  BY <3>1, <3>2, <3>3, <3>5 DEF Own
  <2>. QED  BY <1>1, <2>6, <2>7
<1>. QED  BY <1>1, <1>2, <1>3, <1>4

LEMMA Taken ==
  ASSUME NEW s \in Stages, Taking(s)
  PROVE  BuildInv'
BY TakenRecords, TakenGates, TakenRoots, TakenValues, TakenPlain DEF BuildInv

-----------------------------------------------------------------------------
(* Steps.                                                                  *)

\* What a run decides depends on its record and on what it has read.
LEMMA DecisionStable ==
  ASSUME NEW s \in Stages, Record(s)' = Record(s), stage'[s].seen = stage[s].seen
  PROVE  /\ SkipsAll(s)' = SkipsAll(s) /\ UsedGates(s)' = UsedGates(s)
         /\ Expected(s)' = Expected(s)
<1>1. \A r : Succeeded(s, r)' = Succeeded(s, r) /\ Seen(s, r)' = Seen(s, r)
  BY DEF Succeeded, Seen
<1>2. SkippedRoots(s)' = SkippedRoots(s)  BY <1>1 DEF SkippedRoots, RootSet
<1>3. SkippedJobs(s)' = SkippedJobs(s)  BY <1>2 DEF SkippedJobs
<1>4. Compiled(s)' = Compiled(s)  BY <1>3 DEF Compiled, Own, RootSet
<1>5. Choice(s)' = Choice(s)  BY <1>1 DEF Choice, RootSet
<1>6. SkipsAll(s)' = SkipsAll(s)  BY <1>2 DEF SkipsAll
<1>7. UsedGates(s)' = UsedGates(s)  BY <1>4 DEF UsedGates
<1>8. NextStage(s)' = NextStage(s)  BY <1>3 DEF NextStage, Children, RootSet
<1>9. \A j : KeysOf(s, j)' = KeysOf(s, j) /\ PlanOf(s, j)' = PlanOf(s, j)
  BY <1>5 DEF KeysOf, PlanOf, RootSet
<1>10. JobSteps(s)' = JobSteps(s)  BY <1>4, <1>9 DEF JobSteps, JobOf, Entry
<1>11. SkipSteps(s)' = SkipSteps(s)  BY <1>3 DEF SkipSteps, Entry
<1>12. JobCount(s)' = JobCount(s)  BY <1>3, <1>10 DEF JobCount
<1>13. NextRecord(s)' = NextRecord(s)  BY <1>3, <1>4, <1>5, <1>7, <1>12 DEF NextRecord
<1>14. StageSteps(s)' = StageSteps(s)  BY <1>8, <1>13 DEF StageSteps, StepKey, Entry
<1>15. PlainSkips(s)' = PlainSkips(s)  BY DEF PlainSkips, Placeholders, Entry
<1>16. Expected(s)' = Expected(s)
  BY <1>6, <1>10, <1>11, <1>14, <1>15 DEF Expected, Extended
<1>. QED  BY <1>6, <1>7, <1>16

\* Nothing is ever taken out of a build.
Grows == DOMAIN build \subseteq DOMAIN build' /\ \A k \in DOMAIN build : build'[k] = build[k]

LEMMA DecidedStays ==
  ASSUME NEW s \in Stages, Grows, StepKey(s) \in DOMAIN build, DecidedBy(s),
         stage'[s].seen = stage[s].seen, stage'[s].expected = stage[s].expected,
         stage'[s].ask \cup stage'[s].create \subseteq {Gate[j] : j \in Jobs},
         stage'[s].pc \in {"upload", "uploadAgain", "rejected"} => stage'[s].ask = {},
         ~SkipsAll(s) => UsedGates(s) \ Record(s).gates \subseteq
                           stage'[s].ask \cup stage'[s].create \cup DOMAIN build
  PROVE  DecidedBy(s)'
<1>1. Record(s)' = Record(s)  BY DEF Grows, Record
<1>2. SkipsAll(s)' = SkipsAll(s) /\ UsedGates(s)' = UsedGates(s) /\ Expected(s)' = Expected(s)
  BY <1>1, DecisionStable
<1>3. \A r \in RootSet(s) : Source[r] \in DOMAIN stage'[s].seen  BY DEF DecidedBy
<1>4. stage'[s].expected = Expected(s)  BY DEF DecidedBy
<1>5. ~SkipsAll(s) => UsedGates(s) \ Record(s).gates \subseteq
                        stage'[s].ask \cup stage'[s].create \cup DOMAIN build'
  BY DEF Grows
<1>. QED  BY <1>1, <1>2, <1>3, <1>4, <1>5 DEF DecidedBy, RootSet

LEMMA PassedStays ==
  ASSUME NEW s \in Stages, Grows, Passed(s), stage'[s].exit = stage[s].exit,
         stage'[s].expected = stage[s].expected
  PROVE  Passed(s)'
BY DEF Grows, Passed, Holds

\* A step of one stage does not disturb another.
LEMMA Undisturbed ==
  ASSUME NEW s \in Stages, Grows, stage'[s] = stage[s],
         SeenBy(s) /\ DecisionSound(s) /\ Passed(s)
  PROVE  (SeenBy(s) /\ DecisionSound(s) /\ Passed(s))'
<1>1. SeenBy(s)'  BY DEF SeenBy, Producers, Range
<1>2. Passed(s)'  BY PassedStays
<1>3. ASSUME stage[s].pc \in Deciding PROVE DecidedBy(s)'
  <2>1. StepKey(s) \in DOMAIN build /\ DecidedBy(s)  BY <1>3 DEF DecisionSound
  <2>2. /\ stage[s].ask \cup stage[s].create \subseteq {Gate[j] : j \in Jobs}
        /\ stage[s].pc \in {"upload", "uploadAgain", "rejected"} => stage[s].ask = {}
        /\ ~SkipsAll(s) => UsedGates(s) \ Record(s).gates \subseteq
                             stage[s].ask \cup stage[s].create \cup DOMAIN build
    BY <2>1 DEF DecidedBy
  <2>. QED  BY <2>1, <2>2, DecidedStays
<1>4. DecisionSound(s)'
  BY <1>3 DEF DecisionSound, Grows, StepKey, Deciding
<1>. QED  BY <1>1, <1>2, <1>4

\* What Goto and Exit leave alone.
LEMMA MoveFacts ==
  ASSUME NEW s \in Stages, StageShape, NEW place, Goto(s, place)
  PROVE  /\ StageShape' /\ \A t \in Stages : t # s => stage'[t] = stage[t]
         /\ stage'[s].pc = place
         /\ stage'[s].seen = stage[s].seen /\ stage'[s].expected = stage[s].expected
         /\ stage'[s].ask = stage[s].ask /\ stage'[s].create = stage[s].create
         /\ stage'[s].exit = stage[s].exit
BY DEF Goto, StageShape

LEMMA ExitFacts ==
  ASSUME NEW s \in Stages, StageShape, NEW code, Exit(s, code)
  PROVE  /\ StageShape' /\ \A t \in Stages : t # s => stage'[t] = stage[t]
         /\ stage'[s].pc = "ended" /\ stage'[s].exit = code
         /\ stage'[s].seen = stage[s].seen /\ stage'[s].expected = stage[s].expected
<1>1. stage' = [t \in Stages |-> stage'[t]] /\ \A t \in Stages : t # s => stage'[t] = stage[t]
  BY DEF Exit, StageShape
<1>2. stage'[s] = [pc |-> "ended", seen |-> stage[s].seen, expected |-> stage[s].expected,
                   ask |-> stage[s].ask, create |-> stage[s].create,
                   runs |-> stage[s].runs, exit |-> code]
  <2> DEFINE old == stage[s]
  <2>1. s \in DOMAIN stage  BY DEF StageShape
  <2>2. stage'[s] = [old EXCEPT !.pc = "ended", !.exit = code]  BY <2>1 DEF Exit
  <2>3. old = [pc |-> old.pc, seen |-> old.seen, expected |-> old.expected, ask |-> old.ask,
               create |-> old.create, runs |-> old.runs, exit |-> old.exit]
    BY DEF StageShape
  <2>. HIDE DEF old
  <2>4. stage'[s] = [pc |-> "ended", seen |-> old.seen, expected |-> old.expected,
                     ask |-> old.ask, create |-> old.create, runs |-> old.runs, exit |-> code]
    BY <2>2, <2>3
  <2>. QED  BY <2>4 DEF old
<1>. QED  BY <1>1, <1>2 DEF StageShape

\* A run that fails claims nothing.
LEMMA FailureStays ==
  ASSUME NEW s \in Stages, StageShape, StageInv, Grows, Exit(s, 1)
  PROVE  StageShape' /\ StageInv'
<1>1. /\ StageShape' /\ \A t \in Stages : t # s => stage'[t] = stage[t]
      /\ stage'[s].pc = "ended" /\ stage'[s].exit = 1 /\ stage'[s].seen = stage[s].seen
  BY ExitFacts
<1>2. SeenBy(s)'  BY <1>1 DEF StageInv, SeenBy, Producers, Range
<1>3. DecisionSound(s)' /\ Passed(s)'  BY <1>1 DEF DecisionSound, Deciding, Passed
<1>4. \A t \in Stages : t # s => (SeenBy(t) /\ DecisionSound(t) /\ Passed(t))'
  BY <1>1, Undisturbed DEF StageInv
<1>. QED  BY <1>1, <1>2, <1>3, <1>4 DEF StageInv

\* A run that goes on with what it has decided.
LEMMA MoveStays ==
  ASSUME NEW s \in Stages, StageShape, StageInv, Grows, NEW place \in Deciding, Goto(s, place),
         stage[s].pc \in Deciding, place \in {"upload", "uploadAgain", "rejected"} => stage[s].ask = {}
  PROVE  StageShape' /\ StageInv'
<1>1. /\ StageShape' /\ \A t \in Stages : t # s => stage'[t] = stage[t]
      /\ stage'[s].pc = place
      /\ stage'[s].seen = stage[s].seen /\ stage'[s].expected = stage[s].expected
      /\ stage'[s].ask = stage[s].ask /\ stage'[s].create = stage[s].create
      /\ stage'[s].exit = stage[s].exit
  BY MoveFacts
<1>2. SeenBy(s) /\ DecisionSound(s) /\ Passed(s)  BY DEF StageInv
<1>3. StepKey(s) \in DOMAIN build /\ DecidedBy(s) /\ stage[s].exit # 0  BY <1>2 DEF DecisionSound
<1>4. DecidedBy(s)'
  <2>1. /\ stage[s].ask \cup stage[s].create \subseteq {Gate[j] : j \in Jobs}
        /\ ~SkipsAll(s) => UsedGates(s) \ Record(s).gates \subseteq
                             stage[s].ask \cup stage[s].create \cup DOMAIN build
    BY <1>3 DEF DecidedBy
  <2>. QED  BY <1>1, <1>3, <2>1, DecidedStays
<1>5. StepKey(s)' \in DOMAIN build'  BY <1>3 DEF Grows, StepKey
<1>6. SeenBy(s)'  BY <1>1, <1>2 DEF SeenBy, Producers, Range
<1>7. DecisionSound(s)' /\ Passed(s)'
  <2>1. place # "read"  BY DEF Deciding
  <2>2. Passed(s)'  BY <1>1, <1>3 DEF Passed
  <2>. QED  BY <1>1, <1>3, <1>4, <1>5, <2>1, <2>2 DEF DecisionSound
<1>8. \A t \in Stages : t # s => (SeenBy(t) /\ DecisionSound(t) /\ Passed(t))'
  BY <1>1, Undisturbed DEF StageInv
<1>. QED  BY <1>1, <1>6, <1>7, <1>8 DEF StageInv

\* A run that passes and has what it expects in the build.
LEMMA PassStays ==
  ASSUME NEW s \in Stages, StageShape, StageInv, Grows, Exit(s, 0),
         \A k \in DOMAIN stage[s].expected :
            /\ k \in DOMAIN build' /\ build'[k].kind = stage[s].expected[k].kind
            /\ build'[k].content = stage[s].expected[k].content
  PROVE  StageShape' /\ StageInv'
<1>1. /\ StageShape' /\ \A t \in Stages : t # s => stage'[t] = stage[t]
      /\ stage'[s].pc = "ended" /\ stage'[s].seen = stage[s].seen
      /\ stage'[s].expected = stage[s].expected
  BY ExitFacts
<1>2. SeenBy(s)'  BY <1>1 DEF StageInv, SeenBy, Producers, Range
<1>3. DecisionSound(s)' /\ Passed(s)'  BY <1>1 DEF DecisionSound, Deciding, Passed, Holds
<1>4. \A t \in Stages : t # s => (SeenBy(t) /\ DecisionSound(t) /\ Passed(t))'
  BY <1>1, Undisturbed DEF StageInv
<1>. QED  BY <1>1, <1>2, <1>3, <1>4 DEF StageInv

\* An upload that is taken, with what comes after it.
LEMMA UploadFacts ==
  ASSUME IInv, NEW s \in Stages, stage[s].pc \in {"upload", "uploadAgain"}, Fresh(s),
         build' = Extended(build, Pipeline(s))
  PROVE  BuildInv' /\ Grows /\ \A k \in DOMAIN stage[s].expected :
            /\ k \in DOMAIN build' /\ build'[k].kind = stage[s].expected[k].kind
            /\ build'[k].content = stage[s].expected[k].content
<1>1. StepKey(s) \in DOMAIN build /\ DecidedBy(s)  BY DEF IInv, StageInv, DecisionSound, Deciding
<1>2. Informed(s)  BY <1>1 DEF Informed, IInv, BuildInv, StageInv, SeenSound, DecidedBy
<1>3. stage[s].ask = {} /\ stage[s].create \subseteq {Gate[j] : j \in Jobs}
  BY <1>1 DEF DecidedBy
<1>4. stage[s].expected = Expected(s)  BY <1>1 DEF DecidedBy
<1>5. Taking(s)
  <2>1. ~SkipsAll(s) => UsedGates(s) \ Record(s).gates \subseteq stage[s].create \cup DOMAIN build
    BY <1>1, <1>3 DEF DecidedBy
  <2>. QED  BY <1>2, <1>3, <1>4, <2>1 DEF Taking, IInv
<1>6. BuildInv'  BY <1>5, Taken
<1>7. /\ DOMAIN build' = DOMAIN build \cup DOMAIN Expected(s) \cup stage[s].create
      /\ \A k \in DOMAIN build : build'[k] = build[k]
      /\ \A k \in DOMAIN Expected(s) : k \notin DOMAIN build /\ build'[k] = Expected(s)[k]
  BY <1>3, <1>4, TakenShape
<1>. QED  BY <1>4, <1>6, <1>7 DEF Grows

LEMMA BuildStays ==
  ASSUME build' = build, BuildInv
  PROVE  BuildInv' /\ Grows
<1>1. \A s : Record(s)' = Record(s)  BY DEF Record, StepKey
<1>2. RecordsSound'
  BY <1>1 DEF BuildInv, RecordsSound, NaturalRows, Owned, Own, Chain, RootSet, StepKey
<1>3. GatesPresent'  BY DEF BuildInv, GatesPresent, KeysOfKind, JobOf, Jobs
<1>4. \A r : Values(r)' = Values(r)
  BY <1>1 DEF Values, Compilations, Records, KeysOfKind, StepKey
<1>5. RootsTaken'  BY <1>4 DEF BuildInv, RootsTaken, HasDependents, RootSet, Jobs
<1>6. OneValue'  BY <1>4 DEF BuildInv, OneValue, HasDependents, Matrices, Jobs
<1>7. PlainRoots'  BY DEF BuildInv, PlainRoots, Owned, Own, Chain, RootSet, StepKey, Entry
<1>. QED  BY <1>2, <1>3, <1>5, <1>6, <1>7 DEF BuildInv, Grows

LEMMA InitInv ==
  ASSUME Init
  PROVE  IInv
<1>1. ProducerShape  BY DEF Init, ProducerShape
<1>2. StageShape /\ StageInv
  <2> DEFINE first == [pc |-> "waiting", seen |-> <<>>, expected |-> <<>>, ask |-> {},
                       create |-> {}, runs |-> 0, exit |-> None]
  <2>1. stage = [s \in Stages |-> first]  BY DEF Init
  <2>2. /\ first.pc = "waiting" /\ first.seen = <<>> /\ first.exit = None
        /\ first = [pc |-> first.pc, seen |-> first.seen, expected |-> first.expected,
                    ask |-> first.ask, create |-> first.create,
                    runs |-> first.runs, exit |-> first.exit]
    OBVIOUS
  <2>. HIDE DEF first
  <2>3. StageShape  BY <2>1, <2>2 DEF StageShape
  <2>4. \A s \in Stages : /\ stage[s].pc = "waiting" /\ stage[s].seen = <<>>
                           /\ stage[s].exit = None
    BY <2>1, <2>2
  <2>5. \A s \in Stages : SeenBy(s)  BY <2>4 DEF SeenBy
  <2>6. \A s \in Stages : DecisionSound(s)  BY <2>4 DEF DecisionSound, Deciding
  <2>7. \A s \in Stages : Passed(s)  BY <2>4, BoundsAssumption DEF Passed
  <2>. QED  BY <2>3, <2>5, <2>6, <2>7 DEF StageInv
<1>3. DOMAIN build = {StepKey(s) : s \in {t \in Stages : Parent[t] = None}}  BY DEF Init
<1>4. ASSUME NEW s \in Stages, StepKey(s) \in DOMAIN build
      PROVE  build[StepKey(s)] = Entry("stage", ImporterRecord(s)) /\ Parent[s] = None
  <2>1. PICK t \in {t \in Stages : Parent[t] = None} : StepKey(s) = StepKey(t)  BY <1>3, <1>4
  <2>2. s = t  BY <2>1 DEF StepKey
  <2>3. StepKey(s)[2] = s  BY DEF StepKey
  <2>. QED  BY <1>4, <2>1, <2>2, <2>3 DEF Init
<1>5. \A k \in DOMAIN build : build[k].kind = "stage"  BY <1>3, <1>4, EntryFacts
<1>6. RecordsSound
  BY <1>4 DEF RecordsSound, Record, Entry, ImporterRecord, NaturalRows
<1>7. \A kind : kind # "stage" => KeysOfKind(kind) = {}  BY <1>5 DEF KeysOfKind
<1>8. GatesPresent  BY <1>7 DEF GatesPresent
<1>9. ASSUME NEW r PROVE Values(r) = {}
  <2>1. Compilations(r) = {}  BY <1>7 DEF Compilations
  <2>2. Records(r) = {}  BY <1>4 DEF Records, Record, Entry, ImporterRecord
  <2>. QED  BY <2>1, <2>2 DEF Values
<1>10. \A s \in Stages : \A r \in RootSet(s) : r \notin DOMAIN build
  BY <1>3, KeyAssumption, TopologyAssumption DEF Own
<1>11. RootsTaken /\ OneValue /\ PlainRoots
  BY <1>9, <1>10, TopologyAssumption DEF RootsTaken, OneValue, PlainRoots
<1>. QED  BY <1>1, <1>2, <1>6, <1>8, <1>11 DEF IInv, BuildInv

LEMMA ProducerPreserves ==
  ASSUME IInv, NEW p \in Producers, ProducerStarts(p) \/ ProducerEnds(p)
  PROVE  IInv'
<1>1. build' = build /\ stage' = stage  BY DEF ProducerStarts, ProducerEnds
<1>2. BuildInv' /\ Grows  BY <1>1, BuildStays DEF IInv
<1>3. StageInv'  BY <1>1, <1>2, Undisturbed DEF IInv, StageInv
<1>4. StageShape'  BY <1>1 DEF IInv, StageShape
<1>5. producer[p].attempt \in Nat /\ producer = [q \in Producers |-> producer[q]]
  BY DEF IInv, ProducerShape
<1>6. ProducerShape'
  <2>1. CASE ProducerStarts(p)
    <3>1. producer' = [producer EXCEPT ![p] =
             [attempt |-> producer[p].attempt + 1, state |-> "running", receipt |-> None]]
      BY <2>1 DEF ProducerStarts
    <3>2. producer'[p] \in [attempt : Nat, state : {"new", "running", "ended"},
                            receipt : Outcomes[p] \cup {None}]
      BY <1>5, <3>1
    <3>3. \A q \in Producers : q # p => producer'[q] = producer[q]  BY <1>5, <3>1
    <3>4. producer' = [q \in Producers |-> producer'[q]]  BY <1>5, <3>1
    <3>5. \A q \in Producers : producer'[q] \in [attempt : Nat, state : {"new", "running", "ended"},
                            receipt : Outcomes[q] \cup {None}]
      BY <3>2, <3>3 DEF IInv, ProducerShape
    <3>. QED  BY <3>4, <3>5 DEF ProducerShape, Producers, Range
  <2>2. CASE ProducerEnds(p)
    <3>1. PICK receipt \in Outcomes[p] :
            producer' = [producer EXCEPT ![p].receipt = receipt, ![p].state = "ended"]
      BY <2>2 DEF ProducerEnds
    <3>2. producer'[p] \in [attempt : Nat, state : {"new", "running", "ended"},
                            receipt : Outcomes[p] \cup {None}]
      BY <1>5, <3>1 DEF IInv, ProducerShape
    <3>3. \A q \in Producers : q # p => producer'[q] = producer[q]  BY <1>5, <3>1
    <3>4. producer' = [q \in Producers |-> producer'[q]]  BY <1>5, <3>1
    <3>5. \A q \in Producers : producer'[q] \in [attempt : Nat, state : {"new", "running", "ended"},
                            receipt : Outcomes[q] \cup {None}]
      BY <3>2, <3>3 DEF IInv, ProducerShape
    <3>. QED  BY <3>4, <3>5 DEF ProducerShape, Producers, Range
  <2>. QED  BY <2>1, <2>2
<1>. QED  BY <1>2, <1>3, <1>4, <1>6 DEF IInv

\* A step that reads, asks or moves on leaves the build and the producers.
LEMMA StartPreserves ==
  ASSUME IInv, NEW s \in Stages, StageStarts(s)
  PROVE  IInv'
<1>1. producer' = producer /\ build' = build /\ StepKey(s) \in DOMAIN build  BY DEF StageStarts
<1>2. BuildInv' /\ Grows  BY <1>1, BuildStays DEF IInv
<1>3. PICK runs : stage' = [stage EXCEPT ![s] =
        [pc |-> "read", seen |-> <<>>, expected |-> <<>>, ask |-> {}, create |-> {},
         runs |-> runs, exit |-> None]]
  BY DEF StageStarts
<1>4. StageShape' /\ \A t \in Stages : t # s => stage'[t] = stage[t]
  BY <1>3 DEF IInv, StageShape
<1>5. /\ stage'[s].pc = "read" /\ stage'[s].exit = None
      /\ stage'[s].seen = <<>> /\ stage'[s].create = {}
  BY <1>3 DEF IInv, StageShape
<1>6. SeenBy(s)' /\ Passed(s)'  BY <1>5, BoundsAssumption DEF SeenBy, Passed
<1>7. DecisionSound(s)'
  BY <1>1, <1>5, BoundsAssumption DEF DecisionSound, Deciding, StepKey
<1>8. StageInv'  BY <1>2, <1>4, <1>6, <1>7, Undisturbed DEF IInv, StageInv
<1>. QED  BY <1>1, <1>2, <1>4, <1>8 DEF IInv, ProducerShape, Producers, Range

LEMMA ReadPreserves ==
  ASSUME IInv, NEW s \in Stages, ReadProducer(s)
  PROVE  IInv'
<1> DEFINE p == NextRead(s)
           seen == Extended(stage[s].seen, [q \in {p} |-> Receipt(q)])
<1>1. producer' = producer /\ build' = build /\ stage[s].pc = "read"  BY DEF ReadProducer
<1>2. BuildInv' /\ Grows  BY <1>1, BuildStays DEF IInv
<1>3. Usable(s, p) /\ stage' = [stage EXCEPT ![s].seen = seen]  BY DEF ReadProducer
<1>4. producer[p].receipt # None  BY <1>3 DEF Usable
<1>5. ASSUME NEW q \in DOMAIN seen, q \in Producers PROVE seen[q].receipt \in Outcomes[q]
  <2>1. CASE q \in DOMAIN stage[s].seen
    <3>1. seen[q] = stage[s].seen[q]  BY <2>1 DEF Extended
    <3>. QED  BY <1>5, <2>1, <3>1 DEF IInv, StageInv, SeenBy
  <2>2. CASE q \notin DOMAIN stage[s].seen
    <3>1. q = p /\ seen[q] = Receipt(q)  BY <1>5, <2>2 DEF Extended
    <3>2. seen[q].receipt = producer[q].receipt  BY <3>1 DEF Receipt
    <3>. QED  BY <1>4, <1>5, <3>1, <3>2 DEF IInv, ProducerShape
  <2>. QED  BY <2>1, <2>2
<1>. HIDE DEF seen
<1>6. /\ StageShape' /\ \A t \in Stages : t # s => stage'[t] = stage[t]
      /\ stage'[s].seen = seen /\ stage'[s].pc = stage[s].pc
      /\ stage'[s].exit = stage[s].exit /\ stage'[s].expected = stage[s].expected
      /\ stage'[s].create = stage[s].create
  BY <1>3 DEF IInv, StageShape
<1>7. SeenBy(s)'  BY <1>5, <1>6 DEF SeenBy, Producers, Range
<1>8. Passed(s)'  BY <1>2, <1>6, PassedStays DEF IInv, StageInv
<1>9. DecisionSound(s)'
  BY <1>1, <1>6 DEF IInv, StageInv, DecisionSound, Deciding, StepKey
<1>10. StageInv'  BY <1>2, <1>6, <1>7, <1>8, <1>9, Undisturbed DEF IInv, StageInv
<1>. QED  BY <1>1, <1>2, <1>6, <1>10 DEF IInv, ProducerShape, Producers, Range

LEMMA DecidePreserves ==
  ASSUME IInv, NEW s \in Stages, Decide(s)
  PROVE  IInv'
<1> DEFINE place == IF SkipsAll(s) THEN "upload" ELSE "ask"
           ask == IF SkipsAll(s) THEN {} ELSE UsedGates(s) \ Record(s).gates
           expected == Expected(s)
<1>1. producer' = producer /\ build' = build /\ stage[s].pc = "read" /\ Unread(s) = {}
  BY DEF Decide
<1>2. BuildInv' /\ Grows  BY <1>1, BuildStays DEF IInv
<1>3. stage' = [stage EXCEPT ![s].pc = place, ![s].expected = expected, ![s].ask = ask]
  BY DEF Decide
<1>4. /\ place \in Deciding /\ place \in {"upload", "ask"} /\ (place = "upload" => ask = {})
      /\ ~SkipsAll(s) => ask = UsedGates(s) \ Record(s).gates
  BY DEF Deciding
<1>5. ask \subseteq {Gate[j] : j \in Jobs}
  <2>1. Compiled(s) \subseteq Jobs  BY TopologyAssumption DEF Compiled
  <2>. QED  BY <2>1 DEF UsedGates
<1>6. \A r \in RootSet(s) : Source[r] \in DOMAIN stage[s].seen  BY <1>1 DEF Unread
<1>. HIDE DEF place, ask, expected
<1>7. /\ stage' = [t \in Stages |-> stage'[t]] /\ \A t \in Stages : t # s => stage'[t] = stage[t]
      /\ stage'[s] = [pc |-> place, seen |-> stage[s].seen, expected |-> expected,
                      ask |-> ask, create |-> stage[s].create,
                      runs |-> stage[s].runs, exit |-> stage[s].exit]
  <2> DEFINE old == stage[s]
  <2>1. s \in DOMAIN stage  BY DEF IInv, StageShape
  <2>2. stage'[s] = [old EXCEPT !.pc = place, !.expected = expected, !.ask = ask]  BY <1>3, <2>1
  <2>3. old = [pc |-> old.pc, seen |-> old.seen, expected |-> old.expected, ask |-> old.ask,
               create |-> old.create, runs |-> old.runs, exit |-> old.exit]
    BY DEF IInv, StageShape
  <2>. HIDE DEF old
  <2>4. stage'[s] = [pc |-> place, seen |-> old.seen, expected |-> expected, ask |-> ask,
                     create |-> old.create, runs |-> old.runs, exit |-> old.exit]
    BY <2>2, <2>3
  <2>5. stage' = [t \in Stages |-> stage'[t]] /\ \A t \in Stages : t # s => stage'[t] = stage[t]
    BY <1>3 DEF IInv, StageShape
  <2>. QED  BY <2>4, <2>5 DEF old
<1>8. StageShape'  BY <1>7 DEF IInv, StageShape
<1>9. StepKey(s) \in DOMAIN build /\ stage[s].exit # 0
  BY <1>1 DEF IInv, StageInv, DecisionSound
<1>10. Record(s)' = Record(s)  BY <1>1 DEF Record, StepKey
<1>11. SkipsAll(s)' = SkipsAll(s) /\ UsedGates(s)' = UsedGates(s) /\ Expected(s)' = Expected(s)
  BY <1>7, <1>10, DecisionStable
<1>12. stage[s].create = {}  BY <1>1 DEF IInv, StageInv, DecisionSound
<1>13. DecidedBy(s)'
  BY <1>4, <1>5, <1>6, <1>7, <1>10, <1>11, <1>12 DEF DecidedBy, RootSet, expected
<1>14. SeenBy(s)' /\ Passed(s)'
  BY <1>7, <1>9 DEF IInv, StageInv, SeenBy, Passed, Producers, Range
<1>15. DecisionSound(s)'
  BY <1>1, <1>4, <1>7, <1>9, <1>13 DEF DecisionSound, StepKey
<1>16. StageInv'  BY <1>2, <1>7, <1>14, <1>15, Undisturbed DEF IInv, StageInv
<1>. QED  BY <1>1, <1>2, <1>8, <1>16 DEF IInv, ProducerShape, Producers, Range

\* A step that only moves the run on, or ends it in failure.
LEMMA QuietPreserves ==
  ASSUME IInv, producer' = producer, build' = build, StageShape' /\ StageInv'
  PROVE  IInv'
<1>1. BuildInv'  BY BuildStays DEF IInv
<1>. QED  BY <1>1 DEF IInv, ProducerShape, Producers, Range

LEMMA FailurePreserves ==
  ASSUME IInv, NEW s \in Stages,
         ReadRefused(s) \/ DecideRefused(s) \/ RejectedForGood(s) \/ StageFails(s)
  PROVE  IInv'
<1>1. producer' = producer /\ build' = build /\ Exit(s, 1)
  BY DEF ReadRefused, DecideRefused, RejectedForGood, StageFails
<1>2. Grows  BY <1>1, BuildStays DEF IInv
<1>3. StageShape' /\ StageInv'  BY <1>1, <1>2, FailureStays DEF IInv
<1>. QED  BY <1>1, <1>3, QuietPreserves

LEMMA AskedPreserves ==
  ASSUME IInv, NEW s \in Stages, AllAsked(s)
  PROVE  IInv'
<1> DEFINE place == IF stage[s].pc = "ask" THEN "upload" ELSE "uploadAgain"
<1>1. producer' = producer /\ build' = build /\ stage[s].pc \in {"ask", "askAgain"}
  BY DEF AllAsked
<1>2. Goto(s, place) /\ stage[s].ask = {}  BY DEF AllAsked
<1>3. place \in Deciding /\ stage[s].pc \in Deciding  BY <1>1 DEF Deciding
<1>. HIDE DEF place
<1>4. Grows  BY <1>1, BuildStays DEF IInv
<1>5. StageShape' /\ StageInv'  BY <1>2, <1>3, <1>4, MoveStays DEF IInv
<1>. QED  BY <1>1, <1>5, QuietPreserves

\* A gate that is asked for is in the build, or the run creates it.
LEMMA AskPreserves ==
  ASSUME IInv, NEW s \in Stages, AskGate(s)
  PROVE  IInv'
<1>1. producer' = producer /\ build' = build /\ stage[s].pc \in {"ask", "askAgain"}
  BY DEF AskGate
<1>2. PICK g \in stage[s].ask, answered \in BOOLEAN :
        stage' = [stage EXCEPT ![s].ask = @ \ {g},
                    ![s].create = IF answered /\ g \in DOMAIN build THEN @ ELSE @ \cup {g}]
  BY DEF AskGate
<1> DEFINE ask == stage[s].ask \ {g}
           create == IF answered /\ g \in DOMAIN build THEN stage[s].create
                     ELSE stage[s].create \cup {g}
<1>3. stage' = [stage EXCEPT ![s].ask = ask, ![s].create = create]  BY <1>2
<1>4. stage[s].ask \cup stage[s].create \subseteq ask \cup create \cup DOMAIN build
  OBVIOUS
<1>5. ask \cup create \subseteq stage[s].ask \cup stage[s].create
  OBVIOUS
<1>. HIDE DEF ask, create
<1>6. /\ StageShape' /\ \A t \in Stages : t # s => stage'[t] = stage[t]
      /\ stage'[s].pc = stage[s].pc /\ stage'[s].exit = stage[s].exit
      /\ stage'[s].seen = stage[s].seen /\ stage'[s].expected = stage[s].expected
      /\ stage'[s].ask = ask /\ stage'[s].create = create
  <2> DEFINE old == stage[s]
  <2>1. s \in DOMAIN stage  BY DEF IInv, StageShape
  <2>2. stage'[s] = [old EXCEPT !.ask = ask, !.create = create]  BY <1>3, <2>1
  <2>3. old = [pc |-> old.pc, seen |-> old.seen, expected |-> old.expected, ask |-> old.ask,
               create |-> old.create, runs |-> old.runs, exit |-> old.exit]
    BY DEF IInv, StageShape
  <2>. HIDE DEF old
  <2>4. stage'[s] = [pc |-> old.pc, seen |-> old.seen, expected |-> old.expected, ask |-> ask,
                     create |-> create, runs |-> old.runs, exit |-> old.exit]
    BY <2>2, <2>3
  <2>5. stage' = [t \in Stages |-> stage'[t]] /\ \A t \in Stages : t # s => stage'[t] = stage[t]
    BY <1>3 DEF IInv, StageShape
  <2>6. StageShape'  BY <2>4, <2>5 DEF IInv, StageShape
  <2>. QED  BY <2>4, <2>5, <2>6 DEF old
<1>7. SeenBy(s) /\ DecisionSound(s) /\ Passed(s)  BY DEF IInv, StageInv
<1>8. StepKey(s) \in DOMAIN build /\ stage[s].exit # 0 /\ DecidedBy(s)
  BY <1>1, <1>7 DEF DecisionSound, Deciding
<1>9. DecidedBy(s)'
  <2>1. /\ stage'[s].ask \cup stage'[s].create \subseteq {Gate[j] : j \in Jobs}
        /\ ~SkipsAll(s) => UsedGates(s) \ Record(s).gates \subseteq
                             stage'[s].ask \cup stage'[s].create \cup DOMAIN build
    BY <1>4, <1>5, <1>6, <1>8 DEF DecidedBy
  <2>2. stage'[s].pc \notin {"upload", "uploadAgain", "rejected"}  BY <1>1, <1>6
  <2>3. Grows  BY <1>1, BuildStays DEF IInv
  <2>. QED  BY <1>1, <1>6, <1>8, <2>1, <2>2, <2>3, DecidedStays
<1>10. SeenBy(s)' /\ Passed(s)'
  BY <1>6, <1>7, <1>8 DEF SeenBy, Passed, Producers, Range
<1>11. DecisionSound(s)'
  BY <1>1, <1>6, <1>8, <1>9 DEF DecisionSound, StepKey
<1>12. Grows  BY <1>1, BuildStays DEF IInv
<1>13. StageInv'  BY <1>6, <1>10, <1>11, <1>12, Undisturbed DEF IInv, StageInv
<1>. QED  BY <1>1, <1>6, <1>13, QuietPreserves

\* A gate that made the refusal is in the build; the run asks for the others
\* again.
LEMMA RacePreserves ==
  ASSUME IInv, NEW s \in Stages, GateRace(s)
  PROVE  IInv'
<1>1. producer' = producer /\ build' = build /\ stage[s].pc = "rejected"
  BY DEF GateRace
<1>2. PICK raced \in SUBSET Raced(s) \ {{}} :
        stage' = [stage EXCEPT ![s].pc = "askAgain", ![s].create = {},
                     ![s].ask = (UsedGates(s) \ Record(s).gates) \ raced]
  BY DEF GateRace
<1> DEFINE ask == (UsedGates(s) \ Record(s).gates) \ raced
<1>3. stage' = [stage EXCEPT ![s].pc = "askAgain", ![s].create = {}, ![s].ask = ask]  BY <1>2
<1>4. raced \subseteq DOMAIN build  BY DEF Raced
<1>5. UsedGates(s) \ Record(s).gates \subseteq ask \cup DOMAIN build  BY <1>4
<1>6. ask \subseteq {Gate[j] : j \in Jobs}
  <2>1. Compiled(s) \subseteq Jobs  BY TopologyAssumption DEF Compiled
  <2>. QED  BY <2>1 DEF UsedGates
<1>. HIDE DEF ask
<1>7. /\ StageShape' /\ \A t \in Stages : t # s => stage'[t] = stage[t]
      /\ stage'[s].pc = "askAgain" /\ stage'[s].exit = stage[s].exit
      /\ stage'[s].seen = stage[s].seen /\ stage'[s].expected = stage[s].expected
      /\ stage'[s].ask = ask /\ stage'[s].create = {}
  <2> DEFINE old == stage[s]
  <2>1. s \in DOMAIN stage  BY DEF IInv, StageShape
  <2>2. stage'[s] = [old EXCEPT !.pc = "askAgain", !.create = {}, !.ask = ask]  BY <1>3, <2>1
  <2>3. old = [pc |-> old.pc, seen |-> old.seen, expected |-> old.expected, ask |-> old.ask,
               create |-> old.create, runs |-> old.runs, exit |-> old.exit]
    BY DEF IInv, StageShape
  <2>. HIDE DEF old
  <2>4. stage'[s] = [pc |-> "askAgain", seen |-> old.seen, expected |-> old.expected,
                     ask |-> ask, create |-> {}, runs |-> old.runs, exit |-> old.exit]
    BY <2>2, <2>3
  <2>5. stage' = [t \in Stages |-> stage'[t]] /\ \A t \in Stages : t # s => stage'[t] = stage[t]
    BY <1>3 DEF IInv, StageShape
  <2>6. StageShape'  BY <2>4, <2>5 DEF IInv, StageShape
  <2>. QED  BY <2>4, <2>5, <2>6 DEF old
<1>8. SeenBy(s) /\ DecisionSound(s) /\ Passed(s)  BY DEF IInv, StageInv
<1>9. StepKey(s) \in DOMAIN build /\ stage[s].exit # 0 /\ DecidedBy(s)
  BY <1>1, <1>8 DEF DecisionSound, Deciding
<1>10. Grows  BY <1>1, BuildStays DEF IInv
<1>11. DecidedBy(s)'
  <2>1. stage'[s].ask \cup stage'[s].create \subseteq {Gate[j] : j \in Jobs}  BY <1>6, <1>7
  <2>2. UsedGates(s) \ Record(s).gates \subseteq
          stage'[s].ask \cup stage'[s].create \cup DOMAIN build
    BY <1>5, <1>7
  <2>. QED  BY <1>7, <1>9, <1>10, <2>1, <2>2, DecidedStays
<1>12. SeenBy(s)' /\ Passed(s)'
  BY <1>7, <1>8, <1>9 DEF SeenBy, Passed, Producers, Range
<1>13. DecisionSound(s)'
  BY <1>1, <1>7, <1>9, <1>11 DEF DecisionSound, StepKey
<1>14. StageInv'  BY <1>7, <1>10, <1>12, <1>13, Undisturbed DEF IInv, StageInv
<1>. QED  BY <1>1, <1>7, <1>14, QuietPreserves

\* Where an upload is refused, or its answer is lost.
LEMMA RejectionStays ==
  ASSUME IInv, NEW s \in Stages, stage[s].pc \in {"upload", "uploadAgain"}, Grows,
         Rejected(s) \/ Exit(s, 1)
  PROVE  StageShape' /\ StageInv'
<1>1. CASE Exit(s, 1)  BY <1>1, FailureStays DEF IInv
<1>2. CASE Goto(s, "rejected")
  <2>1. stage[s].pc \in Deciding /\ "rejected" \in Deciding  BY DEF Deciding
  <2>2. stage[s].ask = {}  BY <2>1 DEF IInv, StageInv, DecisionSound, DecidedBy
  <2>. QED  BY <1>2, <2>1, <2>2, MoveStays DEF IInv
<1>. QED  BY <1>1, <1>2 DEF Rejected

LEMMA UploadPreserves ==
  ASSUME IInv, NEW s \in Stages, UploadTaken(s) \/ UploadRefused(s) \/ UploadLost(s)
  PROVE  IInv'
<1>1. stage[s].pc \in {"upload", "uploadAgain"} /\ producer' = producer
  BY DEF UploadTaken, UploadRefused, UploadLost
<1>2. CASE UploadTaken(s)
  <2>1. Fresh(s) /\ build' = Extended(build, Pipeline(s)) /\ Exit(s, 0)
    BY <1>2 DEF UploadTaken
  <2>2. BuildInv' /\ Grows /\ \A k \in DOMAIN stage[s].expected :
            /\ k \in DOMAIN build' /\ build'[k].kind = stage[s].expected[k].kind
            /\ build'[k].content = stage[s].expected[k].content
    BY <1>1, <2>1, UploadFacts
  <2>3. StageShape' /\ StageInv'  BY <2>1, <2>2, PassStays DEF IInv
  <2>. QED  BY <1>1, <2>2, <2>3 DEF IInv, ProducerShape, Producers, Range
<1>3. CASE UploadRefused(s)
  <2>1. Rejected(s) /\ build' = build  BY <1>3 DEF UploadRefused
  <2>2. Grows  BY <2>1, BuildStays DEF IInv
  <2>3. StageShape' /\ StageInv'  BY <1>1, <2>1, <2>2, RejectionStays
  <2>. QED  BY <1>1, <2>1, <2>3, QuietPreserves
<1>4. CASE UploadLost(s)
  <2>1. Rejected(s) \/ Exit(s, 1)  BY <1>4 DEF UploadLost
  <2>2. BuildInv' /\ Grows
    <3>1. CASE build' = build  BY <3>1, BuildStays DEF IInv
    <3>2. CASE Fresh(s) /\ build' = Extended(build, Pipeline(s))
      BY <1>1, <3>2, UploadFacts
    <3>. QED  BY <1>4, <3>1, <3>2 DEF UploadLost
  <2>3. StageShape' /\ StageInv'  BY <1>1, <2>1, <2>2, RejectionStays
  <2>. QED  BY <1>1, <2>2, <2>3 DEF IInv, ProducerShape, Producers, Range
<1>. QED  BY <1>2, <1>3, <1>4

\* What is taken for an earlier run's upload is what this run expects: where
\* only the labels are compared, the key of the root is a placeholder's, and
\* that came with the placeholders of all other jobs.
LEMMA ReplayPreserves ==
  ASSUME IInv, NEW s \in Stages, Replayed(s)
  PROVE  IInv'
<1>1. /\ producer' = producer /\ build' = build /\ Exit(s, 0)
      /\ stage[s].pc = "rejected" /\ AlreadyApplied(s)
  BY DEF Replayed
<1>2. Grows  BY <1>1, BuildStays DEF IInv
<1>3. StepKey(s) \in DOMAIN build /\ DecidedBy(s)
  BY <1>1 DEF IInv, StageInv, DecisionSound, Deciding
<1>4. Informed(s)  BY <1>3 DEF Informed, IInv, BuildInv, StageInv, SeenSound, DecidedBy
<1>5. stage[s].expected = Expected(s)  BY <1>3 DEF DecidedBy
<1>6. ASSUME NEW k \in DOMAIN stage[s].expected
      PROVE  Holds(k, stage[s].expected[k])
  <2>1. CASE ~SkipsAll(s)  BY <1>1, <1>6, <2>1 DEF AlreadyApplied
  <2>2. CASE SkipsAll(s)
    <3>1. /\ DOMAIN Expected(s) = Owned(s)
          /\ \A j \in Owned(s) : Expected(s)[j] = Entry("skip", None)
      BY <1>4, <2>2, PlainFacts
    <3>2. Owned(s) \subseteq DOMAIN build  BY <1>1, <1>5, <2>2, <3>1 DEF AlreadyApplied
    <3>3. Len(Roots[s]) = 1  BY <2>2 DEF SkipsAll
    <3>4. PICK r : r \in RootSet(s)  BY RootFacts
    <3>5. r \in DOMAIN build  BY <3>2, <3>4, OwnedFacts DEF Own
    <3>6. \A j \in Owned(s) : j \in DOMAIN build /\ build[j] = Entry("skip", None)
      BY <1>3, <3>3, <3>4, <3>5 DEF IInv, BuildInv, PlainRoots
    <3>7. k \in Owned(s)  BY <1>5, <1>6, <3>1
    <3>8. Expected(s)[k] = build[k] /\ k \in DOMAIN build  BY <3>1, <3>6, <3>7
    <3>. QED  BY <1>5, <3>8 DEF Holds
  <2>. QED  BY <2>1, <2>2
<1>7. StageShape' /\ StageInv'  BY <1>1, <1>2, <1>6, PassStays DEF IInv, Holds
<1>. QED  BY <1>1, <1>7, QuietPreserves

-----------------------------------------------------------------------------
(* The theorems.                                                           *)

LEMMA NextPreserves ==
  ASSUME IInv, [Next]_vars
  PROVE  IInv'
<1>1. ASSUME NEW p \in Producers, ProducerStarts(p) \/ ProducerEnds(p) PROVE IInv'
  BY <1>1, ProducerPreserves
<1>2. ASSUME NEW s \in Stages, StageStep(s) PROVE IInv'
  <2>1. CASE StageStarts(s)  BY <2>1, StartPreserves
  <2>2. CASE ReadProducer(s)  BY <2>2, ReadPreserves
  <2>3. CASE Decide(s)  BY <2>3, DecidePreserves
  <2>4. CASE ReadRefused(s) \/ DecideRefused(s) \/ RejectedForGood(s) \/ StageFails(s)
    BY <2>4, FailurePreserves
  <2>5. CASE AskGate(s)  BY <2>5, AskPreserves
  <2>6. CASE AllAsked(s)  BY <2>6, AskedPreserves
  <2>7. CASE UploadTaken(s) \/ UploadRefused(s) \/ UploadLost(s)  BY <2>7, UploadPreserves
  <2>8. CASE Replayed(s)  BY <2>8, ReplayPreserves
  <2>9. CASE GateRace(s)  BY <2>9, RacePreserves
  <2>. QED
    BY <1>2, <2>1, <2>2, <2>3, <2>4, <2>5, <2>6, <2>7, <2>8, <2>9 DEF StageStep
<1>3. CASE UNCHANGED vars
  <2>1. producer' = producer /\ build' = build /\ stage' = stage  BY <1>3 DEF vars
  <2>2. Grows  BY <2>1, BuildStays DEF IInv
  <2>3. StageShape' /\ StageInv'
    BY <2>1, <2>2, Undisturbed DEF IInv, StageInv, StageShape
  <2>. QED  BY <2>1, <2>3, QuietPreserves
<1>. QED  BY <1>1, <1>2, <1>3 DEF Next

\* The invariant of the build and of the runs: an upload that expands or skips
\* a root has all dependents of the root's stage, so that Buildkite refuses
\* every other; what a run has decided stays what it would decide.
THEOREM UploadInvariant == Spec => []IInv
<1>1. IInv /\ [Next]_vars => IInv'  BY NextPreserves
<1>. QED  BY <1>1, InitInv, PTL DEF Spec

\* No job gets into the build without its approval gate, whoever creates it
\* and whatever fails (deferredPipeline, uploadAfterGateRace).
THEOREM GatesArePresent == Spec => []GatesPresent
<1>1. IInv => GatesPresent  BY DEF IInv, BuildInv
<1>. QED  BY <1>1, UploadInvariant, PTL

\* A component with dependents is expanded once, however often its producers
\* and its stages are retried.
THEOREM ExpandedOnce == Spec => []OneExpansion
<1>1. ASSUME IInv PROVE OneExpansion
  <2> SUFFICES ASSUME NEW r \in Matrices, HasDependents(r)
               PROVE LET Of == {k \in KeysOfKind("job") : r \in DOMAIN build[k].content} IN
                       /\ \A k, l \in Of : build[k].content[r] = build[l].content[r]
                       /\ r \in KeysOfKind("skip") => \A k \in Of : build[k].content[r] = {}
    BY DEF OneExpansion
  <2>1. \A k \in Compilations(r) : build[k].content[r] \in Values(r)  BY DEF Values
  <2>2. /\ \A v, w \in Values(r) : v = w
        /\ r \in DOMAIN build => Values(r) \subseteq {{}}
    BY <1>1 DEF IInv, BuildInv, OneValue
  <2>3. r \in KeysOfKind("skip") => r \in DOMAIN build  BY DEF KeysOfKind
  <2>4. Compilations(r) = {k \in KeysOfKind("job") : r \in DOMAIN build[k].content}
    BY DEF Compilations
  <2>5. \A k, l \in Compilations(r) : build[k].content[r] = build[l].content[r]
    BY <2>1, <2>2
  <2>6. r \in KeysOfKind("skip") => \A k \in Compilations(r) : build[k].content[r] = {}
    BY <2>1, <2>2, <2>3
  <2>. QED  BY <2>4, <2>5, <2>6
<1>. QED  BY <1>1, UploadInvariant, PTL

\* A stage that passes has in the build what its own run decided, also where
\* alreadyApplied compares labels only (upload_stage.go, alreadyApplied).
THEOREM PassIsApplied == Spec => []PassHonest
<1>1. IInv => PassHonest  BY DEF IInv, StageInv, Passed, PassHonest
<1>. QED  BY <1>1, UploadInvariant, PTL

-----------------------------------------------------------------------------
(* Selection of workflows.  Filters: the condition, the matcher and GitHub  *)
(* say the same of a name.                                                 *)

LEMMA BelowWellFounded == IsWellFoundedOn({ss \in Nat \X Nat : ss[1] < ss[2]}, Nat)
BY ONLY NatLessThanWellFounded DEF OpToRel

\* Every set of natural numbers has a least element.
LEMMA LeastNatural ==
    ASSUME NEW S \in SUBSET Nat, S # {}
    PROVE  \E m \in S : \A k \in S : m <= k
<1> DEFINE R == {ss \in Nat \X Nat : ss[1] < ss[2]}
<1>1. \A k, m \in Nat : <<k, m>> \in R <=> k < m
  OBVIOUS
<1>2. IsWellFoundedOn(R, Nat)
  BY BelowWellFounded
<1> HIDE DEF R
<1>3. PICK m \in S : \A k \in S : <<k, m>> \notin R
  BY <1>2, WFMin
<1>4. \A k \in S : m <= k
  <2> TAKE k \in S
  <2>1. ~ (k < m)
    BY <1>1, <1>3
  <2> QED
    BY <2>1
<1> QED
  BY <1>4

\* What the first i patterns of a filter say of a name.
Says(f, name, i) ==
    \/ \E k \in 1 .. i :
          /\ name \in f.patterns[k].match /\ f.patterns[k].positive /\ ~f.ignore
          /\ \A j \in k + 1 .. i : name \in f.patterns[j].match => f.patterns[j].positive
    \/ f.ignore /\ \A k \in 1 .. i : name \notin f.patterns[k].match

LEMMA SaysLast ==
    ASSUME NEW f, f # none, IsFilter(f), NEW name
    PROVE  LastDecides(f, name) <=> Says(f, name, Len(f.patterns))
BY DEF IsFilter, LastDecides, Says

\* A pattern more.
LEMMA SaysNext ==
    ASSUME NEW f, f # none, IsFilter(f), NEW name, NEW i \in 1 .. Len(f.patterns)
    PROVE  Says(f, name, i) <=>
             IF f.patterns[i].positive /\ ~f.ignore
             THEN Says(f, name, i - 1) \/ name \in f.patterns[i].match
             ELSE Says(f, name, i - 1) /\ name \notin f.patterns[i].match
<1>1. i \in Nat /\ i # 0 /\ i \in 1 .. i /\ \A k \in 1 .. i : k # i => k \in 1 .. i - 1
  BY DEF IsFilter
<1>2. \A k \in 1 .. i - 1 : i \in k + 1 .. i /\ k \in 1 .. i /\ \A j \in k + 1 .. i : j # i => j \in k + 1 .. i - 1
  BY <1>1
<1>3. \A k \in 1 .. i - 1 : \A j \in k + 1 .. i - 1 : j \in k + 1 .. i
  BY <1>1
<1>4. \A j \in i + 1 .. i : FALSE
  BY <1>1
<1>5. f.ignore \in BOOLEAN /\ f.patterns[i].positive \in BOOLEAN
  BY DEF IsFilter
<1>6. CASE f.ignore
  BY <1>1, <1>2, <1>5, <1>6 DEF Says
<1>7. CASE ~f.ignore
  <2>1. CASE name \in f.patterns[i].match /\ f.patterns[i].positive
    BY <1>1, <1>4, <1>7, <2>1 DEF Says
  <2>2. CASE name \in f.patterns[i].match /\ ~f.patterns[i].positive
    BY <1>1, <1>2, <1>7, <2>2 DEF Says
  <2>3. CASE name \notin f.patterns[i].match
    BY <1>1, <1>2, <1>3, <1>7, <2>3 DEF Says
  <2> QED
    BY <2>1, <2>2, <2>3
<1> QED
  BY <1>6, <1>7

LEMMA ConditionIsLast ==
    ASSUME NEW f, IsFilter(f), NEW name
    PROVE  Condition(f, name) <=> LastDecides(f, name)
<1>1. CASE f = none
  BY <1>1 DEF Condition, LastDecides
<1>2. CASE f # none
  <2> DEFINE D == 0 .. Len(f.patterns)
             Level(g, i) ==
                IF i = 0 THEN f.ignore
                ELSE IF f.patterns[i].positive /\ ~f.ignore
                     THEN g[i - 1] \/ name \in f.patterns[i].match
                     ELSE g[i - 1] /\ name \notin f.patterns[i].match
             Is(g) == g = [i \in D |-> Level(g, i)]
             said == [i \in D |-> Says(f, name, i)]
             built == CHOOSE g : Is(g)
  <2>1. Condition(f, name) <=> built[Len(f.patterns)]
    BY <1>2 DEF Condition
  <2>2. Len(f.patterns) \in Nat /\ f.ignore \in BOOLEAN
    BY <1>2 DEF IsFilter
  <2>3. Says(f, name, 0) <=> f.ignore
    BY <2>2 DEF Says
  <2>4. \A i \in D : i # 0 => i \in 1 .. Len(f.patterns) /\ i - 1 \in D
    BY <2>2
  <2>5. ASSUME NEW i \in D, NEW g, i # 0 => (g[i - 1] <=> Says(f, name, i - 1))
        PROVE  Level(g, i) <=> Says(f, name, i)
    <3>1. CASE i = 0
      BY <2>3, <3>1
    <3>2. CASE i # 0
      BY <1>2, <2>4, <2>5, <3>2, SaysNext
    <3> QED
      BY <3>1, <3>2
  <2> HIDE DEF Level
  <2>6. Is(said)
    <3>1. ASSUME NEW i \in D
          PROVE  Says(f, name, i) = Level(said, i)
      <4>1. i # 0 => (said[i - 1] <=> Says(f, name, i - 1))
        BY <2>4
      <4> HIDE DEF said
      <4>2. Level(said, i) <=> Says(f, name, i)
        BY <2>5, <4>1
      <4>3. Says(f, name, i) \in BOOLEAN
        BY DEF Says
      <4>4. Level(said, i) \in BOOLEAN
        BY <2>2 DEF Level
      <4> QED
        BY <4>2, <4>3, <4>4
    <3> QED
      BY <3>1
  <2>7. Is(built)
    <3> HIDE DEF Is, said
    <3> QED
      BY <2>6
  <2> HIDE DEF built, said
  <2>8. \A i \in D : built[i] = Level(built, i)
    BY ONLY <2>7
  <2> DEFINE Wrong == {i \in D : ~(built[i] <=> Says(f, name, i))}
  <2>9. Wrong = {}
    <3> SUFFICES ASSUME Wrong # {} PROVE FALSE
      OBVIOUS
    <3>1. Wrong \subseteq Nat
      BY <2>2
    <3>2. PICK i \in Wrong : \A k \in Wrong : i <= k
      BY <3>1, LeastNatural
    <3>3. i \in D /\ i \in Nat
      BY <2>2
    <3>4. i # 0 => i - 1 \in D /\ i - 1 \notin Wrong
      BY <2>4, <3>1, <3>2, <3>3
    <3>5. i # 0 => (built[i - 1] <=> Says(f, name, i - 1))
      BY <3>4
    <3>6. built[i] <=> Says(f, name, i)
      BY <2>5, <2>8, <3>3, <3>5
    <3> QED
      BY <3>6
  <2>10. Len(f.patterns) \in D
    BY <2>2
  <2> QED
    BY <1>2, <2>1, <2>9, <2>10, SaysLast
<1> QED
  BY <1>1, <1>2

LEMMA MatchesIsLast ==
    ASSUME NEW f, IsFilter(f), NEW name
    PROVE  Matches(f, name) <=> LastDecides(f, name)
<1>1. CASE f = none
  BY <1>1 DEF Matches, LastDecides
<1>2. CASE f # none
  <2> DEFINE n == Len(f.patterns)
             hits == {i \in DOMAIN f.patterns : name \in f.patterns[i].match}
             last == Max(hits)
  <2>1. n \in Nat /\ DOMAIN f.patterns = 1 .. n /\ f.ignore \in BOOLEAN
    BY <1>2 DEF IsFilter
  <2>2. CASE hits = {}
    <3>1. Matches(f, name) <=> f.ignore
      BY <1>2, <2>2 DEF Matches
    <3> QED
      BY <1>2, <2>1, <2>2, <3>1 DEF LastDecides
  <2>3. CASE hits # {}
    <3>1. Matches(f, name) <=> f.patterns[last].positive /\ ~f.ignore
      BY <1>2, <2>3 DEF Matches
    <3>2. last \in hits /\ \A i \in hits : i <= last
      <4> DEFINE Rest == {m \in Nat : \E i \in hits : m = n - i}
      <4>1. Rest # {}
        <5>1. PICK i \in hits : TRUE
          BY <2>3
        <5>2. n - i \in Nat
          BY <2>1
        <5> QED
          BY <5>2
      <4>2. PICK m \in Rest : \A k \in Rest : m <= k
        BY <4>1, LeastNatural
      <4>3. PICK i \in hits : m = n - i
        BY <4>2
      <4>4. \A j \in hits : i >= j
        <5> TAKE j \in hits
        <5>1. n - j \in Rest
          BY <2>1
        <5>2. m <= n - j
          BY <4>2, <5>1
        <5>3. i \in 1 .. n /\ j \in 1 .. n
          BY <2>1
        <5> QED
          BY ONLY <2>1, <4>3, <5>2, <5>3
      <4>5. hits \subseteq Nat
        BY <2>1
      <4> HIDE DEF hits
      <4>6. last \in hits /\ \A j \in hits : last >= j
        BY <4>3, <4>4 DEF Max
      <4> QED
        BY <4>5, <4>6
    <3> HIDE DEF last
    <3>3. last \in 1 .. n /\ name \in f.patterns[last].match /\ last \in Nat
      BY <2>1, <3>2
    <3>4. \A j \in last + 1 .. n : name \notin f.patterns[j].match
      <4> SUFFICES ASSUME NEW j \in last + 1 .. n, name \in f.patterns[j].match
                   PROVE  FALSE
        OBVIOUS
      <4>1. j \in 1 .. n
        BY <2>1, <3>3
      <4>2. j <= last
        BY <2>1, <3>2, <4>1
      <4> QED
        BY <2>1, <3>3, <4>2
    <3>5. ASSUME f.patterns[last].positive, ~f.ignore
          PROVE  LastDecides(f, name)
      BY <2>1, <3>3, <3>4, <3>5 DEF LastDecides
    <3>6. ASSUME LastDecides(f, name)
          PROVE  f.patterns[last].positive /\ ~f.ignore
      <4>1. PICK i \in 1 .. n :
              /\ name \in f.patterns[i].match /\ f.patterns[i].positive /\ ~f.ignore
              /\ \A j \in i + 1 .. n : name \in f.patterns[j].match => f.patterns[j].positive
        BY <1>2, <2>1, <3>3, <3>6 DEF LastDecides
      <4>2. i <= last
        BY <2>1, <3>2, <4>1
      <4>3. i # last => last \in i + 1 .. n
        BY <2>1, <3>3, <4>2
      <4> QED
        BY <3>3, <4>1, <4>3
    <3> QED
      BY <3>1, <3>5, <3>6
  <2> QED
    BY <2>2, <2>3
<1> QED
  BY <1>1, <1>2

\* All readings of a filter agree.
LEMMA PassesAgree ==
    ASSUME NEW how \in {"condition", "matcher", "github"}, NEW f, IsFilter(f), NEW name
    PROVE  Passes(how, f, name) <=> LastDecides(f, name)
BY ConditionIsLast, MatchesIsLast DEF Passes
-----------------------------------------------------------------------------
(* The event of a build.                                                   *)

ReadEvents == {"paths", "select", "uploaded", "evaluated"}

\* Buildkite knows the event that the importer takes the build for.
EventInv ==
    /\ event.name # "workflow_call"
    /\ event.name = "push" => event.ref.kind \in {"tag", "branch"}
    /\ env.github \in {none, event.name} => Live(event.name)
    /\ event.origin = "webhook" => hook # none

LEMMA EventsAre ==
    ASSUME Genuine(scene)
    PROVE  /\ GitHubEvent # "workflow_call" /\ SourceEvent # "workflow_call"
           /\ none \notin Direct \cup Hooked \cup {"push", "schedule", "pull_request"}
           /\ env.github = none /\ GitHubEvent # none => Live(GitHubEvent)
           /\ env.github = none /\ SourceEvent # "error" => Live(SourceEvent)
<1>1. GitHubEvent # "workflow_call" /\ BuildEvent \in {"push", "schedule", "pull_request"}
  BY NoneAssumption DEF Genuine, GitHubEvent, BuildEvent, env, SupportedEvents
<1>2. none \notin Direct \cup Hooked \cup {"push", "schedule", "pull_request"}
  BY NoneAssumption DEF SupportedEvents, Active, Activities, Direct, Hooked
<1>3. SourceEvent # "workflow_call"
  BY <1>1 DEF SourceEvent
<1>4. ASSUME env.github = none, GitHubEvent # none
      PROVE  Live(GitHubEvent)
  BY <1>4 DEF GitHubEvent, Live
<1>5. ASSUME env.github = none, Fallback
      PROVE  Live(BuildEvent)
  BY <1>5 DEF BuildEvent, Live
<1>6. ASSUME env.github = none, SourceEvent # "error", SourceEvent # GitHubEvent
      PROVE  Fallback /\ SourceEvent = BuildEvent
  <2>1. SourceEvent = BuildEvent
    BY <1>6 DEF SourceEvent
  <2>2. GitHubEvent \notin Direct
    BY <1>6 DEF SourceEvent
  <2>3. GitHubEvent # "pull_request_review"
    BY <1>6 DEF SourceEvent, Hooked
  <2>4. env.buildkite \in {"Odd", GitHubEvent}
    BY <1>6 DEF GitHubEvent
  <2> QED
    BY <1>6, <2>1, <2>2, <2>3, <2>4 DEF Fallback, Direct
<1>7. ASSUME env.github = none, SourceEvent # "error"
      PROVE  Live(SourceEvent)
  <2>1. CASE SourceEvent = GitHubEvent
    <3>1. GitHubEvent # none
      BY <1>2, <1>7, <2>1, <1>1 DEF SourceEvent
    <3> QED
      BY <1>4, <1>7, <2>1, <3>1
  <2>2. CASE SourceEvent # GitHubEvent
    BY <1>5, <1>6, <1>7, <2>2
  <2> QED
    BY <2>1, <2>2
<1> QED
  BY <1>1, <1>2, <1>3, <1>4, <1>7

LEMMA EventStep ==
    ASSUME Genuine(scene), LoadWebhook \/ LoadBuild, pc' # "failed"
    PROVE  EventInv' /\ pc' = "paths" /\ UNCHANGED <<scene, paths, pathError, verified, selection, ran>>
<1> DEFINE e == IF GitHubEvent # none THEN GitHubEvent ELSE SourceEvent
<1>1. PICK n, payload, origin :
        /\ Effective(n, payload, origin) /\ SourceEvent # "error"
        /\ \/ origin = "webhook" /\ hook # none /\ n = e
           \/ origin = "build" /\ n = SourceEvent
  <2>1. CASE LoadWebhook
    BY <2>1 DEF LoadWebhook, Fails
  <2>2. CASE LoadBuild
    BY <2>2 DEF LoadBuild, Fails
  <2> QED
    BY <2>1, <2>2
<1>2. n # "workflow_call" /\ (env.github = none => Live(n))
  BY <1>1, EventsAre
<1>3. env.github = n => Live(n)
  BY DEF Live
<1>4. /\ event'.name = n /\ event'.ref = SourceRef(n) /\ event'.origin = origin
      /\ scene' = scene /\ pc' = "paths"
      /\ UNCHANGED <<scene, paths, pathError, verified, selection, ran>>
  BY <1>1 DEF Effective
<1>5. n = "push" => SourceRef(n).kind \in {"tag", "branch"}
  BY DEF SourceRef
<1>6. Live(n) => Live(event.name)'
  BY <1>4 DEF Live, Fallback, env
<1> QED
  BY <1>1, <1>2, <1>3, <1>4, <1>5, <1>6 DEF EventInv, env, hook

LEMMA EventStays ==
    ASSUME EventInv, UNCHANGED <<scene, event>>
    PROVE  EventInv'
<1>1. Live(event.name)' <=> Live(event.name)
  BY DEF Live, Fallback, env
<1> QED
  BY <1>1 DEF EventInv, env, hook

-----------------------------------------------------------------------------
(* The paths: a base that is found is the one GitHub compares with.        *)

\* The paths are those that happened to change.
Evidence == \E b \in TrueBase : TrueBase = {b} /\ paths = Diff(b, scene.happened.after)

\* What is known of the paths that a workflow asks for.
PathsInv ==
    \A w \in Filtered : PathsCount =>
        IF event.origin = "webhook"
        THEN \/ w \in pathError /\ w \notin verified
             \/ /\ workflows[w].triggers = workflows[w].committed
                /\ w \in pathError \/ Evidence
        ELSE Changed(w) = none

LEMMA SingleIs ==
    ASSUME NEW S, Single(S)
    PROVE  /\ (CHOOSE c \in S : TRUE) \in S
           /\ S = {CHOOSE c \in S : TRUE}
BY DEF Single

LEMMA PushBaseIsTrue ==
    ASSUME Genuine(scene), hook # none, event.name = "push", PushIdentified, PushBase # none
    PROVE  TrueBase = {PushBase} /\ hook.after = scene.happened.after
<1> DEFINE push == scene.happened
<1>1. Tells(hook, push) /\ checkout.have \subseteq Commits
  BY DEF Genuine, PushIdentified, hook, checkout
<1>2. hook.before = push.before /\ hook.after = push.after /\ (hook.created <=> push.before = zero)
  BY <1>1 DEF Tells, PushIdentified
<1>3. CASE ~hook.created
  <2>1. PushBase = hook.before
    BY <1>3 DEF PushBase
  <2> QED
    BY <1>2, <1>3, <2>1 DEF TrueBase
<1>4. CASE hook.created
  <2>1. PushBase = NewBranchBase /\ hook.commits # none /\ ~(Cardinality(hook.commits) > MaxCommits)
    BY <1>4 DEF PushBase
  <2>2. hook.commits = Pushed
    BY <1>1, <1>2, <1>4, <2>1 DEF Tells, Pushed
  <2>3. TrueBase = IF Pushed = {} THEN {push.after}
                   ELSE UNION {Parents[c] : c \in {p \in Pushed : Parents[p] \cap Pushed = {}}}
    BY <1>2, <1>4 DEF TrueBase
  <2>4. CASE Pushed = {}
    <3>1. PushBase = hook.after
      BY <2>1, <2>2, <2>4 DEF NewBranchBase
    <3> QED
      BY <1>2, <2>3, <2>4, <3>1
  <2>5. CASE Pushed # {}
    <3> DEFINE roots == {c \in hook.commits : Graph(checkout.have)[c] \cap hook.commits = {}}
               below == UNION {Parents[c] : c \in roots}
    <3>1. /\ Single(roots) /\ \A c \in roots : Single(Parents[c])
          /\ hook.commits \subseteq checkout.have
          /\ PushBase = CHOOSE p \in below : TRUE
      BY <2>1, <2>2, <2>5 DEF NewBranchBase
    <3>2. ASSUME NEW c \in hook.commits
          PROVE  Graph(checkout.have)[c] \cap hook.commits = Parents[c] \cap hook.commits
      <4>1. c \in checkout.have /\ c \in Commits
        BY <1>1, <3>1
      <4>2. Graph(checkout.have)[c] = Parents[c] \cap checkout.have
        BY <4>1 DEF Graph
      <4> QED
        BY <3>1, <4>2
    <3>3. roots = {p \in Pushed : Parents[p] \cap Pushed = {}}
      BY <2>2, <3>2
    <3>4. Single(below)
      <4>1. PICK c : roots = {c}
        BY <3>1 DEF Single
      <4>2. below = Parents[c]
        BY <4>1
      <4>3. c \in roots
        BY <4>1
      <4> HIDE DEF roots, below
      <4>4. Single(Parents[c])
        BY <3>1, <4>3
      <4> QED
        BY <4>2, <4>4
    <3> HIDE DEF roots
    <3>5. TrueBase = below
      BY <2>3, <2>5, <3>3
    <3> HIDE DEF below
    <3>6. below = {PushBase}
      BY <3>1, <3>4, SingleIs
    <3> QED
      BY <1>2, <3>5, <3>6
  <2> QED
    BY <2>4, <2>5
<1> QED
  BY <1>3, <1>4

LEMMA PullRequestBaseIsTrue ==
    ASSUME Genuine(scene), hook # none, event.name = "pull_request", PullRequestIdentified, PullRequestBase # none
    PROVE  TrueBase = {PullRequestBase} /\ hook.after = scene.happened.after
<1>1. hook.before = scene.happened.before /\ hook.after = scene.happened.after
  BY DEF Genuine, PullRequestIdentified, hook, Tells
<1>2. /\ Single(MergeBases(hook.before, hook.after)) /\ ~checkout.shallow
      /\ PullRequestBase = CHOOSE c \in MergeBases(hook.before, hook.after) : TRUE
  BY DEF PullRequestBase
<1>3. MergeBases(hook.before, hook.after) = {PullRequestBase}
  BY <1>2, SingleIs
<1>4. Known = TrueAncestors
  BY <1>2 DEF Known, TrueAncestors
<1>5. TrueBase = MergeBases(hook.before, hook.after)
  BY <1>1, <1>4 DEF TrueBase, MergeBases
<1> QED
  BY <1>1, <1>3, <1>5

\* What does not change with the paths.
LEMMA SceneStays ==
    ASSUME UNCHANGED <<scene, event>>
    PROVE  /\ Filtered' = Filtered /\ workflows' = workflows /\ PathsCount' = PathsCount
           /\ TrueBase' = TrueBase
<1>1. workflows' = workflows
  BY DEF workflows
<1>2. \A w : UsesPaths(w)' <=> UsesPaths(w)
  BY <1>1 DEF UsesPaths
<1>3. Filtered' = Filtered
  BY <1>1, <1>2 DEF Filtered
<1> QED
  BY <1>1, <1>3 DEF PathsCount, TrueBase, Pushed

LEMMA PathsStep ==
    ASSUME Genuine(scene), EventInv, pathError = {}, paths = none,
           NoPaths \/ Unlinked \/ PushPaths \/ PullRequestPaths
    PROVE  PathsInv' /\ pc' = "select" /\ UNCHANGED <<scene, event, selection, ran>>
<1>0. pc' = "select" /\ UNCHANGED <<scene, event, selection, ran>>
  BY DEF NoPaths, Unlinked, PushPaths, PullRequestPaths, Unavailable, Available
<1> SUFFICES PathsInv'
  BY <1>0
<1>1. Filtered' = Filtered /\ workflows' = workflows /\ PathsCount' = PathsCount /\ TrueBase' = TrueBase
  BY <1>0, SceneStays
<1>2. CASE NoPaths
  BY <1>0, <1>1, <1>2 DEF NoPaths, PathsInv
<1>3. CASE Unlinked
  <2>1. pathError' = {} /\ paths' = none /\ event.origin # "webhook"
    BY <1>3 DEF Unlinked, Unavailable
  <2>2. \A w : Changed(w)' = none
    BY <2>1 DEF Changed
  <2> QED
    BY <1>0, <2>1, <2>2 DEF PathsInv
<1>4. ASSUME pathError' = Filtered, event.origin = "webhook",
             \A w \in verified' : workflows[w].triggers = workflows[w].committed
      PROVE  PathsInv'
  BY <1>0, <1>1, <1>4 DEF PathsInv
<1>5. ASSUME pathError' = Unverified, event.origin = "webhook", Evidence',
             \A w \in verified' : w \notin Unverified
      PROVE  PathsInv'
  <2>1. \A w \in Filtered \ Unverified : workflows[w].triggers = workflows[w].committed
    BY DEF Unverified, Identified
  <2> QED
    BY <1>0, <1>1, <1>5, <2>1 DEF PathsInv
<1>6. \A tip : \A w \in Identified(tip) : workflows[w].triggers = workflows[w].committed /\ w \notin Unverified
  BY DEF Identified, Unverified
<1>7. CASE PushPaths
  <2>1. event.origin = "webhook" /\ event.name = "push" /\ hook # none
    BY <1>7 DEF PushPaths, PushWanted, EventInv
  <2>2. CASE ~PushIdentified \/ PushBase = none
    <3>1. pathError' = Filtered /\ (verified' = {} \/ verified' = Identified(hook.after))
      BY <1>7, <2>2 DEF PushPaths, Unavailable
    <3> QED
      BY <1>4, <1>6, <2>1, <3>1
  <2>3. CASE PushIdentified /\ PushBase # none
    <3>1. paths' = Diff(PushBase, hook.after) /\ pathError' = Unverified /\ verified' = Identified(hook.after)
      BY <1>7, <2>3 DEF PushPaths, Available
    <3>2. TrueBase = {PushBase} /\ hook.after = scene.happened.after
      BY <2>1, <2>3, PushBaseIsTrue
    <3>3. Evidence'
      BY <1>0, <1>1, <3>1, <3>2 DEF Evidence, Diff
    <3> QED
      BY <1>5, <1>6, <2>1, <3>1, <3>3
  <2> QED
    BY <2>2, <2>3
<1>8. CASE PullRequestPaths
  <2>1. event.origin = "webhook" /\ event.name = "pull_request" /\ hook # none
    BY <1>8 DEF PullRequestPaths, EventInv
  <2>2. CASE pathError' = Filtered /\ (verified' = {} \/ verified' = Identified(hook.after))
    BY <1>4, <1>6, <2>1, <2>2
  <2>3. CASE ~(pathError' = Filtered /\ (verified' = {} \/ verified' = Identified(hook.after)))
    <3>1. /\ PullRequestIdentified /\ PullRequestBase # none
          /\ paths' = Diff(PullRequestBase, hook.after) /\ pathError' = Unverified
          /\ verified' = Identified(hook.after)
      BY <1>8, <2>3 DEF PullRequestPaths, Available, Unavailable
    <3>2. TrueBase = {PullRequestBase} /\ hook.after = scene.happened.after
      BY <2>1, <3>1, PullRequestBaseIsTrue
    <3>3. Evidence'
      BY <1>0, <1>1, <3>1, <3>2 DEF Evidence, Diff
    <3> QED
      BY <1>5, <1>6, <2>1, <3>1, <3>3
  <2> QED
    BY <2>2, <2>3
<1> QED
  BY <1>2, <1>3, <1>7, <1>8

\* PathsInv is about what is not changed later.
LEMMA PathsStay ==
    ASSUME PathsInv, UNCHANGED <<scene, event, paths, pathError, verified>>
    PROVE  PathsInv'
<1>1. Filtered' = Filtered /\ workflows' = workflows /\ PathsCount' = PathsCount /\ TrueBase' = TrueBase
  BY SceneStays
<1>2. \A w : Changed(w)' = Changed(w)
  BY DEF Changed
<1>3. Evidence' <=> Evidence
  BY <1>1 DEF Evidence, Diff
<1> QED
  BY <1>1, <1>2, <1>3 DEF PathsInv
-----------------------------------------------------------------------------
(* The decision about one workflow.                                        *)

\* The ref and the activity are judged alike in the condition, in the
\* explanation and by GitHub.
LEMMA AdmitsAgree ==
    ASSUME EventInv, NEW t, IsFilter(t.branches), IsFilter(t.tags), t.event = event.name,
           NEW how \in {"condition", "matcher", "github"}
    PROVE  Admits(how, t) <=> Admits("github", t)
<1>1. ASSUME NEW f, IsFilter(f), NEW name
      PROVE  Passes(how, f, name) <=> Passes("github", f, name)
  BY <1>1, PassesAgree
<1>2. t.event = "push" => (RefPasses(how, t, event.ref) <=> RefPasses("github", t, event.ref))
  BY <1>1 DEF RefPasses, EventInv
<1>3. Passes(how, t.branches, event.base) <=> Passes("github", t.branches, event.base)
  BY <1>1
<1> QED
  BY <1>2, <1>3 DEF Admits

\* What GitHub asks of the one trigger for the event.
Starts(t) ==
    /\ Admits("github", t)
    /\ NeedsPaths(t) => \E b \in TrueBase : \E p \in Diff(b, scene.happened.after) : LastDecides(t.paths, p)

LEMMA DecisionIs ==
    ASSUME Genuine(scene), EventInv, PathsInv, NEW w \in DOMAIN workflows, Outcome(w).outcome # "error"
    PROVE  IF env.github \notin {none, event.name} THEN Outcome(w).outcome # "true"
           ELSE /\ Outcome(w).outcome = "true" <=> GitHubRuns(Authored(w))
                /\ Outcome(w).outcome = "true" <=> Outcome(w).reason = none
<1> DEFINE triggers == workflows[w].triggers
           changed == Changed(w)
           Mine == {t \in triggers : t.event = event.name}
           Terms == {Term(t, changed) : t \in Mine}
<1>1. /\ Translate(triggers, changed) # "error" /\ ~(w \in pathError /\ w \notin verified)
      /\ Outcome(w).outcome = Translate(triggers, changed)
      /\ Outcome(w).reason = Reason(triggers, changed)
  BY DEF Outcome
<1>2. /\ Translate(triggers, changed) =
            IF Terms \subseteq {"none"} THEN "none" ELSE IF "true" \in Terms THEN "true" ELSE "false"
      /\ "error" \notin Terms
  BY <1>1 DEF Translate, EventInv
<1>3. Outcome(w).outcome = "true" <=> "true" \in Terms
  BY <1>1, <1>2
<1>4. IsWorkflow(workflows[w])
  BY DEF Genuine, workflows
<1>5. CASE Mine = {}
  <2>1. Terms = {}
    BY <1>5
  <2>2. Outcome(w).reason = "event"
    BY <1>1, <1>5 DEF Reason
  <2>3. ~UsesPaths(w)
    BY <1>5 DEF UsesPaths
  <2>4. ~GitHubRuns(Authored(w))
    BY <1>5, <2>3 DEF GitHubRuns, Authored
  <2> QED
    BY <1>3, <2>1, <2>2, <2>4, NoneAssumption
<1>6. ASSUME NEW t \in triggers, t.event = event.name
      PROVE  IF env.github \notin {none, event.name} THEN Outcome(w).outcome # "true"
             ELSE /\ Outcome(w).outcome = "true" <=> GitHubRuns(Authored(w))
                  /\ Outcome(w).outcome = "true" <=> Outcome(w).reason = none
  <2>1. Mine = {t}
    BY <1>4, <1>6 DEF IsWorkflow
  <2>2. Terms = {Term(t, changed)}
    BY <2>1
  <2>3. IsFilter(t.branches) /\ IsFilter(t.tags) /\ IsFilter(t.paths)
    BY <1>4, <1>6 DEF IsWorkflow
  <2>4. /\ Admits("condition", t) <=> Admits("github", t)
        /\ Admits("matcher", t) <=> Admits("github", t)
    BY <1>6, <2>3, AdmitsAgree
  <2>5. /\ NeedsPaths(t) /\ Admits("github", t) => changed # none
        /\ Term(t, changed) = "true" <=>
              Live(t.event) /\ Admits("github", t) /\ (NeedsPaths(t) => PathsMatch(t.paths, changed))
    BY <1>2, <2>2, <2>4 DEF Term
  <2>6. Outcome(w).outcome = "true" <=> Term(t, changed) = "true"
    BY <1>3, <2>2
  <2>7. CASE env.github \notin {none, event.name}
    <3>1. ~Live(t.event)
      BY <1>6, <2>7 DEF Live, Fallback
    <3> QED
      BY <2>5, <2>6, <2>7, <3>1
  <2>8. CASE env.github \in {none, event.name}
    <3>1. Live(t.event)
      BY <1>6, <2>8 DEF EventInv
    <3>2. Outcome(w).reason = none <=> Admits("github", t) /\ (NeedsPaths(t) => PathsMatch(t.paths, changed))
      BY <1>1, <2>1, <2>4, <2>5, NoneAssumption DEF Reason
    <3>3. NeedsPaths(t) => UsesPaths(w) /\ PathsCount /\ w \in Filtered
      BY <1>6 DEF NeedsPaths, UsesPaths, PathsCount, Filtered
    <3>4. Authored(w) = triggers
      <4>1. CASE UsesPaths(w) /\ PathsCount /\ event.origin = "webhook"
        <5>1. w \in Filtered
          BY <4>1 DEF Filtered
        <5> QED
          BY <1>1, <4>1, <5>1 DEF PathsInv, Authored
      <4>2. CASE ~(UsesPaths(w) /\ PathsCount /\ event.origin = "webhook")
        BY <4>2 DEF Authored
      <4> QED
        BY <4>1, <4>2
    <3>5. GitHubRuns(triggers) <=> Starts(t)
      <4>1. \A u \in triggers : u.event = event.name <=> u = t
        BY <1>6, <2>1
      <4>2. t.event # "workflow_call"
        BY <1>6 DEF EventInv
      <4> HIDE DEF triggers
      <4> QED
        BY <1>6, <4>1, <4>2 DEF GitHubRuns, Starts
    <3>6. ASSUME NeedsPaths(t), Admits("github", t)
          PROVE  PathsMatch(t.paths, changed) <=>
                   \E b \in TrueBase : \E p \in Diff(b, scene.happened.after) : LastDecides(t.paths, p)
      <4>1. changed # none
        BY <2>5, <3>6
      <4>2. w \notin pathError /\ changed = paths
        BY <4>1 DEF Changed
      <4>3. Evidence
        BY <3>3, <3>6, <4>1, <4>2 DEF PathsInv
      <4>4. \A p : Matches(t.paths, p) <=> LastDecides(t.paths, p)
        BY <2>3, MatchesIsLast
      <4> HIDE DEF changed
      <4> QED
        BY <4>2, <4>3, <4>4 DEF Evidence, PathsMatch
    <3> QED
      BY <2>5, <2>6, <2>8, <3>1, <3>2, <3>4, <3>5, <3>6 DEF Starts
  <2> QED
    BY <2>7, <2>8
<1> QED
  BY <1>5, <1>6

-----------------------------------------------------------------------------
(* The invariant of the selection.                                         *)

SelectionInv ==
    /\ Genuine(scene)
    /\ selection = [w \in DOMAIN workflows |-> selection[w]]
    /\ pc \in ReadEvents \cup {"load", "failed"}
    /\ pc \in {"load", "paths"} => /\ pathError = {} /\ paths = none
                                  /\ \A w \in DOMAIN workflows : selection[w] = none
    /\ pc \in ReadEvents => EventInv
    /\ pc \in ReadEvents \ {"paths"} =>
          /\ PathsInv
          /\ \A w \in DOMAIN workflows :
                selection[w] = Outcome(w) \/ (pc = "select" /\ selection[w] = none)
    /\ pc = "evaluated" => ran = {w \in DOMAIN workflows : selection[w].outcome = "true"}

LEMMA OutcomeStays ==
    ASSUME UNCHANGED <<scene, event, paths, pathError, verified>>
    PROVE  \A w : Outcome(w)' = Outcome(w)
<1>1. workflows' = workflows /\ env' = env
  BY DEF workflows, env
<1>2. \A w : Changed(w)' = Changed(w)
  BY DEF Changed
<1>3. /\ \A t : Live(t)' <=> Live(t)
      /\ \A how, t : Admits(how, t)' <=> Admits(how, t)
      /\ \A t : NeedsPaths(t)' <=> NeedsPaths(t)
      /\ \A t : Lacking(t)' <=> Lacking(t)
  BY <1>1 DEF Live, Fallback, Admits, NeedsPaths, Lacking
<1>4. \A t, changed : Term(t, changed)' = Term(t, changed)
  BY <1>3 DEF Term
<1>5. \A triggers, changed : Translate(triggers, changed)' = Translate(triggers, changed)
  BY <1>4 DEF Translate
<1>6. \A triggers, changed : Reason(triggers, changed)' = Reason(triggers, changed)
  BY <1>3 DEF Reason
<1> QED
  BY <1>1, <1>2, <1>5, <1>6 DEF Outcome
LEMMA SelectionStarts == SelectionInit => SelectionInv
<1> SUFFICES ASSUME SelectionInit PROVE SelectionInv
  OBVIOUS
<1>1. Genuine(scene)
  BY ScenariosAssumption DEF SelectionInit
<1> QED
  BY <1>1 DEF SelectionInit, SelectionInv, ReadEvents, workflows

\* A step that leaves what outcomes depend on alone keeps them.
LEMMA OutcomesKept ==
    ASSUME EventInv, PathsInv, UNCHANGED <<scene, event, paths, pathError, verified>>
    PROVE  /\ EventInv' /\ PathsInv' /\ DOMAIN workflows' = DOMAIN workflows
           /\ \A w : Outcome(w)' = Outcome(w)
<1>1. workflows' = workflows
  BY DEF workflows
<1> QED
  BY <1>1, EventStays, PathsStay, OutcomeStays

LEMMA SelectionStep == SelectionInv /\ [SelectionNext]_selectionVars => SelectionInv'
<1> SUFFICES ASSUME SelectionInv, [SelectionNext]_selectionVars
             PROVE  SelectionInv'
  OBVIOUS
<1>1. Genuine(scene) /\ selection = [w \in DOMAIN workflows |-> selection[w]]
  BY DEF SelectionInv
<1>2. CASE LoadWebhook \/ LoadBuild
  <2>1. pc = "load" /\ pathError = {} /\ paths = none /\ \A w \in DOMAIN workflows : selection[w] = none
    BY <1>2 DEF LoadWebhook, LoadBuild, SelectionInv
  <2>2. CASE pc' = "failed"
    <3>1. UNCHANGED <<scene, selection>>
      BY <1>2, <2>2 DEF LoadWebhook, LoadBuild, Fails, Effective
    <3> QED
      BY <1>1, <2>2, <3>1 DEF SelectionInv, ReadEvents, workflows
  <2>3. CASE pc' # "failed"
    <3>1. EventInv' /\ pc' = "paths" /\ UNCHANGED <<scene, paths, pathError, verified, selection, ran>>
      BY <1>1, <1>2, <2>3, EventStep
    <3>2. workflows' = workflows
      BY <3>1 DEF workflows
    <3> QED
      BY <1>1, <2>1, <3>1, <3>2 DEF SelectionInv, ReadEvents
  <2> QED
    BY <2>2, <2>3
<1>3. CASE NoPaths \/ Unlinked \/ PushPaths \/ PullRequestPaths
  <2>1. pc = "paths"
    BY <1>3 DEF NoPaths, Unlinked, PushPaths, PullRequestPaths, PathsWanted, PushWanted
  <2>2. EventInv /\ pathError = {} /\ paths = none /\ \A w \in DOMAIN workflows : selection[w] = none
    BY <2>1 DEF SelectionInv, ReadEvents
  <2>3. PathsInv' /\ pc' = "select" /\ UNCHANGED <<scene, event, selection, ran>>
    BY <1>1, <1>3, <2>2, PathsStep
  <2>4. EventInv' /\ workflows' = workflows
    BY <2>2, <2>3, EventStays DEF workflows
  <2> QED
    BY <1>1, <2>2, <2>3, <2>4 DEF SelectionInv, ReadEvents
<1>4. ASSUME NEW w \in DOMAIN workflows, Select(w)
      PROVE  SelectionInv'
  <2>1. /\ pc = "select" /\ pc' = "select" /\ UNCHANGED <<scene, event, paths, pathError, verified>>
        /\ selection' = [selection EXCEPT ![w] = Outcome(w)]
    BY <1>4 DEF Select
  <2>2. EventInv /\ PathsInv /\ \A v \in DOMAIN workflows : selection[v] \in {none, Outcome(v)}
    BY <2>1 DEF SelectionInv, ReadEvents
  <2>3. /\ EventInv' /\ PathsInv' /\ DOMAIN workflows' = DOMAIN workflows
        /\ \A v : Outcome(v)' = Outcome(v)
    BY <2>1, <2>2, OutcomesKept
  <2>4. /\ selection' = [v \in DOMAIN workflows |-> selection'[v]]
        /\ \A v \in DOMAIN workflows : selection'[v] = IF v = w THEN Outcome(w) ELSE selection[v]
    BY <1>1, <2>1
  <2>5. \A v \in DOMAIN workflows : selection'[v] \in {none, Outcome(v)}
    BY <2>2, <2>4
  <2> QED
    BY <1>1, <2>1, <2>3, <2>4, <2>5 DEF SelectionInv, ReadEvents
<1>5. CASE Upload \/ Evaluate
  <2>1. /\ \/ pc = "select" /\ pc' = "uploaded" /\ \A w \in DOMAIN workflows : selection[w] # none
           \/ pc = "uploaded" /\ pc' = "evaluated" /\ ran' = {w \in DOMAIN workflows : selection[w].outcome = "true"}
        /\ UNCHANGED <<scene, event, paths, pathError, verified, selection>>
    BY <1>5 DEF Upload, Evaluate
  <2>2. EventInv /\ PathsInv
    BY <2>1 DEF SelectionInv, ReadEvents
  <2>3. \A w \in DOMAIN workflows : selection[w] = Outcome(w)
    BY <2>1 DEF SelectionInv, ReadEvents
  <2>4. /\ EventInv' /\ PathsInv' /\ DOMAIN workflows' = DOMAIN workflows
        /\ \A w : Outcome(w)' = Outcome(w)
    BY <2>1, <2>2, OutcomesKept
  <2> QED
    BY <1>1, <2>1, <2>3, <2>4 DEF SelectionInv, ReadEvents
<1>6. CASE UNCHANGED selectionVars
  <2>1. /\ pc' = pc /\ ran' = ran /\ UNCHANGED <<scene, event, paths, pathError, verified, selection>>
        /\ workflows' = workflows
    BY <1>6 DEF selectionVars, workflows
  <2>2. EventInv => EventInv'
    BY <2>1, EventStays
  <2>3. PathsInv => PathsInv'
    BY <2>1, PathsStay
  <2>4. \A w : Outcome(w)' = Outcome(w)
    BY <2>1, OutcomeStays
  <2> QED
    BY <2>1, <2>2, <2>3, <2>4 DEF SelectionInv
<1> QED
  BY <1>2, <1>3, <1>4, <1>5, <1>6 DEF SelectionNext, SelectionOver

\* The importer takes a build for the event Buildkite knows, has of the paths
\* what really changed or knows that it does not, and uploads for each workflow
\* what the two decide.
THEOREM SelectionInvariant == SelectionSpec => []SelectionInv
<1>1. SelectionInit => SelectionInv
  BY SelectionStarts
<1>2. SelectionInv /\ [SelectionNext]_selectionVars => SelectionInv'
  BY SelectionStep
<1> QED
  BY <1>1, <1>2, PTL DEF SelectionSpec

\* For every history, checkout, webhook and filters: a build runs the workflows
\* GitHub would run for its event, or says that it cannot tell, and has a reason
\* for each workflow it does not run (SelectionAgrees).
THEOREM BuildsRunWhatGitHubRuns == SelectionSpec => []SelectionAgrees
<1>1. SelectionInv => SelectionAgrees
  <2> SUFFICES ASSUME SelectionInv, pc = "evaluated", NEW w \in DOMAIN workflows,
                      selection[w].outcome # "error"
               PROVE  IF env.github \notin {none, event.name} THEN w \notin ran
                      ELSE /\ w \in ran <=> GitHubRuns(Authored(w))
                           /\ w \in ran <=> selection[w].reason = none
    BY DEF SelectionAgrees
  <2>1. Genuine(scene) /\ EventInv /\ PathsInv /\ selection[w] = Outcome(w)
    BY DEF SelectionInv, ReadEvents
  <2>2. w \in ran <=> selection[w].outcome = "true"
    BY DEF SelectionInv
  <2> QED
    BY <2>1, <2>2, DecisionIs
<1> QED
  BY <1>1, SelectionInvariant, PTL
=============================================================================
