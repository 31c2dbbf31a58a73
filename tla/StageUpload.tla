----------------------------- MODULE StageUpload -----------------------------
(***************************************************************************)
(* Deferred uploads (cli/upload_stage.go, cli/stage.go).  A matrix that    *)
(* comes from a job's output is expanded by a stage step: a job of the     *)
(* same build that reads the receipts of the producers, decides which jobs *)
(* they ask for, and uploads them.  Several stage steps of one build run   *)
(* side by side; they share approval gates; a stage may leave a child      *)
(* stage for the matrices of the jobs it compiles.                         *)
(*                                                                         *)
(* The build is a map from step keys to what was uploaded under them.      *)
(* Buildkite refuses an upload as a whole if one of its keys exists.  An   *)
(* answer may be lost, any call may fail, a stage job may be killed and    *)
(* retried, and a producer whose job failed may be retried too, with       *)
(* another receipt.                                                        *)
(***************************************************************************)
EXTENDS Naturals, FiniteSets, Sequences, SequencesExt, FiniteSetsExt, Functions, TLC

CONSTANTS
  Stages,      \* the stage steps, a child stage being one of its own
  Parent,      \* [Stages -> Stages \cup {None}], the stage that leaves it
  Roots,       \* [Stages -> Seq(job)], its needs-derived jobs (Roots())
  Dependents,  \* [Stages -> SUBSET job], the other jobs it compiles itself
  Upstream,    \* [job -> SUBSET root], the roots a job depends on
  Source,      \* [root -> producer]: a static job, or a dependent of the parent
  Gate,        \* [job -> gate], None without an approval gate
  Budget,      \* JobBudget of a component
  Outcomes,    \* [producer -> SUBSET [result, rows]], what it may publish
  MaxAttempts, \* [producer -> Nat], bound: attempts at it
  MaxRuns,     \* [Stages -> Nat], bound: attempts at the step
  MaxFaults,   \* bound: calls that fail, jobs that are killed
  None

Producers == Range(Source)
Matrices  == DOMAIN Source
Jobs      == DOMAIN Upstream
RootSet(s) == Range(Roots[s])
Children(s) == {c \in Stages : Parent[c] = s}

\* The stages from s on, and the jobs of a component from s on.
Chain(s) ==
  {t \in Stages : \A S \in SUBSET Stages :
     s \in S /\ (\A c \in Stages : Parent[c] \in S => c \in S) => t \in S}
Own(s)   == RootSet(s) \cup Dependents[s]
Owned(s) == UNION {Own(t) : t \in Chain(s)}

\* Stages form chains.  A stage that another one leaves has one root, whose
\* rows a job of that other stage publishes.
ASSUME StagesAssumption ==
  /\ None \notin Stages
  /\ \A s \in Stages : Parent[s] \in Stages \cup {None} /\ Parent[s] \notin Chain(s)
  /\ \A s \in Stages : \A b, c \in Children(s) : b = c
  /\ \A s \in Stages : Roots[s] \in Seq(Matrices) \ {<<>>} /\ IsInjective(Roots[s])
  /\ \A s \in Stages : Parent[s] # None =>
        /\ Len(Roots[s]) = 1
        /\ \A r \in RootSet(s) : Source[r] \in Dependents[Parent[s]]

\* Every job is of one stage, and the first that has all it depends on.  Of
\* the jobs that join stages there are those that need no matrix but what the
\* later one needs; DeferredGraph has all.
ASSUME TopologyAssumption ==
  /\ \A s \in Stages : Own(s) \subseteq Jobs /\ RootSet(s) \cap Dependents[s] = {}
  /\ \A s, t \in Stages : s # t => Own(s) \cap Own(t) = {}
  /\ \A r \in Matrices : \E s \in Stages : r \in RootSet(s)
  /\ \A j \in Jobs : Upstream[j] \subseteq Matrices
  /\ \A j \in Jobs : \A r \in Upstream[j] : Upstream[r] \subseteq Upstream[j]
  /\ \A s \in Stages, j \in Jobs :
        Upstream[j] \cap RootSet(s) # {} => j \in Owned(s) \ RootSet(s)
  /\ \A s \in Stages : \A d \in Dependents[s] : Upstream[d] \cap RootSet(s) # {}
  /\ \A s \in Stages : Parent[s] # None =>
        \A j \in Owned(s) : Upstream[j] \ Owned(s) \subseteq UNION {Upstream[r] : r \in RootSet(s)}

ASSUME BoundsAssumption ==
  /\ Budget \in Nat /\ MaxFaults \in Nat /\ None \notin Nat
  /\ MaxAttempts \in [Producers -> Nat] /\ MaxRuns \in [Stages -> Nat]
  /\ \A p \in Producers : \A outcome \in Outcomes[p] :
        outcome.result \in {"success", "failure"} /\ outcome.rows \subseteq Nat

VARIABLES
  producer,  \* the latest attempt at each producer: [attempt, state, receipt]
  build,     \* the build's steps: key -> [kind, content]
  stage,     \* the stage jobs: [pc, seen, expected, ask, create, runs, exit]
  faults,    \* faults so far
  excused    \* the stages a fault, or what producers published, has touched

vars == <<producer, build, stage, faults, excused>>

-----------------------------------------------------------------------------
(* Records.  A stage reads the record its step names: what was resolved    *)
(* before it, its jobs, its share of the graph bound, and the gates that   *)
(* exist when it runs.                                                     *)

StepKey(s) == <<"stage", s>>

\* Keys: a job of its own or a placeholder has the job's, a row of a matrix
\* the job's with its index, and a gate the gate's.
ASSUME KeyAssumption ==
  /\ "stage" \notin Jobs
  /\ \A j \in Jobs : j \notin Jobs \X Nat
  /\ \A j \in Jobs : \A i \in Jobs : Gate[i] # j
  /\ \A s \in Stages : StepKey(s) \notin Jobs /\ \A j \in Jobs : Gate[j] # StepKey(s)

\* f, and g where f is not defined.
Extended(f, g) ==
  [x \in DOMAIN f \cup DOMAIN g |-> IF x \in DOMAIN f THEN f[x] ELSE g[x]]

ImporterRecord(s) ==
  [results |-> <<>>, choice |-> <<>>, jobs |-> Owned(s), budget |-> Budget, gates |-> {}]

Record(s) == build[StepKey(s)].content

\* The producers a stage reads, in order: those of the roots expanded
\* before it, then those of its own.
Before[s \in Stages] ==
  IF Parent[s] = None THEN <<>> ELSE Before[Parent[s]] \o Roots[Parent[s]]
ReadOrder(s) == [i \in DOMAIN (Before[s] \o Roots[s]) |-> Source[(Before[s] \o Roots[s])[i]]]

-----------------------------------------------------------------------------
(* What one run decides, from the receipts it has read.                    *)

Seen(s, r)     == stage[s].seen[Source[r]]
Succeeded(s, r) == Seen(s, r).receipt.result = "success"
SkippedRoots(s) == {r \in RootSet(s) : ~Succeeded(s, r)}

\* The values of the roots resolved so far; {} for a root that is skipped.
Choice(s) ==
  Extended(Record(s).choice,
    [r \in RootSet(s) |-> IF Succeeded(s, r) THEN Seen(s, r).receipt.rows ELSE {}])

\* RuntimeMatrixSkippedJobs: the forward closure of the skipped roots.
SkippedJobs(s) ==
  {j \in Record(s).jobs : j \in SkippedRoots(s) \/ Upstream[j] \cap SkippedRoots(s) # {}}

\* The jobs this run compiles; the others go to the child stage.
Compiled(s) == (Own(s) \cap Record(s).jobs) \ SkippedJobs(s)
NextStage(s) == {c \in Children(s) : RootSet(c) \cap SkippedJobs(s) = {}}

\* One root that did not succeed, and nothing joined: everything is skipped.
SkipsAll(s) == Len(Roots[s]) = 1 /\ SkippedRoots(s) # {}

\* A job's plan depends on the values of the roots before it, and its own.
Entry(kind, content) == [kind |-> kind, content |-> content]
PlanOf(s, j) == Restrict(Choice(s), (Upstream[j] \cup {j}) \cap DOMAIN Choice(s))

\* A matrix has a key per row, a dependent its own.
KeysOf(s, j) == IF j \in RootSet(s) THEN {<<j, row>> : row \in Choice(s)[j]} ELSE {j}
JobOf(k) == IF k \in Jobs THEN k ELSE k[1]

JobSteps(s) ==
  [k \in UNION {KeysOf(s, j) : j \in Compiled(s)} |-> Entry("job", PlanOf(s, JobOf(k)))]

\* skippedJobs: placeholders under the logical key, bound to the record.
SkipSteps(s) == [j \in SkippedJobs(s) |-> Entry("skip", Record(s))]

JobCount(s) == Cardinality(DOMAIN JobSteps(s)) + Cardinality(SkippedJobs(s))

UsedGates(s) == {Gate[j] : j \in Compiled(s)} \ {None}

\* Mutant: the record vouches for the gates of jobs that are still deferred.
EveryGate(s) ==
  [results |-> stage[s].seen, choice |-> Choice(s),
   jobs |-> Record(s).jobs \ (Compiled(s) \cup SkippedJobs(s)),
   budget |-> Record(s).budget - JobCount(s),
   gates |-> {Gate[j] : j \in Record(s).jobs} \ {None}]

\* advance and write: the record of the child stage.
NextRecord(s) ==
  [results |-> stage[s].seen,
   choice  |-> Choice(s),
   jobs    |-> Record(s).jobs \ (Compiled(s) \cup SkippedJobs(s)),
   budget  |-> Record(s).budget - JobCount(s),
   gates   |-> Record(s).gates \cup UsedGates(s)]

StageSteps(s) ==
  [k \in {StepKey(c) : c \in NextStage(s)} |-> Entry("stage", NextRecord(s))]

\* Mutant: the dependents of a skipped matrix are forgotten.
RootsOnly(s) == RootSet(s)

\* uploadSkipped: one placeholder per promised check, without a digest.
Placeholders(s) == Record(s).jobs
PlainSkips(s) == [j \in Placeholders(s) |-> Entry("skip", None)]

\* The steps a run wants in the build.
Expected(s) ==
  IF SkipsAll(s) THEN PlainSkips(s)
  ELSE Extended(JobSteps(s), Extended(SkipSteps(s), StageSteps(s)))

\* execute: rows and promised dependents must fit the share.
DependentInstances(s) == Cardinality(Record(s).jobs \ RootSet(s))
Wanted(s) ==
  DependentInstances(s) +
    MapThenSumSet(LAMBDA r : IF Succeeded(s, r) THEN Cardinality(Seen(s, r).receipt.rows)
                             ELSE 1, RootSet(s))
OverBudget(s) == Wanted(s) > Record(s).budget

\* Mutant: any step of the keys is taken for one's own.
SameKeys(s) == DOMAIN stage[s].expected \subseteq DOMAIN build

\* alreadyApplied.  The skipped form of a single root compares labels only,
\* and a dependent has the label of its placeholder.
Holds(k, e) == k \in DOMAIN build /\ build[k].kind = e.kind /\ build[k].content = e.content
AlreadyApplied(s) ==
  LET expected == stage[s].expected IN
    IF SkipsAll(s)
    THEN DOMAIN expected \subseteq DOMAIN build
    ELSE \A k \in DOMAIN expected : Holds(k, expected[k])

-----------------------------------------------------------------------------
(* Producers.                                                              *)

\* A static job may run at once, a dependent when it is in the build.
Runnable(p) ==
  p \in Jobs => p \in DOMAIN build /\ build[p].kind = "job"

\* A job that has ended can be retried if it failed, also after it published
\* a success (JobContract); the stage reads its receipt, not its status.
ProducerStarts(p) ==
  /\ Runnable(p)
  /\ producer[p].attempt < MaxAttempts[p]
  /\ producer[p].state # "running"
  /\ producer' = [producer EXCEPT ![p] =
        [attempt |-> @.attempt + 1, state |-> "running", receipt |-> None]]
  /\ UNCHANGED <<build, stage, faults, excused>>

ProducerEnds(p) ==
  /\ producer[p].state = "running"
  /\ \E receipt \in Outcomes[p] :
        producer' = [producer EXCEPT ![p].receipt = receipt, ![p].state = "ended"]
  /\ UNCHANGED <<build, stage, faults, excused>>

-----------------------------------------------------------------------------
(* The stage job.                                                          *)

Goto(s, pc) == stage' = [stage EXCEPT ![s].pc = pc]
Exit(s, code) == stage' = [stage EXCEPT ![s].pc = "ended", ![s].exit = code]
Excuse(s) == excused' = excused \cup {s}
Fault(s) == faults < MaxFaults /\ faults' = faults + 1 /\ Excuse(s)
NoFault == UNCHANGED <<faults, excused>>

\* The step depends on the producers of its roots with allow_failure; it
\* passes once, and can be retried for as long as it has not.
StageStarts(s) ==
  /\ StepKey(s) \in DOMAIN build
  /\ stage[s].pc \in {"waiting", "ended"} /\ stage[s].exit # 0
  /\ stage[s].runs < MaxRuns[s]
  /\ stage[s].runs = 0 => \A r \in RootSet(s) : producer[Source[r]].state = "ended"
  /\ stage' = [stage EXCEPT ![s] =
        [pc |-> "read", seen |-> <<>>, expected |-> <<>>, ask |-> {}, create |-> {},
         runs |-> @.runs + 1, exit |-> None]]
  /\ UNCHANGED <<producer, build>> /\ NoFault

\* readProducer, one download each; a producer is read once.
Unread(s) == {Source[r] : r \in Range(Before[s]) \cup RootSet(s)} \ DOMAIN stage[s].seen
NextRead(s) == ReadOrder(s)[SelectInSeq(ReadOrder(s), LAMBDA p : p \in Unread(s))]

\* A receipt with its attempt, which is what ResultDigest binds.
Receipt(p) == [attempt |-> producer[p].attempt, receipt |-> producer[p].receipt]

\* A producer of an earlier stage must not have published again.
Unchanged(s, p) == p \in DOMAIN Record(s).results => Record(s).results[p] = Receipt(p)

\* ExpandRuntimeMatrixOutput: a success must come with at least one row.
ValidOutput(s, p) ==
  p \in {Source[r] : r \in RootSet(s)} /\ producer[p].receipt.result = "success"
    => producer[p].receipt.rows # {}

\* The result is available, unchanged, and its output usable.
Usable(s, p) == producer[p].receipt # None /\ Unchanged(s, p) /\ ValidOutput(s, p)

ReadProducer(s) ==
  /\ stage[s].pc = "read" /\ Unread(s) # {}
  /\ LET p == NextRead(s) IN
       /\ Usable(s, p)
       /\ stage' = [stage EXCEPT ![s].seen = Extended(@, [q \in {p} |-> Receipt(q)])]
  /\ UNCHANGED <<producer, build>> /\ NoFault

ReadRefused(s) ==
  /\ stage[s].pc = "read" /\ Unread(s) # {}
  /\ ~Usable(s, NextRead(s))
  /\ Exit(s, 1) /\ Excuse(s)
  /\ UNCHANGED <<producer, build, faults>>

\* Everything is read: check the budget, compile, advance, and find out
\* which gates the record does not vouch for.
Decide(s) ==
  /\ stage[s].pc = "read" /\ Unread(s) = {}
  /\ SkipsAll(s) \/ ~OverBudget(s)
  /\ stage' = [stage EXCEPT
        ![s].pc = IF SkipsAll(s) THEN "upload" ELSE "ask",
        ![s].expected = Expected(s),
        ![s].ask = IF SkipsAll(s) THEN {} ELSE UsedGates(s) \ Record(s).gates]
  /\ UNCHANGED <<producer, build>> /\ NoFault

DecideRefused(s) ==
  /\ stage[s].pc = "read" /\ Unread(s) = {}
  /\ ~SkipsAll(s) /\ OverBudget(s)
  /\ Exit(s, 1) /\ Excuse(s)
  /\ UNCHANGED <<producer, build, faults>>

\* deferredPipeline: stepExists for one gate after the other.  A query that
\* fails says that the gate is not there.
AskGate(s) ==
  /\ stage[s].pc \in {"ask", "askAgain"}
  /\ \E g \in stage[s].ask, answered \in BOOLEAN :
       /\ stage' = [stage EXCEPT ![s].ask = @ \ {g},
                       ![s].create = IF answered /\ g \in DOMAIN build THEN @ ELSE @ \cup {g}]
       /\ IF answered THEN NoFault ELSE Fault(s)
  /\ UNCHANGED <<producer, build>>

AllAsked(s) ==
  /\ stage[s].pc \in {"ask", "askAgain"} /\ stage[s].ask = {}
  /\ Goto(s, IF stage[s].pc = "ask" THEN "upload" ELSE "uploadAgain")
  /\ UNCHANGED <<producer, build>> /\ NoFault

\* The pipeline: the steps, and the gates it creates.  Buildkite takes an
\* upload whose keys are all new, or refuses all of it.
Pipeline(s) ==
  Extended(stage[s].expected, [gate \in stage[s].create |-> Entry("gate", None)])
Fresh(s) == (DOMAIN stage[s].expected \cup stage[s].create) \cap DOMAIN build = {}

UploadTaken(s) ==
  /\ stage[s].pc \in {"upload", "uploadAgain"} /\ Fresh(s)
  /\ build' = Extended(build, Pipeline(s))
  /\ Exit(s, 0)
  /\ UNCHANGED producer /\ NoFault

\* uploadAfterGateRace has no second look: its error is the run's.
Rejected(s) == IF stage[s].pc = "upload" THEN Goto(s, "rejected") ELSE Exit(s, 1)

UploadRefused(s) ==
  /\ stage[s].pc \in {"upload", "uploadAgain"} /\ ~Fresh(s)
  /\ Rejected(s)
  /\ UNCHANGED <<producer, build>> /\ NoFault

\* The call fails, before the upload was taken or after, perhaps because
\* the run's context has ended.
UploadLost(s) ==
  /\ stage[s].pc \in {"upload", "uploadAgain"}
  /\ \/ UNCHANGED build
     \/ Fresh(s) /\ build' = Extended(build, Pipeline(s))
  /\ Rejected(s) \/ Exit(s, 1)
  /\ Fault(s)
  /\ UNCHANGED producer

\* After a refusal: the upload of an earlier run, or a gate another stage
\* created first; otherwise the run fails.
Replayed(s) ==
  /\ stage[s].pc = "rejected" /\ AlreadyApplied(s)
  /\ Exit(s, 0)
  /\ UNCHANGED <<producer, build>> /\ NoFault

\* existingSteps of the gates the refused upload tried to create.  A query
\* that fails, here or in alreadyApplied, counts as a gate or a step that is
\* not there.
Raced(s) == IF SkipsAll(s) THEN {} ELSE stage[s].create \cap DOMAIN build

GateRace(s) ==
  /\ stage[s].pc = "rejected"
  /\ \E raced \in SUBSET Raced(s) \ {{}} :
       /\ stage' = [stage EXCEPT ![s].pc = "askAgain", ![s].create = {},
                       ![s].ask = (UsedGates(s) \ Record(s).gates) \ raced]
       /\ IF AlreadyApplied(s) \/ raced # Raced(s) THEN Fault(s) ELSE NoFault
  /\ UNCHANGED <<producer, build>>

RejectedForGood(s) ==
  /\ stage[s].pc = "rejected" /\ ~AlreadyApplied(s) /\ Raced(s) = {}
  /\ Exit(s, 1)
  /\ UNCHANGED <<producer, build>> /\ NoFault

\* A signal, a lost agent, a download or a compilation that fails.
StageFails(s) ==
  /\ stage[s].pc \notin {"waiting", "ended"}
  /\ Exit(s, 1) /\ Fault(s)
  /\ UNCHANGED <<producer, build>>

-----------------------------------------------------------------------------
Init ==
  /\ producer = [p \in Producers |-> [attempt |-> 0, state |-> "new", receipt |-> None]]
  /\ build = [k \in {StepKey(s) : s \in {t \in Stages : Parent[t] = None}} |->
                Entry("stage", ImporterRecord(k[2]))]
  /\ stage = [s \in Stages |->
        [pc |-> "waiting", seen |-> <<>>, expected |-> <<>>, ask |-> {}, create |-> {},
         runs |-> 0, exit |-> None]]
  /\ faults = 0 /\ excused = {}

StageStep(s) ==
  \/ StageStarts(s) \/ ReadProducer(s) \/ ReadRefused(s)
  \/ Decide(s) \/ DecideRefused(s)
  \/ AskGate(s) \/ AllAsked(s)
  \/ UploadTaken(s) \/ UploadRefused(s) \/ UploadLost(s)
  \/ Replayed(s) \/ GateRace(s) \/ RejectedForGood(s)
  \/ StageFails(s)

Next ==
  \/ \E p \in Producers : ProducerStarts(p) \/ ProducerEnds(p)
  \/ \E s \in Stages : StageStep(s)

Spec == Init /\ [][Next]_vars

-----------------------------------------------------------------------------
\* The values the variables take.
Pcs == {"waiting", "read", "ask", "upload", "rejected", "askAgain", "uploadAgain", "ended"}
TypeOK ==
  /\ \A p \in Producers :
       /\ producer[p].attempt \in 0..MaxAttempts[p]
       /\ producer[p].state \in {"new", "running", "ended"}
       /\ producer[p].receipt \in Outcomes[p] \cup {None}
  /\ \A k \in DOMAIN build : build[k].kind \in {"job", "skip", "stage", "gate"}
  /\ \A s \in Stages :
       /\ stage[s].pc \in Pcs /\ stage[s].exit \in {None, 0, 1}
       /\ stage[s].runs \in 0..MaxRuns[s]
       /\ DOMAIN stage[s].seen \subseteq Producers
       /\ stage[s].ask \cup stage[s].create \subseteq Range(Gate)
  /\ faults \in 0..MaxFaults /\ excused \subseteq Stages

-----------------------------------------------------------------------------
(* Properties.                                                             *)

KeysOfKind(kind) == {k \in DOMAIN build : build[k].kind = kind}

\* A job whose environment asks for approval never gets into the build
\* without its gate: whether the gate is created, found by stepExists, taken
\* from the record or assumed after a race (deferredPipeline).
GatesPresent ==
  \A k \in KeysOfKind("job") : Gate[JobOf(k)] # None => Gate[JobOf(k)] \in DOMAIN build

\* A component with dependents is expanded once, whatever its producers
\* publish in later attempts and however often its stages are retried: all
\* jobs of the build were compiled from the same values of a root, and a root
\* that was skipped has no rows.
HasDependents(r) == \E j \in Jobs : r \in Upstream[j]
OneExpansion ==
  \A r \in {m \in Matrices : HasDependents(m)} :
    LET Of == {k \in KeysOfKind("job") : r \in DOMAIN build[k].content} IN
      /\ \A k, l \in Of : build[k].content[r] = build[l].content[r]
      /\ r \in KeysOfKind("skip") => \A k \in Of : build[k].content[r] = {}

\* A stage that passes has, in the build, what its own run decided, also if
\* its upload was refused and taken for a replay of an earlier run's
\* (alreadyApplied), which compares digests, or labels if all is skipped.
\* A stage fails only if a call failed, it was killed, or the producers'
\* results do not allow the expansion: two stages that create the same gate
\* at the same time both pass (uploadAfterGateRace).
PassHonest ==
  \A s \in Stages : stage[s].exit = 0 =>
    \A k \in DOMAIN stage[s].expected : Holds(k, stage[s].expected[k])
ExitHonest ==
  PassHonest /\ \A s \in Stages : stage[s].exit = 1 => s \in excused

\* The jobs the deferred uploads of a component have added.
Deferred(s) == {k \in KeysOfKind("job") \cup KeysOfKind("skip") : JobOf(k) \in Owned(s)}
Components == {s \in Stages : Parent[s] = None}

\* "so the deferred uploads together cannot grow the build past that bound
\* whatever the producers publish" (compiler/runtime_matrix.go:84).
DeferredJobsBounded == \A s \in Components : Cardinality(Deferred(s)) <= Budget
=============================================================================
