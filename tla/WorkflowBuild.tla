--------------------------- MODULE WorkflowBuild ---------------------------
(***************************************************************************)
(* Builds of called workflows on Buildkite: the importer of each build     *)
(* uploads the pipeline of PipelineEmission, Buildkite schedules its steps *)
(* (dependencies, ordered concurrency groups across builds, cancellation   *)
(* in progress), and each job decides from the receipts of its needs       *)
(* whether it runs.                                                        *)
(*                                                                         *)
(* Buildkite itself is not in the repository. What it does is modelled as  *)
(* the code relies on it: an entry of an ordered group waits for the       *)
(* entries before it even while those are blocked; an upload is atomic; a  *)
(* ready step that opts in cancels the entries before it one by one.       *)
(***************************************************************************)
EXTENDS PipelineEmission

CONSTANTS Pairings,  \* builds that run at the same time: [build -> workflow]
          Groups     \* concurrency groups, numbers above 0

\* What is flattened has jobs, which need each other, and the called workflows
\* around each in a list.
IsFlat(w) ==
    /\ w.instances # {} /\ IsFiniteSet(w.instances) /\ w.instances \subseteq Nat
    /\ \A k \in w.instances : w.instanceNeeds[k] \subseteq w.instances
    /\ IsFiniteSet(DOMAIN w.gate)
    /\ \A k \in w.instances : w.gates[JobOf(k)] \in Seq(DOMAIN w.gate \ {0})
    /\ \A k \in w.instances : w.parallel[JobOf(k)] \in Nat

ASSUME PairingsAssumption ==
    /\ Groups \subseteq Nat \ {0}
    /\ \A workflows \in Pairings :
         /\ IsFiniteSet(DOMAIN workflows)
         /\ \A b \in DOMAIN workflows : IsFlat(Flatten(workflows[b]))

VARIABLES authored,   \* build -> workflow, as its author sees it
          flat,       \* build -> the workflow as the compiler flattens it
          pipeline,   \* build -> uploaded steps, in order
          state,      \* build -> step -> state of the step
          uploads,    \* builds in the order of their uploads
          receipt     \* build -> instance -> published result or "none"

vars == <<authored, flat, pipeline, state, uploads, receipt>>

Builds == DOMAIN flat
Ended == {"passed", "failed", "cancelled", "broken"}
Keys(b) == {pipeline[b][i].key : i \in DOMAIN pipeline[b]}
StepOf(b, key) == CHOOSE s \in ToSet(pipeline[b]) : s.key = key

\* How the contract sees an instance.
JobOutcome(b, k) ==
    IF pipeline[b] = <<>> THEN "pending"
    ELSE CASE state[b][JobStep(k)] = "waiting" -> "pending"
           [] state[b][JobStep(k)] \in {"running", "cancelling"} -> "running"
           [] state[b][JobStep(k)] \in {"cancelled", "broken"} -> "cancelled"
           [] OTHER -> IF receipt[b][k] = "none" THEN "failure" ELSE receipt[b][k]

Contract == INSTANCE WorkflowContract WITH
    outcome <- [b \in Builds |-> [k \in flat[b].instances |-> JobOutcome(b, k)]]

TypeOK ==
    /\ \A b \in Builds : state[b] \in
         [Keys(b) \cup {Importer} -> {"waiting", "running", "cancelling"} \cup Ended]
    /\ \A b \in Builds : receipt[b] \in
         [flat[b].instances -> {"none", "success", "failure", "cancelled", "skipped"}]

\* A build begins with the importer.
Started == [k \in {Importer} |-> "running"]

Init ==
    /\ \E workflows \in Pairings :
         /\ authored = [b \in DOMAIN workflows |-> Contract!Tree(workflows[b])]
         /\ flat = [b \in DOMAIN workflows |-> Flatten(workflows[b])]
    /\ pipeline = [b \in Builds |-> <<>>]
    /\ state = [b \in Builds |-> Started]
    /\ uploads = <<>>
    /\ receipt = [b \in Builds |-> [k \in flat[b].instances |-> "none"]]

-----------------------------------------------------------------------------
\* The importer: one upload of an accepted pipeline, otherwise it fails.
Upload(b) ==
    /\ state[b] = Started
    /\ Accepted(flat[b])
    /\ LET steps == Emission(flat[b]) IN
         /\ pipeline' = [pipeline EXCEPT ![b] = steps]
         /\ state' = [state EXCEPT ![b] =
                        [k \in {steps[i].key : i \in DOMAIN steps} \cup {Importer} |->
                           IF k = Importer THEN "running" ELSE "waiting"]]
    /\ uploads' = Append(uploads, b)
    /\ UNCHANGED <<authored, flat, receipt>>

ImporterEnds(b, result) ==
    /\ state[b][Importer] = "running"
    /\ pipeline[b] = <<>> => ~Accepted(flat[b]) /\ result = "failed"
    /\ state' = [state EXCEPT ![b][Importer] = result]
    /\ UNCHANGED <<authored, flat, pipeline, uploads, receipt>>

-----------------------------------------------------------------------------
\* Buildkite.
Met(b, key) ==
    LET s == StepOf(b, key) IN
    /\ \A d \in s.strict : state[b][d] = "passed"
    /\ \A d \in s.lenient : state[b][d] \in Ended

Unreachable(b, key) ==
    \E d \in StepOf(b, key).strict : state[b][d] \in Ended \ {"passed"}

\* The queue of a group: its steps in the order in which the builds were
\* uploaded, those of one build in the order of its pipeline.
Place(b, key) == CHOOSE i \in DOMAIN pipeline[b] : pipeline[b][i].key = key
UploadedBefore(c, b) ==
    \E i, j \in DOMAIN uploads : i < j /\ uploads[i] = c /\ uploads[j] = b
Precedes(c, k, b, key) ==
    UploadedBefore(c, b) \/ (c = b /\ Place(b, k) < Place(b, key))

\* The entries before a step in its group that have not ended.
Ahead(b, key) ==
    IF StepOf(b, key).group = 0 THEN {}
    ELSE UNION {{<<c, k>> : k \in {l \in Keys(c) :
                    /\ state[c][l] \notin Ended
                    /\ StepOf(c, l).group = StepOf(b, key).group
                    /\ Precedes(c, l, b, key)}} : c \in Builds}

HasTurn(b, key) ==
    StepOf(b, key).group = 0 \/ Cardinality(Ahead(b, key)) < StepOf(b, key).limit

SetState(b, key, value) == state' = [state EXCEPT ![b][key] = value]

Break(b, key) ==
    /\ state[b][key] = "waiting"
    /\ Unreachable(b, key)
    /\ SetState(b, key, "broken")
    /\ UNCHANGED <<authored, flat, pipeline, uploads, receipt>>

\* A marker runs `true`; it can still lose its agent. A user approves.
RunMarker(b, key, result) ==
    /\ state[b][key] = "waiting" /\ key[1] \in {"open", "close", "approval"}
    /\ Met(b, key) /\ HasTurn(b, key)
    /\ key = Approval => result = "passed"
    /\ SetState(b, key, result)
    /\ UNCHANGED <<authored, flat, pipeline, uploads, receipt>>

StartJob(b, key) ==
    /\ state[b][key] = "waiting" /\ key[1] = "job"
    /\ Met(b, key) /\ HasTurn(b, key)
    /\ SetState(b, key, "running")
    /\ UNCHANGED <<authored, flat, pipeline, uploads, receipt>>

\* cancel_in_progress: only a step that is ready asks.
CancelBlocker(b, key, blocker) ==
    /\ state[b][key] = "waiting" /\ StepOf(b, key).optIn
    /\ Met(b, key) /\ ~HasTurn(b, key)
    /\ blocker \in Ahead(b, key)
    /\ state[blocker[1]][blocker[2]] # "cancelling"
    /\ SetState(blocker[1], blocker[2],
                IF state[blocker[1]][blocker[2]] = "running" THEN "cancelling" ELSE "cancelled")
    /\ UNCHANGED <<authored, flat, pipeline, uploads, receipt>>

-----------------------------------------------------------------------------
\* run-job. A receipt that is missing is read as a failure only when Buildkite
\* says that the step has failed; otherwise the need cannot be hydrated.
Observed(b, key) ==
    IF receipt[b][key] = "none" /\ state[b][JobStep(key)] = "failed" THEN "failure"
    ELSE receipt[b][key]

NeedInstances(b, n) ==
    UNION {InstancesOf(flat[b], m) : m \in flat[b].members[n]}

NeedResult(b, n) == Aggregate({Observed(b, k) : k \in NeedInstances(b, n)})

Hydrated(b, key) == \A k \in flat[b].instanceNeeds[key] : Observed(b, k) # "none"

CallGuardsHold(b, key) ==
    LET w == flat[b] IN
    \A c \in ToSet(w.guards[JobOf(key)]) :
        ConditionHolds(w.cond[c], {NeedResult(b, n) : n \in w.needs[c]})

JobConditionHolds(b, key) ==
    LET w == flat[b] IN
    ConditionHolds(w.cond[JobOf(key)], {NeedResult(b, n) : n \in w.needs[JobOf(key)]})

Publish(b, key, result) == receipt' = [receipt EXCEPT ![b][key] = result]

FailHydration(b, key) ==
    /\ state[b][JobStep(key)] = "running" /\ ~Hydrated(b, key)
    /\ SetState(b, JobStep(key), "failed")
    /\ Publish(b, key, "failure")
    /\ UNCHANGED <<authored, flat, pipeline, uploads>>

SkipJob(b, key) ==
    /\ state[b][JobStep(key)] = "running" /\ Hydrated(b, key)
    /\ ~(CallGuardsHold(b, key) /\ JobConditionHolds(b, key))
    /\ SetState(b, JobStep(key), "passed")
    /\ Publish(b, key, "skipped")
    /\ UNCHANGED <<authored, flat, pipeline, uploads>>

RunJob(b, key, result) ==
    /\ state[b][JobStep(key)] = "running" /\ Hydrated(b, key)
    /\ CallGuardsHold(b, key) /\ JobConditionHolds(b, key)
    /\ SetState(b, JobStep(key), IF result = "success" THEN "passed" ELSE "failed")
    /\ Publish(b, key, result)
    /\ UNCHANGED <<authored, flat, pipeline, uploads>>

\* The agent is lost: no receipt, and a step that has failed.
LoseJob(b, key) ==
    /\ state[b][JobStep(key)] = "running"
    /\ SetState(b, JobStep(key), "failed")
    /\ UNCHANGED <<authored, flat, pipeline, uploads, receipt>>

EndCancelledJob(b, key, result) ==
    /\ state[b][JobStep(key)] = "cancelling"
    /\ SetState(b, JobStep(key), "cancelled")
    /\ Publish(b, key, result)
    /\ UNCHANGED <<authored, flat, pipeline, uploads>>

-----------------------------------------------------------------------------
AllEnded ==
    /\ \A b \in Builds : \A key \in DOMAIN state[b] : state[b][key] \in Ended
    /\ UNCHANGED vars

StepAction(b, key) ==
    \/ Break(b, key)
    \/ \E result \in {"passed", "failed"} : RunMarker(b, key, result)
    \/ StartJob(b, key)
    \/ \E blocker \in Ahead(b, key) : CancelBlocker(b, key, blocker)

JobAction(b, key) ==
    \/ FailHydration(b, key) \/ SkipJob(b, key) \/ LoseJob(b, key)
    \/ \E result \in {"success", "failure"} : RunJob(b, key, result)
    \/ \E result \in {"cancelled", "none"} : EndCancelledJob(b, key, result)

Next ==
    \/ \E b \in Builds :
         \/ Upload(b)
         \/ \E result \in {"passed", "failed"} : ImporterEnds(b, result)
         \/ \E key \in Keys(b) : StepAction(b, key)
         \/ \E key \in flat[b].instances : pipeline[b] # <<>> /\ JobAction(b, key)
    \/ AllEnded

Spec == Init /\ [][Next]_vars

-----------------------------------------------------------------------------
\* What holds a group: a called workflow, the workflow itself, or a job.
Running(b, keys) == \E k \in keys : state[b][JobStep(k)] \in {"running", "cancelling"}

Holders(g) ==
    UNION {IF pipeline[b] = <<>> THEN {} ELSE
        LET w == flat[b] IN
           {<<b, "gate", f>> : f \in {h \in {0} \cup ToSet(ReusableGates(w)) : w.gate[h] = g
                   /\ Running(b, IF h = 0 THEN w.instances ELSE Held(w, h))}}
           \cup {<<b, "job", k>> : k \in {i \in w.instances :
                   w.group[JobOf(i)] = g /\ Running(b, {i})}} : b \in Builds}

OptsIn(g) ==
    \E b \in Builds : \E i \in DOMAIN pipeline[b] :
        pipeline[b][i].group = g /\ pipeline[b][i].optIn

\* Of the workflows, called workflows and jobs of all builds that share a
\* concurrency group, at most one is running at any time, unless the group's
\* users asked to cancel what is in progress (concurrency_gates.go: the opening
\* and closing markers are the only thing that keeps the others out).
GroupsExclusive ==
    \A g \in Groups : (g < 100 /\ ~OptsIn(g)) => Cardinality(Holders(g)) <= 1

CanAct(b, key) ==
    \/ state[b][key] \in {"running", "cancelling"}
    \/ state[b][key] = "waiting" /\ (Unreachable(b, key) \/ (Met(b, key) /\ HasTurn(b, key)))

\* An uploaded pipeline always ends: as long as a step of any build has not
\* ended, some step can move (validateConcurrencyDependencies: queue positions
\* and lifted prerequisites never wait for each other).
NothingStuck ==
    (\E b \in Builds : \E key \in DOMAIN state[b] : state[b][key] \notin Ended) =>
        \E b \in Builds : \E key \in DOMAIN state[b] : CanAct(b, key)

\* Both hold of every build: groups admit one at a time, and their queues never
\* block each other (addConcurrencyGates, validateConcurrencyDependencies).
QueuesSound == GroupsExclusive /\ NothingStuck

\* The flattened jobs with their markers implement the authored workflow: a job
\* runs after the needs of its own and of all calls around it, and is skipped
\* exactly when a condition of these says so (reusable.go, evaluateCallGuards).
FollowsAuthoredWorkflow == Contract!Spec
=============================================================================
