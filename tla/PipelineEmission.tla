-------------------------- MODULE PipelineEmission --------------------------
(***************************************************************************)
(* The Buildkite pipeline of one flattened workflow (compiler/bundle.go,   *)
(* buildkite/pipeline.go, buildkite/concurrency_gates.go): its steps in    *)
(* the order they are uploaded, what each depends on, and its concurrency  *)
(* group. A step is <<kind, number>>: the importer itself, an opening or   *)
(* closing marker of a frame, a matrix instance, or the approval block.    *)
(* Workflows are flattened ones (Flatten of CalledWorkflows) throughout.   *)
(***************************************************************************)
EXTENDS CalledWorkflows

Importer == <<"importer", 0>>
Open(f) == <<"open", f>>
Close(f) == <<"close", f>>
JobStep(key) == <<"job", key>>
Approval == <<"approval", 0>>

\* buildkite.orderJobs over the instances.
OrderedJobs(w) ==
    TopologicalOrder(w.instances, w.instanceNeeds)

\* GeneratePlannedWorkflow: a job's own group has one slot; max-parallel is a
\* group of its own (numbered apart from the authored ones) with that limit.
JobGroup(w, j) ==
    IF w.group[j] # 0 THEN w.group[j]
    ELSE IF w.parallel[j] # 0 THEN 100 + j ELSE 0
JobLimit(w, j) == IF w.group[j] # 0 THEN 1 ELSE w.parallel[j]

InstanceGates(w, key) == w.gates[JobOf(key)]

\* prepareReusableConcurrencyGates: gates in the order their first members are
\* emitted, the jobs each holds, and the jobs outside that these wait for.
WithNextGate(gates, w, jobs) ==
    LET missing == [i \in DOMAIN jobs |-> {d \in DOMAIN InstanceGates(w, jobs[i]) :
                                             InstanceGates(w, jobs[i])[d] \notin ToSet(gates)}]
        first == Min({i \in DOMAIN jobs : missing[i] # {}})
    IN  IF \A i \in DOMAIN jobs : missing[i] = {} THEN gates
        ELSE Append(gates, InstanceGates(w, jobs[first])[Min(missing[first])])

GatesOf(w, jobs) ==
    LET gates[n \in 0..Cardinality(DOMAIN w.gate)] ==
            IF n = 0 THEN <<>> ELSE WithNextGate(gates[n - 1], w, jobs)
    IN  gates[Cardinality(DOMAIN w.gate)]

ReusableGates(w) == GatesOf(w, OrderedJobs(w))

Held(w, f) == {k \in w.instances : f \in ToSet(InstanceGates(w, k))}

GatePrerequisites(w, f) ==
    (UNION {w.instanceNeeds[k] : k \in Held(w, f)}) \ Held(w, f)

\* Enclosing gates of a gate, outermost first.
OuterGates(w, f) ==
    LET gates == InstanceGates(w, CHOOSE k \in Held(w, f) : TRUE)
        place == CHOOSE i \in DOMAIN gates : gates[i] = f
    IN  SubSeq(gates, 1, place - 1)

NeedsClosure(w, keys) ==
    LET grow[seen \in SUBSET w.instances] ==
            LET next == seen \cup UNION {w.instanceNeeds[k] : k \in seen}
            IN  IF next = seen THEN seen ELSE grow[next]
    IN  grow[keys]

\* A gate would wait for its own group: the group of an enclosing gate, of a
\* member, or of a job or gate among all prerequisites of the members.
GateMeetsItself(w, f) ==
    \/ \E g \in ToSet(OuterGates(w, f)) : w.gate[g] = w.gate[f]
    \/ \E k \in Held(w, f) : w.group[JobOf(k)] = w.gate[f]
    \/ \E k \in NeedsClosure(w, GatePrerequisites(w, f)) :
         \/ w.group[JobOf(k)] = w.gate[f]
         \/ \E g \in ToSet(InstanceGates(w, k)) : w.gate[g] = w.gate[f]

\* Emit's own check of the workflow's gate.
WorkflowGateMeetsItself(w) ==
    /\ w.gate[0] # 0
    /\ \/ \E j \in w.jobs : w.group[j] = w.gate[0]
       \/ \E f \in ToSet(ReusableGates(w)) : w.gate[f] = w.gate[0]

\* Dependencies that must have succeeded, and those that may have failed.
OpenStrict(w, f) ==
    IF OuterGates(w, f) # <<>> THEN {Open(Last(OuterGates(w, f)))}
    ELSE IF w.gate[0] # 0 THEN {Open(0)} ELSE {Importer}
OpenLenient(w, f) == {JobStep(k) : k \in GatePrerequisites(w, f)}

CloseLenient(w, f) ==
    {JobStep(k) : k \in Held(w, f)} \cup
    {Close(g) : g \in {h \in ToSet(ReusableGates(w)) :
                         OuterGates(w, h) # <<>> /\ Last(OuterGates(w, h)) = f}}

WorkflowCloseLenient(w) ==
    {JobStep(k) : k \in w.instances} \cup
    {Close(g) : g \in {h \in ToSet(ReusableGates(w)) : OuterGates(w, h) = <<>>}}

JobStrict(w, key) ==
    {Importer}
    \cup (IF w.gate[0] # 0 THEN {Open(0)} ELSE {})
    \cup {Open(f) : f \in ToSet(InstanceGates(w, key))}
    \cup (IF JobOf(key) \in w.approval THEN {Approval} ELSE {})
JobLenient(w, key) == {JobStep(k) : k \in w.instanceNeeds[key]}

\* One emitted step.
Step(key, group, limit, optIn, strict, lenient) ==
    [key |-> key, group |-> group, limit |-> limit, optIn |-> optIn,
     strict |-> strict, lenient |-> lenient]

\* emitWorkflow: only opening markers and jobs ask for cancellation.
WorkflowGateSteps(w) ==
    IF w.gate[0] = 0 THEN <<>>
    ELSE << Step(Open(0), w.gate[0], 1, w.gateCancel[0], {Importer}, {}),
            Step(Close(0), w.gate[0], 1, FALSE, {Importer}, WorkflowCloseLenient(w)) >>

ReusableGateSteps(w) ==
    LET gates == ReusableGates(w) IN
    [i \in 1..2 * Len(gates) |->
        LET f == gates[(i + 1) \div 2] IN
        IF i % 2 = 1
        THEN Step(Open(f), w.gate[f], 1, w.gateCancel[f], OpenStrict(w, f), OpenLenient(w, f))
        ELSE Step(Close(f), w.gate[f], 1, FALSE, {}, CloseLenient(w, f))]

JobSteps(w) ==
    LET jobs == OrderedJobs(w) IN
    [i \in DOMAIN jobs |->
        LET k == jobs[i] IN
        Step(JobStep(k), JobGroup(w, JobOf(k)), JobLimit(w, JobOf(k)), w.cancel[JobOf(k)],
             JobStrict(w, k), JobLenient(w, k))]

ApprovalSteps(w) ==
    IF w.approval = {} THEN <<>> ELSE << Step(Approval, 0, 0, FALSE, {Importer}, {}) >>

Emission(w) ==
    WorkflowGateSteps(w) \o ReusableGateSteps(w) \o JobSteps(w) \o ApprovalSteps(w)

\* validateConcurrencyDependencies: every step waits for its dependencies and,
\* in an ordered group, for the entry before it.
\* Mutant: the order of the queues is left out of the graph.
DependenciesOnly(e, i) ==
    {p \in DOMAIN e : e[p].key \in e[i].strict \cup e[i].lenient}
WaitsFor(e, i) ==
    LET earlier == {p \in 1..(i - 1) : e[i].group # 0 /\ e[p].group = e[i].group}
    IN  {p \in DOMAIN e : e[p].key \in e[i].strict \cup e[i].lenient}
        \cup (IF earlier = {} THEN {} ELSE {Max(earlier)})

QueuesAcyclic(w) ==
    LET e == Emission(w) IN Acyclic(DOMAIN e, [i \in DOMAIN e |-> WaitsFor(e, i)])

\* The importer uploads a pipeline only for a workflow that passes them all.
Accepted(w) ==
    /\ Resolvable(w)
    /\ Acyclic(w.instances, w.instanceNeeds)
    /\ \A f \in ToSet(ReusableGates(w)) : ~GateMeetsItself(w, f)
    /\ ~WorkflowGateMeetsItself(w)
    /\ QueuesAcyclic(w)
=============================================================================
