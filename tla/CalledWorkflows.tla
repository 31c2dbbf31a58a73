-------------------------- MODULE CalledWorkflows --------------------------
(***************************************************************************)
(* How the compiler flattens a workflow that calls reusable workflows      *)
(* (compiler/reusable.go, compiler/job_graph_expansion.go).                *)
(*                                                                         *)
(* An authored workflow w is a record over its jobs (numbers, in the       *)
(* order of their identifiers) and its frames: frame 0 is the workflow     *)
(* itself, every other frame one called workflow.                          *)
(*   frame[j]    the frame that declares job j                             *)
(*   needs[j]    its needs, jobs of the same frame                         *)
(*   cond[j]     its `if`: "" (none), "always", "failure" or "false"       *)
(*   bodies[j]   the frames a call runs, one per row of its matrix; {} for *)
(*               an ordinary job                                           *)
(*   rows[j]     matrix rows of an ordinary job                            *)
(*   parallel[j] its max-parallel, 0 when it has none                      *)
(*   group[j], cancel[j]     its concurrency group (0: none) and           *)
(*                           cancel-in-progress                            *)
(*   gate[f], gateCancel[f]  the same for the workflow of a frame          *)
(*   approval    jobs of the environment that asks for approval            *)
(***************************************************************************)
EXTENDS Integers, Sequences, FiniteSets, SequencesExt, FiniteSetsExt

CONSTANT MaxDepth

ASSUME MaxDepthAssumption == MaxDepth \in Nat

Ordinary(w) == {j \in DOMAIN w.frame : w.bodies[j] = {}}

Caller(w, f) == CHOOSE c \in DOMAIN w.frame : f \in w.bodies[c]

\* Kahn's algorithm with a sorted list of ready nodes; shorter than nodes
\* when the graph has a cycle.
Ready(nodes, needs, done) == {n \in nodes \ done : needs[n] \subseteq done}

WithNext(order, nodes, needs) ==
    LET ready == Ready(nodes, needs, ToSet(order))
    IN  IF ready = {} THEN order ELSE Append(order, Min(ready))

TopologicalOrder(nodes, needs) ==
    LET order[n \in 0..Cardinality(nodes)] ==
            IF n = 0 THEN <<>> ELSE WithNext(order[n - 1], nodes, needs)
    IN  order[Cardinality(nodes)]

Acyclic(nodes, needs) == Len(TopologicalOrder(nodes, needs)) = Cardinality(nodes)

\* The calls that enclose a frame, outermost first.
Callers(w) ==
    LET path[f \in DOMAIN w.gate] ==
            IF f = 0 THEN <<>>
            ELSE Append(path[w.frame[Caller(w, f)]], Caller(w, f))
    IN  path

\* replacements[id].members: the flattened jobs one need stands for.
Members(w) ==
    LET members[j \in DOMAIN w.frame] ==
            IF w.bodies[j] = {} THEN {j}
            ELSE UNION {members[k] : k \in {n \in DOMAIN w.frame : w.frame[n] \in w.bodies[j]}}
    IN  [j \in DOMAIN w.frame |-> members[j]]

\* A call without `if` and without needs has no guard; one with needs and
\* without `if` has the implicit guard success().
IsGuarded(w, c) == w.cond[c] # "" \/ w.needs[c] # {}

CallGuards(w, f) == SelectSeq(Callers(w)[f], LAMBDA c : IsGuarded(w, c))

\* staticCallGuardValue: false during compilation already.
StaticallySkipped(w, f) == \E c \in ToSet(CallGuards(w, f)) : w.cond[c] = "false"

\* The gates of the called workflows around frame f, outermost first. A called
\* workflow that is known never to run does not enter its group.
FrameGates(w, f) ==
    LET callers == Callers(w)[f]
        frames == [i \in DOMAIN callers |->
                     IF i = Len(callers) THEN f ELSE w.frame[callers[i + 1]]]
    IN  SelectSeq(frames, LAMBDA g : w.gate[g] # 0 /\ ~StaticallySkipped(w, g))

\* Jobs that must be compiled, and must have ended, before job j: the members
\* of its needs and of the needs of every enclosing guard.
\* Mutant.
OwnNeedsOnly(w, members, j) == UNION {members[n] : n \in w.needs[j]}
JobPrerequisites(w, members, j) ==
    UNION {UNION {members[n] : n \in w.needs[c]} :
             c \in {j} \cup ToSet(CallGuards(w, w.frame[j]))}

\* A matrix instance; a step key is a number here, ordered like the keys.
Instance(j, row) == 10 * j + row
JobOf(key) == key \div 10
InstancesOf(w, j) == {Instance(j, row) : row \in 1..w.rows[j]}
Instances(w) == UNION {InstancesOf(w, j) : j \in Ordinary(w)}

\* The flattened workflow: the authored one with, per ordinary job, its guards,
\* gates and prerequisites, and per instance the instances it needs.
Flatten(w) ==
    LET members == Members(w)
        needed == [j \in Ordinary(w) |-> JobPrerequisites(w, members, j)]
    IN  w @@ [members |-> members,
              jobs |-> Ordinary(w),
              needed |-> needed,
              guards |-> [j \in Ordinary(w) |-> CallGuards(w, w.frame[j])],
              gates |-> [j \in Ordinary(w) |-> FrameGates(w, w.frame[j])],
              instances |-> Instances(w),
              instanceNeeds |-> [k \in Instances(w) |->
                                   UNION {InstancesOf(w, m) : m \in needed[JobOf(k)]}]]

\* What resolve and orderJobs refuse.
Resolvable(w) ==
    /\ \A f \in DOMAIN w.gate :
         LET jobs == {j \in DOMAIN w.frame : w.frame[j] = f}
         IN  Acyclic(jobs, [j \in jobs |-> w.needs[j]])
    /\ \A f \in DOMAIN w.gate : Len(Callers(w)[f]) <= MaxDepth
    /\ Acyclic(Ordinary(w), Flatten(w).needed)

\* aggregateResult: the result of a need that stands for several jobs.
Aggregate(results) ==
    IF "failure" \in results THEN "failure"
    ELSE IF "cancelled" \in results THEN "cancelled"
    ELSE IF "success" \in results THEN "success"
    ELSE "skipped"

\* A condition over the results of the needs of its scope; without a status
\* function it is guarded by success().
ConditionHolds(cond, results) ==
    CASE cond = ""        -> results \subseteq {"success"}
      [] cond = "always"  -> TRUE
      [] cond = "failure" -> "failure" \in results
      [] cond = "false"   -> FALSE
=============================================================================
