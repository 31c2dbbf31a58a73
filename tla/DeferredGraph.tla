----------------------------- MODULE DeferredGraph -----------------------------
(***************************************************************************)
(* Matrices that come from the outputs of jobs: which jobs the compiler    *)
(* leaves to later stages (expandMatrices, mergeContinuations,             *)
(* assignContinuationKeys), and how a stage, which compiles the workflow   *)
(* again with the rows known by then, proves that it has compiled what the *)
(* stages before it did (advance, checkNextStage).  StageUpload has how a  *)
(* stage reads the rows and uploads.                                       *)
(*                                                                         *)
(* A graph g has, of each job: needs, jobs before it; producer, the one of *)
(* them whose output is its matrix, 0 if its matrix is static; and the     *)
(* number of its static rows.  A root is a job with a producer.            *)
(***************************************************************************)
EXTENDS Naturals, Sequences, FiniteSets, SequencesExt, FiniteSetsExt, Functions, TLC

CONSTANTS Graphs,
          MaxGraphJobs,  \* MaxRuntimeMatrixGraphJobs
          MaxRows        \* bound: rows of an output

VARIABLES
    graph,
    open,      \* records of the stages that have not run
    uploads,   \* [job -> jobs that were uploaded for it, of each upload]
    causes   \* why stages failed

stageVars == <<graph, open, uploads, causes>>

Jobs(g) == DOMAIN g.needs
Roots(g) == {j \in Jobs(g) : g.producer[j] # 0}

-----------------------------------------------------------------------------
(* A compilation, with the rows of some roots; of those whose producer did *)
(* not succeed there are none.                                             *)

\* describeRuntimeMatrix: the producer has one instance, which is known.
Describable(status, p) == status[p].rows = 1

\* expandMatrices: what becomes of each job, in the order of the graph.  rows
\* is what its dependents see of its matrix.
InOrder(g) == [j \in 1..Len(g.needs) |-> j]

Status(g, rows) ==
    LET job(skipped, deferred, rejected, n) ==
            [skipped |-> skipped, deferred |-> deferred, rejected |-> rejected, rows |-> n]
        expand(s, j) ==
            LET blocked == \E n \in g.needs[j] : s[n].skipped
                p == g.producer[j]
            IN  IF p = 0 THEN job(blocked, \E n \in g.needs[j] : s[n].deferred, FALSE, g.rows[j])
                ELSE IF ~Describable(s, p) THEN job(FALSE, FALSE, TRUE, 0)
                ELSE IF blocked THEN job(TRUE, FALSE, FALSE, 0)
                ELSE IF s[p].deferred \/ j \notin DOMAIN rows THEN job(FALSE, TRUE, FALSE, 0)
                ELSE job(rows[j] = 0, FALSE, FALSE, rows[j])
    IN  FoldLeft(LAMBDA s, j : Append(s, expand(s, j)), <<>>, InOrder(g))

\* Mutant: branches seen before two components meet keep their owner.
KeepLabels(owners, keep, drop) == owners

Relabelled(owners, keep, drop) == [j \in DOMAIN owners |-> IF owners[j] = drop THEN keep ELSE owners[j]]

\* mergeContinuations: of each job the representative of its component, 0 for
\* a job that no root leads to.
Owners(g) ==
    LET join(owners, j) ==
            FoldLeft(LAMBDA os, n :
                        IF os[n] = 0 THEN os
                        ELSE IF os[j] \in {0, os[n]} THEN [os EXCEPT ![j] = os[n]]
                        ELSE LET keep == Min({os[j], os[n]})
                             IN  [Relabelled(os, keep, Max({os[j], os[n]})) EXCEPT ![j] = keep],
                     owners, SetToSortSeq(g.needs[j], <))
    IN  FoldLeft(join, [j \in Jobs(g) |-> IF j \in Roots(g) THEN j ELSE 0], InOrder(g))

Total(f) == MapThenSumSet(LAMBDA j : f[j], DOMAIN f)
DependentInstances(c) == Total(c.instances) + Cardinality(c.later)

DeferredJobs(g, status) == {j \in Jobs(g) : status[j].deferred}
CompiledJobs(g, status) ==
    {j \in Jobs(g) : ~status[j].skipped /\ ~status[j].deferred /\ ~status[j].rejected}

\* What the static jobs leave of the bound, shared by the components.
Share(g, status, owners, compiled) ==
    LET static == MapThenSumSet(LAMBDA j : status[j].rows, {j \in compiled : owners[j] = 0})
        components == {owners[r] : r \in Roots(g)}
    IN  IF static > MaxGraphJobs THEN 0 ELSE (MaxGraphJobs - static) \div Max({1, Cardinality(components)})

\* One continuation per component with roots that wait for rows.
Continuations(g, status, owners, deferred, budget) ==
    LET later == {r \in Roots(g) \cap deferred : status[g.producer[r]].deferred}
        Continuation(o, jobs) ==
            [roots |-> (jobs \cap Roots(g)) \ later, later |-> jobs \cap later, jobs |-> jobs,
             instances |-> [j \in jobs \ Roots(g) |-> status[j].rows], budget |-> budget]
    IN  {Continuation(owners[r], {j \in deferred : owners[j] = owners[r]}) : r \in (Roots(g) \cap deferred) \ later}

\* What cannot be compiled: a matrix from a producer that is one itself, a
\* job that runs before what it needs, a root whose component was expanded
\* without it, more jobs than the bound.
Rejected(g, rows, status, owners, compiled, deferred, continuations) ==
    LET supplied == {owners[r] : r \in DOMAIN rows}
    IN  \/ \E j \in Jobs(g) : status[j].rejected
        \/ \E j \in compiled : g.needs[j] \cap deferred # {}
        \/ \E r \in Roots(g) \ DOMAIN rows : owners[r] \in supplied /\ owners[g.producer[r]] = 0
        \/ \E c \in continuations : c.budget < Cardinality(c.roots) + DependentInstances(c)

Assembled(g, rows, status, owners, compiled, deferred, continuations) ==
    [compiled |-> {[job |-> j, rows |-> status[j].rows, needs |-> [n \in g.needs[j] |-> status[n].rows]] : j \in compiled},
     skipped |-> {j \in Jobs(g) : status[j].skipped},
     continuations |-> continuations,
     rejected |-> Rejected(g, rows, status, owners, compiled, deferred, continuations)]

CompilationOf(g, rows, status, owners, compiled, deferred) ==
    Assembled(g, rows, status, owners, compiled, deferred,
              Continuations(g, status, owners, deferred, Share(g, status, owners, compiled)))

WithStatus(g, rows, status) ==
    CompilationOf(g, rows, status, Owners(g), CompiledJobs(g, status), DeferredJobs(g, status))

Compilation(g, rows) == WithStatus(g, rows, Status(g, rows))

-----------------------------------------------------------------------------
(* Stages                                                                  *)

\* placeholders: of a root or a later matrix one, under its logical key.
Placeholders(c, jobs) == [j \in c.jobs \cap jobs |-> IF j \in DOMAIN c.instances THEN c.instances[j] ELSE 1]

\* write: the record of a stage.
Record(ir, c, budget, resolved) ==
    [continuation |-> [c EXCEPT !.budget = budget], others |-> ir.continuations \ {c}, graph |-> ir.compiled, resolved |-> resolved]

Counted(compiled) == [j \in {i.job : i \in compiled} |-> (CHOOSE i \in compiled : i.job = j).rows]
Add(added) == uploads' = [j \in Jobs(graph) |-> IF j \in DOMAIN added THEN Append(uploads[j], added[j]) ELSE uploads[j]]

Imported(ir) ==
    /\ ~ir.rejected
    /\ open = {Record(ir, c, c.budget, <<>>) : c \in ir.continuations}
    /\ uploads = [j \in Jobs(graph) |-> IF \E i \in ir.compiled : i.job = j THEN <<Counted(ir.compiled)[j]>> ELSE <<>>]

GraphInit ==
    /\ graph \in Graphs
    /\ Imported(Compilation(graph, <<>>))
    /\ causes = {}

\* validateContinuationShape, the first job first.
WellShaped(c) ==
    /\ c.roots \cup c.later \subseteq c.jobs /\ c.roots \cap c.later = {}
    /\ Min(c.jobs) \in c.roots
    /\ DOMAIN c.instances = c.jobs \ (c.roots \cup c.later)
    /\ \A j \in DOMAIN c.instances : c.instances[j] > 0
    /\ c.budget \in (Cardinality(c.roots) + DependentInstances(c))..MaxGraphJobs

\* decodeStageRecord: every job has one owner, or is a resolved root.
Readable(s) ==
    LET components == s.others \cup {s.continuation}
    IN  /\ \A c \in components : WellShaped(c)
        /\ \A c, d \in components : c # d => c.jobs \cap d.jobs = {}
        /\ \A r \in s.continuation.roots : \E i \in s.graph : i.job = graph.producer[r]
        /\ \A r \in DOMAIN s.resolved : /\ \A c \in components : r \notin c.jobs
                                        /\ \E i \in s.graph : i.job = graph.producer[r]

\* checkNextStage
NextStageFits(parent, next) ==
    /\ WellShaped(next)
    /\ next.roots \subseteq parent.later
    /\ next.jobs \subseteq parent.jobs
    /\ \A j \in DOMAIN next.instances : j \in DOMAIN parent.instances /\ parent.instances[j] = next.instances[j]

\* advance: everything but the jobs of this stage is as it was.
Reproduces(s, ir, next) ==
    LET c == s.continuation
        added == ir.compiled \ s.graph
    IN  /\ s.graph \subseteq ir.compiled
        /\ \A i \in added : i.job \in c.jobs
        /\ s.others \subseteq ir.continuations
        /\ Cardinality(next) <= 1 /\ \A n \in next : NextStageFits(c, n)
        /\ \A j \in c.jobs : \/ j \in ir.skipped \/ \E i \in added : i.job = j
                             \/ \E n \in next : j \in n.jobs

\* A single root whose producer failed: all jobs of the stage are skipped.
UploadSkipped(s) ==
    /\ Readable(s)
    /\ Cardinality(s.continuation.roots) = 1
    /\ Add(Placeholders(s.continuation, s.continuation.jobs))
    /\ open' = open \ {s}
    /\ UNCHANGED <<graph, causes>>

Refuses(s, why) == causes' = causes \cup {why} /\ open' = open \ {s} /\ UNCHANGED uploads

Assemble(s, rows, ir, next, jobs) ==
    IF ir.rejected \/ ~Reproduces(s, ir, next) THEN Refuses(s, "inputs changed")
    ELSE IF Total(jobs) > s.continuation.budget THEN Refuses(s, "budget")
    ELSE /\ Add(jobs)
         /\ open' = (open \ {s}) \cup
              {Record(ir, n, s.continuation.budget - Total(jobs), rows) : n \in next}
         /\ UNCHANGED causes

Compiles(s, rows, ir) ==
    Assemble(s, rows, ir, ir.continuations \ s.others,
           Counted(ir.compiled \ s.graph) @@ Placeholders(s.continuation, ir.skipped))

\* upload_stage with the rows of its roots, 0 for one that is skipped.
RunStage(s, expanded) ==
    LET c == s.continuation
        wanted == DependentInstances(c) + MapThenSumSet(LAMBDA r : Max({1, expanded[r]}), c.roots)
        rows == expanded @@ s.resolved
    IN  /\ Cardinality(c.roots) = 1 => Range(expanded) # {0}
        /\ IF ~Readable(s) THEN Refuses(s, "record")
           ELSE IF wanted > c.budget THEN Refuses(s, "rows")
           ELSE Compiles(s, rows, Compilation(graph, rows))
        /\ UNCHANGED graph

GraphDone == open = {} /\ UNCHANGED stageVars

GraphNext ==
    \/ \E s \in open :
         \/ UploadSkipped(s)
         \/ \E expanded \in [s.continuation.roots -> 0..MaxRows] : RunStage(s, expanded)
    \/ GraphDone

-----------------------------------------------------------------------------
(* Properties                                                              *)

\* The roots a job depends on.
Upstream(g) ==
    FoldLeft(LAMBDA up, j : Append(up, (IF j \in Roots(g) THEN {j} ELSE {}) \cup UNION {up[n] : n \in g.needs[j]}),
             <<>>, InOrder(g))

\* j joins stages: it needs a matrix of a later stage, and a root that this
\* matrix does not need.
JoinsStages(j) ==
    LET up == Upstream(graph)
    IN  \E l \in up[j] : /\ up[graph.producer[l]] # {}
                         /\ \E r \in up[j] : r \notin up[l]

\* Whatever the outputs are, every compilation of the workflow agrees with
\* those before it: a stage fails for an output with too many rows only, all
\* jobs are uploaded, each by one stage and once, and the stages together do
\* not take the build past its bound.  A job that joins stages can be uploaded
\* twice; if it has a matrix from an output itself, its stage cannot compile.
StagesAgree ==
    /\ (\E r \in Roots(graph) : JoinsStages(r)) \/ causes \subseteq {"rows"}
    /\ \A s \in open : s.continuation.budget >= Cardinality(s.continuation.roots) + DependentInstances(s.continuation)
    /\ \A j \in Jobs(graph) : ~JoinsStages(j) =>
          /\ Len(uploads[j]) <= 1
          /\ open = {} /\ causes = {} => Len(uploads[j]) = 1
    /\ MapThenSumSet(LAMBDA j : FoldLeft(LAMBDA a, b : a + b, 0, uploads[j]), Jobs(graph)) <= MaxGraphJobs

\* "Preserving the other branches in the component and emitting a shared join
\* once" (stage.go).
JoinEmittedOnce == \A j \in Jobs(graph) : Len(uploads[j]) <= 1
=============================================================================
