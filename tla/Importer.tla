------------------------------- MODULE Importer -------------------------------
(* The upload command turns the workflows of a repository into one pipeline *)
(* with its artifacts (internal/cli/upload.go).  Each workflow that the     *)
(* event selects is compiled once to learn what it needs, a second time for *)
(* its plans and, when only its actions read variables, a third time with   *)
(* their values.  A compilation can fail for some of the jobs, or as a      *)
(* whole: what is still uploaded then must show that it failed and must not *)
(* leave out what should have run.                                          *)
EXTENDS Integers, Sequences, FiniteSets, Functions

CONSTANTS
    Uploads,    \* sequences of workflows: [kind, reads, asks, deferred, needs, soft, platform, broken]
    Provided,   \* platforms whose runtime the importer can provide
    Own,        \* its own platform
    MaxTroubles \* of compilations, beyond what is broken in a workflow, and of the agent

VARIABLES
    work,      \* the element of Uploads
    stance,    \* of each workflow: "open", "reported" when it is not compiled, "ignored" or "unselected"
    variables, \* of the repository: "unasked", "failed", "none" or "some"
    prepared,  \* of the workflows compiled once, [platforms, barred, planned]
    runtimes,  \* the platforms whose runtime is acquired
    rendered,  \* of the workflows, what becomes of them in the pipeline
    command,   \* "read", "prepare", "finish", "send", "done", "stopped"
    stored,    \* whether the artifacts are uploaded
    applied,   \* whether the pipeline is
    troubles

importVars == <<work, stance, variables, prepared, runtimes, rendered, command, stored, applied, troubles>>

JobsOf(w) == DOMAIN w.needs
JobTroubles(w) == {"job", "action", "plan", "barred"} \X JobsOf(w)
WholeTroubles == {"graph", "unscoped", "deferred", "late", "emit"} \X {0}

\* Workflows as parsed: jobs need jobs of theirs.
ASSUME UploadsAssumption ==
    \A upload \in Uploads :
        /\ upload \in Seq(Range(upload))
        /\ \A w \in Range(upload) :
             /\ w.deferred \in BOOLEAN
             /\ \A j \in JobsOf(w) : w.needs[j] \subseteq JobsOf(w)
             /\ w.broken \subseteq JobTroubles(w) \cup WholeTroubles

Runnable(i) == work[i].kind # "reusable"
NoWork == [platforms |-> {}, barred |-> FALSE, planned |-> {}]

ImportInit ==
    /\ work \in Uploads
    /\ stance = [i \in DOMAIN work |-> "open"]
    /\ variables = "unasked" /\ prepared = <<>> /\ runtimes = {} /\ rendered = <<>>
    /\ command = "read" /\ stored = FALSE /\ applied = FALSE /\ troubles = 0

Stop == command' = "stopped"

-----------------------------------------------------------------------------
(* Compilation.  What goes wrong is a set of troubles: "graph" (the jobs    *)
(* are not known), "unscoped" (no job can be named), "deferred" (an action  *)
(* of a job of a later stage), "late" (after the plans), "emit" (the        *)
(* pipeline), or a kind with a job: "job", "action", "plan", "barred".      *)

\* A job fails with those that it needs: the least set that holds the failed
\* jobs and what needs one of it.
Follows(w, set) == {j \in JobsOf(w) : w.needs[j] \cap set # {}}
WithDependents(w, failed) ==
    {j \in JobsOf(w) : \A set \in SUBSET JobsOf(w) :
        failed \cup Follows(w, set) \subseteq set => j \in set}
Of(kind, t) == {x[2] : x \in {y \in t : y[1] = kind}}
Has(kind, t) == <<kind, 0>> \in t

\* The plans of jobs are made in the order of the needs; without a runtime for
\* its platform a job has no plan, but for Linux, where the importer's own
\* stands in.
Unplanned(w, t, available, jobs) ==
    {j \in jobs : j \in Of("plan", t) \/ w.platform[j] \notin available \cup {"linux"}}

\* The planned jobs that the profile does not admit.
Barred(t, plans) == Of("barred", t) \cap plans

\* A job is planned, fails itself, or is blocked by another.
Compiled(w, t, available) ==
    LET everyone == Has("unscoped", t)
        direct == IF everyone THEN JobsOf(w) ELSE Of("job", t)
        acting == JobsOf(w) \ WithDependents(w, direct)
        unresolved == Of("action", t) \cap acting
        stopped == Has("deferred", t) /\ w.deferred
        failed == IF stopped THEN JobsOf(w) ELSE direct \cup unresolved
        planning == JobsOf(w) \ WithDependents(w, failed)
        unplanned == Unplanned(w, t, available, planning)
        planned == planning \ WithDependents(w, unplanned)
        overdue == Has("late", t)
    IN IF Has("graph", t)
         THEN [complete |-> FALSE, planned |-> {}, failed |-> {}, plans |-> {}, steps |-> {},
               error |-> "scoped", barred |-> {}]
       ELSE [complete |-> TRUE, planned |-> planned, failed |-> failed \cup unplanned,
             plans |-> IF overdue THEN {} ELSE planned, steps |-> {},
             error |-> IF everyone \/ overdue \/ stopped THEN "unscoped"
                       ELSE IF failed \cup unplanned # {} THEN "scoped" ELSE "none",
             barred |-> Barred(t, IF overdue THEN {} ELSE planned)]

\* Nothing of the bundle is to run.
Withdrawn(w, c) ==
    [c EXCEPT !.plans = {}, !.steps = {}, !.planned = {}, !.failed = JobsOf(w)]

\* The jobs that have a plan become steps of a pipeline, when all or some of
\* them do, unless the profile does not admit one of them.
HostedAs(c, w, t) ==
    LET as(b, kind) == [bundle |-> b, kind |-> kind]
    IN IF c.error = "unscoped" THEN as(Withdrawn(w, c), "evaluation")
       ELSE IF c.error = "scoped"
         THEN IF ~c.complete \/ c.plans = {} THEN as(c, "evaluation")
              ELSE IF c.barred # {} \/ Has("emit", t) THEN as(Withdrawn(w, c), "evaluation")
              ELSE as([c EXCEPT !.steps = c.plans], "evaluation")
       ELSE IF c.barred # {} THEN as(c, "admission")
       ELSE IF Has("emit", t) THEN as(c, "evaluation")
       ELSE as([c EXCEPT !.steps = c.plans], "none")

Hosted(w, t, available) == HostedAs(Compiled(w, t, available), w, t)

\* The troubles of one compilation: what is broken, and something in passing.
Passing(w) == {{}} \cup (IF troubles < MaxTroubles THEN {{x} : x \in JobTroubles(w) \cup WholeTroubles} ELSE {})

-----------------------------------------------------------------------------
(* The command.                                                             *)

\* A single workflow that cannot be parsed, or no workflow but called ones,
\* ends it.  The variables are asked for once, when a selected workflow reads
\* them; without them such a workflow fails.
VariablesNow(values) == IF variables = "unasked" THEN values ELSE {variables}
Read ==
    /\ command = "read"
    /\ \/ /\ \/ \A i \in DOMAIN work : ~Runnable(i)
             \/ Len(work) = 1 /\ work[1].kind = "unparsable"
          /\ Stop /\ UNCHANGED <<stance, variables>>
       \/ /\ \E i \in DOMAIN work : Runnable(i)
          /\ Len(work) > 1 \/ work[1].kind # "unparsable"
          /\ variables' \in IF \E i \in DOMAIN work : work[i].kind \notin {"reusable", "unselected"} /\ work[i].reads
                              THEN {"failed", "none", "some"} ELSE {"unasked"}
          /\ stance' = [i \in DOMAIN work |->
               CASE work[i].kind = "reusable" -> "ignored"
                 [] work[i].kind = "unselected" -> "unselected"
                 [] work[i].kind = "valid" /\ ~(work[i].reads /\ variables' = "failed") -> "open"
                 [] OTHER -> "reported"]
          /\ command' = "prepare"
    /\ UNCHANGED <<work, prepared, runtimes, rendered, stored, applied, troubles>>

\* The plans of the first compilation are dropped; what is kept is the
\* platforms of the jobs that have one, and whether the profile bars a job.
Prepare ==
    LET i == Len(prepared) + 1
        w == work[i]
    IN /\ command = "prepare" /\ i <= Len(work)
       /\ \E t \in IF stance[i] = "open" THEN Passing(w) ELSE {{}} :
            LET c == Compiled(w, w.broken \cup t, Provided \cup {p : p \in Range(w.platform)})
                later == IF c.complete /\ w.deferred THEN Provided \cup {Own} ELSE {}
                now == IF c.barred = {} THEN {w.platform[j] : j \in c.planned} ELSE {}
            IN /\ prepared' = Append(prepared,
                    IF stance[i] # "open" THEN NoWork
                    ELSE [platforms |-> now \cup later, barred |-> c.barred # {}, planned |-> c.planned])
               /\ troubles' = troubles + Cardinality(t)
       /\ UNCHANGED <<work, stance, variables, runtimes, rendered, command, stored, applied>>

Acquire ==
    LET required == UNION {p.platforms : p \in Range(prepared)}
    IN /\ command = "prepare" /\ Len(prepared) = Len(work)
       /\ IF required \subseteq Provided \cup {Own}
            THEN command' = "finish" /\ runtimes' = required
            ELSE Stop /\ UNCHANGED runtimes
       /\ UNCHANGED <<work, stance, variables, prepared, rendered, stored, applied, troubles>>

\* What a workflow is in the pipeline: nothing, a step that is skipped, one
\* that fails, or its jobs, with the step of its next stage.
Absent == [form |-> "absent", steps |-> <<>>, stage |-> FALSE, plans |-> {}]
Skipped == [Absent EXCEPT !.form = "skipped"]
Whole == [Absent EXCEPT !.form = "whole"]
Jobs(steps, stage, plans) == [form |-> "jobs", steps |-> steps, stage |-> stage, plans |-> plans]

\* Job by job: a job that is planned and may run does; what failed, or was
\* planned for nothing, is a failing step, and what it blocks is skipped.
Expanded(w, bundle, keep) ==
    LET runs == IF keep THEN bundle.steps ELSE {}
    IN Jobs([j \in JobsOf(w) |->
               IF j \in bundle.planned \cap runs THEN "run"
               ELSE IF j \notin bundle.planned \cup bundle.failed THEN "skip"
               ELSE IF j \in w.soft THEN "soft" ELSE "fail"],
            FALSE, bundle.plans \cap runs)

\* Mutant: a part of a workflow with a later stage is uploaded without it.
PreservesAny(w) == TRUE

\* Only a compilation of the whole emits the step of the next stage.
PreservesGraph(w) == ~w.deferred

\* The preparation barred a job: nothing of the workflow runs.
FailClosed(i, h) ==
    IF prepared[i].barred THEN [bundle |-> Withdrawn(work[i], h.bundle), kind |-> "evaluation"] ELSE h

\* The second compilation must be of the same jobs.
Recompiled(w, first, again) ==
    IF again.bundle.complete THEN again
    ELSE [bundle |-> Withdrawn(w, first.bundle),
          kind |-> IF first.kind # "none" THEN first.kind ELSE again.kind]

RenderedAs(w, h) ==
    IF h.kind = "none" THEN Jobs([j \in JobsOf(w) |-> "run"], w.deferred, h.bundle.plans)
    ELSE IF h.bundle.complete /\ PreservesGraph(w) THEN Expanded(w, h.bundle, TRUE)
    ELSE Whole

\* What is known of the jobs when the variables are not.
Unasked(w, first) ==
    IF PreservesGraph(w) THEN Expanded(w, Withdrawn(w, first.bundle), FALSE) ELSE Whole

\* The last compilation decides.
Settle(w, last) ==
    IF last.kind = "admission" THEN Stop /\ UNCHANGED rendered
    ELSE rendered' = Append(rendered, RenderedAs(w, last)) /\ UNCHANGED command

\* The first compilation says whether the variables are asked for; only with
\* some is there another.
AfterFirst(w, t, first, asking) ==
    \E v \in IF asking THEN VariablesNow({"failed", "none", "some"}) ELSE {variables} :
        /\ variables' = v
        /\ IF asking /\ v = "some"
             THEN \E u \in IF t = {} THEN Passing(w) ELSE {{}} :
                     /\ troubles' = troubles + Cardinality(t \cup u)
                     /\ Settle(w, Recompiled(w, first, Hosted(w, w.broken \cup u, runtimes)))
             ELSE /\ troubles' = troubles + Cardinality(t)
                  /\ IF asking /\ v = "failed"
                       THEN rendered' = Append(rendered, Unasked(w, first)) /\ UNCHANGED command
                       ELSE Settle(w, first)

Asks(w, first) == ~w.reads /\ w.asks /\ (first.kind = "none" \/ first.bundle.plans # {})
Compiling(w, t, first) == AfterFirst(w, t, first, Asks(w, first))

\* A workflow that is compiled.
Compile(i) ==
    \E t \in Passing(work[i]) :
        Compiling(work[i], t, FailClosed(i, Hosted(work[i], work[i].broken \cup t, runtimes)))

Render ==
    LET i == Len(rendered) + 1
    IN /\ command = "finish" /\ i <= Len(work)
       /\ IF stance[i] = "open" THEN Compile(i)
          ELSE /\ rendered' = Append(rendered, CASE stance[i] = "ignored" -> Absent
                                                 [] stance[i] = "unselected" -> Skipped
                                                 [] OTHER -> Whole)
               /\ UNCHANGED <<command, variables, troubles>>
       /\ UNCHANGED <<work, stance, prepared, runtimes, stored, applied>>

\* The artifacts go before the pipeline that names them; there are none when
\* everything is skipped.
Store ==
    /\ command = "finish" /\ Len(rendered) = Len(work)
    /\ \/ command' = "send" /\ stored' = TRUE /\ UNCHANGED troubles
       \/ troubles < MaxTroubles /\ troubles' = troubles + 1 /\ Stop /\ UNCHANGED stored
       \/ /\ \A r \in Range(rendered) : r.form \in {"absent", "skipped"}
          /\ command' = "send" /\ UNCHANGED <<stored, troubles>>
    /\ UNCHANGED <<work, stance, variables, prepared, runtimes, rendered, applied>>

Send ==
    /\ command = "send"
    /\ \/ command' = "done" /\ applied' = TRUE /\ UNCHANGED troubles
       \/ troubles < MaxTroubles /\ troubles' = troubles + 1 /\ Stop /\ applied' \in BOOLEAN
    /\ UNCHANGED <<work, stance, variables, prepared, runtimes, rendered, stored>>

ImportNext == Read \/ Prepare \/ Acquire \/ Render \/ Store \/ Send

ImportSpec == ImportInit /\ [][ImportNext]_importVars

-----------------------------------------------------------------------------

\* A pipeline that is uploaded accounts for every job of every workflow that
\* the event selects: either the workflow is a failing step, or each of its
\* jobs runs, fails or is left out.  One runs only from a plan that is
\* uploaded, on a runtime that is, after all that it needs, and in a workflow
\* that was admitted; one is left out only below one that is shown to fail,
\* and fails softly only when it may.  Jobs of a later stage come with the
\* step of that stage.  (Not so for the runtime of a Linux job that the
\* preparation could not plan and the compilation could: nothing acquires
\* it.)
NothingDropped ==
    applied => \A i \in DOMAIN work :
        LET w == work[i]
            r == rendered[i]
            all == JobsOf(w)
            in(set) == {j \in all : r.steps[j] \in set}
        IN /\ (r.form = "absent") = (w.kind = "reusable")
           /\ (r.form = "skipped") = (w.kind = "unselected")
           /\ r.form = "jobs" =>
                /\ stored /\ w.kind = "valid" /\ DOMAIN r.steps = all
                /\ r.plans = in({"run"})
                /\ r.stage = w.deferred
                /\ \A j \in in({"run"}) :
                     /\ w.needs[j] \subseteq in({"run"})
                     /\ \/ w.platform[j] \in runtimes
                        \/ w.platform[j] = "linux" /\ j \notin prepared[i].planned
                     /\ ~prepared[i].barred
                /\ \A j \in in({"skip"}) : \E f \in in({"fail", "soft"}) : j \in WithDependents(w, {f})
                /\ in({"soft"}) \subseteq w.soft
=============================================================================
