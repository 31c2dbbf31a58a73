------------------------------ MODULE StepEffects ------------------------------
(***************************************************************************)
(* What the processes of a job do to the environment of those after them,  *)
(* through the files GITHUB_ENV and GITHUB_PATH.  Each process leaves a    *)
(* Result (commandFiles.apply, runProcess); a composite action joins those *)
(* of its steps into its own and hands them on meanwhile                   *)
(* (runCompositeAction); the job commits the result of each of its steps   *)
(* (commitResultEnvironment).                                              *)
(*                                                                         *)
(* An environment has PATH, a sequence of directories, an ordinary name    *)
(* and a protected one, which steps cannot declare or set.  Leaves are     *)
(* processes, or Docker actions, which start from the environment but have *)
(* a PATH of their own.                                                    *)
(***************************************************************************)
EXTENDS Naturals, Sequences, SequencesExt

CONSTANTS Entries,   \* directories and values
          Scripts    \* what jobs run: sequences of JobSteps

VARIABLES
    script,    \* the steps of the job
    seen       \* the environments the leaves start with, of each step

effectVars == <<script, seen>>

-----------------------------------------------------------------------------
(* Steps and environments                                                  *)

\* A PATH, or a value; <<>> if it is not set.
Texts == Seq(Entries)
Environments == [path : Texts, name : Texts, guarded : Texts]

\* A leaf declares a value of the name and writes to the files; added are the
\* lines of GITHUB_PATH.  A step that is not a composite action has one leaf
\* and declares nothing itself.
Leaves == [docker : BOOLEAN, declared : Texts,
           writes : [path : Texts, name : Texts, guarded : Texts, added : Texts]]
JobSteps == [declared : Texts, leaves : Seq(Leaves)]

ASSUME ScriptsAssumption == {"base", "own"} \subseteq Entries /\ Scripts \subseteq Seq(JobSteps)

Base == [path |-> <<"base">>, name |-> <<>>, guarded |-> <<"own">>]

Changed(value, written) == IF written = <<>> THEN value ELSE written

\* mergeEnvironmentInto, and mergeStepEnvironment, which keeps the protected
\* name of what is below.
Merged(env, effects) ==
    [path |-> Changed(env.path, effects.path), name |-> Changed(env.name, effects.name),
     guarded |-> Changed(env.guarded, effects.guarded)]
StepMerged(env, effects) == [Merged(env, effects) EXCEPT !.guarded = env.guarded]

Nothing == [path |-> <<>>, name |-> <<>>, guarded |-> <<>>]
Declares(value) == [Nothing EXCEPT !.name = value]

\* applyPaths
Applied(path, added) == Reverse(added) \o path

-----------------------------------------------------------------------------
(* Results                                                                 *)

\* A Result: effects on the environment, the last PATH set whole, and the
\* directories added since.
NewResult == [env |-> Nothing, base |-> <<>>, added |-> <<>>]

\* runProcess, runDockerAction: a process passes on the PATH it has changed.
ResultOf(leaf, env) ==
    LET written == [path |-> leaf.writes.path, name |-> leaf.writes.name, guarded |-> leaf.writes.guarded]
    IN  [env |-> IF leaf.docker \/ leaf.writes.added = <<>> THEN written
                 ELSE [written EXCEPT !.path = Applied(Merged(env, written).path, leaf.writes.added)],
         base |-> leaf.writes.path,
         added |-> leaf.writes.added]

\* Mutant: what has been added stays when PATH is set.
PathsKept(result, next) ==
    [env |-> Merged(result.env, next.env),
     base |-> Changed(result.base, next.base),
     added |-> result.added \o next.added]

\* A composite combines its result with that of its next step.
Combined(result, next) ==
    [env |-> Merged(result.env, next.env),
     base |-> Changed(result.base, next.base),
     added |-> (IF next.base = <<>> THEN result.added ELSE <<>>) \o next.added]

\* commitResultEnvironment
Committed(env, result) ==
    LET effects == IF result.added = <<>> THEN result.env ELSE [result.env EXCEPT !.path = result.base]
        merged == Merged(env, effects)
    IN  [merged EXCEPT !.path = Applied(@, result.added)]

\* The next leaf of a step: each of them adds what it declares to what is
\* handed to it.
RunLeaf(step, env, before, leaf) ==
    LET around == StepMerged(env, Declares(step.declared))
        start == StepMerged(StepMerged(around, before.result.env), Declares(leaf.declared))
    IN  [seen |-> Append(before.seen, start),
         result |-> Combined(before.result, ResultOf(leaf, start))]

\* A step of the job: the environments its leaves start with, and its result.
RunStep(step, env) ==
    LET run[i \in 0 .. Len(step.leaves)] ==
            IF i = 0 THEN [seen |-> <<>>, result |-> NewResult]
            ELSE RunLeaf(step, env, run[i - 1], step.leaves[i])
    IN  run[Len(step.leaves)]

CommitStep(before, step) ==
    LET run == RunStep(step, StepMerged(Base, before.env))
    IN  [seen |-> Append(before.seen, run.seen), env |-> Committed(before.env, run.result)]

RunJob(steps) ==
    LET run[i \in 0 .. Len(steps)] ==
            IF i = 0 THEN [seen |-> <<>>, env |-> Base] ELSE CommitStep(run[i - 1], steps[i])
    IN  run[Len(steps)].seen

EffectsInit == seen = <<>> /\ script \in Scripts

EffectsNext ==
    \/ seen = <<>> /\ seen' = RunJob(script) /\ UNCHANGED script
    \/ seen # <<>> /\ UNCHANGED effectVars

EffectsSpec == EffectsInit /\ [][EffectsNext]_effectVars

-----------------------------------------------------------------------------
(* Properties                                                              *)

\* The PATH and the name after each of the leaves, which run one after the
\* other in one environment.
PathAfter(path, leaf) == Applied(Changed(path, leaf.writes.path), leaf.writes.added)

PathsAfter(path, leaves) ==
    LET after[i \in 0 .. Len(leaves)] == IF i = 0 THEN path ELSE PathAfter(after[i - 1], leaves[i])
    IN  after
NamesAfter(name, leaves) ==
    LET after[i \in 0 .. Len(leaves)] == IF i = 0 THEN name ELSE Changed(after[i - 1], leaves[i].writes.name)
    IN  after

\* After each step of the job.
JobPaths(steps) ==
    LET after[i \in 0 .. Len(steps)] ==
            IF i = 0 THEN Base.path ELSE PathsAfter(after[i - 1], steps[i].leaves)[Len(steps[i].leaves)]
    IN  after
JobNames(steps) ==
    LET after[i \in 0 .. Len(steps)] ==
            IF i = 0 THEN Base.name ELSE NamesAfter(after[i - 1], steps[i].leaves)[Len(steps[i].leaves)]
    IN  after

\* Leaves as the ones after them in their step see them.
AsSiblings(leaves) ==
    [i \in DOMAIN leaves |-> IF leaves[i].docker THEN [leaves[i] EXCEPT !.writes.added = <<>>] ELSE leaves[i]]

\* Every process starts with what all before it have done, in their order:
\* with their PATH, nested in composite actions or not; and with the last
\* that was declared around it or set of the name, where a step's own env
\* does not reach its siblings.  No step changes the protected name.  What a
\* Docker action adds to PATH is seen after its composite action only.
EffectsFollow ==
    seen # <<>> =>
      \A s \in DOMAIN script : \A k \in DOMAIN script[s].leaves :
        LET step == script[s]
            siblings == AsSiblings(step.leaves)
            around == Changed(JobNames(script)[s - 1], step.declared)
        IN  /\ seen[s][k].path = PathsAfter(JobPaths(script)[s - 1], siblings)[k - 1]
            /\ seen[s][k].name = Changed(NamesAfter(around, siblings)[k - 1], step.leaves[k].declared)
            /\ seen[s][k].guarded = Base.guarded
=============================================================================
