------------------------------- MODULE MCJobRun -------------------------------
(* A job attempt, and what it stands on: the processes of its steps, its   *)
(* containers, what the steps write and do to the environment, and the     *)
(* actions nested in them.  JobRun sees of these that a process ends after *)
(* its context, that a resource may fail to be acquired or released and    *)
(* that a step may fail; a behaviour is of one of the parts.               *)
EXTENDS JobRun, JobServices, StepProcess, JobContainers, NestedActions, StepEffects

\* A remote action, whose pre runs ahead of all steps, and a local one.
MCKind == <<"remote", "local">>

\* A resource whose release can fail hard, one that can fail and one that
\* cannot.
MCNeeded == {"hashRoot", "runnerTemp", "prebuiltDocker"}

\* One service with a volume and one without.
MCServices == <<"s1", "s2">>
MCVolume == ("s1" :> "v") @@ ("s2" :> nothing)
MCJobVolumes == <<"w">>

CONSTANTS Masked, Written, Closing, MaxRendered, MaxSummary, MaxLines

\* Masks within, across and over the line breaks of others; 10 and 13 are a
\* line feed and a carriage return.
MCMasked == {<<1>>, <<1, 2>>, <<2, 1, 13, 3>>, <<2, 13, 10, 3>>}
MCWritten == {<<3, 1, 2, 1, 13, 3>>}
MCClosing == {<<>>, <<4, 4>>, <<2, 4, 3>>}

\* An action with two composite actions in it, one with two actions and one with
\* none; a second step that may not fail.
MCParent == <<0, 1, 2, 2, 1, 0>>
MCAction == <<"composite", "composite", "remote", "local", "composite", "remote">>

\* Two steps or three, of which one is a composite action, and all that two
\* leaves can declare and write, the protected name with the other one; the
\* last of a step and of the job writes nothing.
MCScripts ==
    LET writes == {[path |-> path, name |-> name, guarded |-> IF name = <<>> THEN <<>> ELSE <<"g">>, added |-> added] :
                      path \in {<<>>, <<"x">>}, name \in {<<>>, <<"n">>}, added \in {<<>>, <<"d">>, <<"e", "f">>}}
        leaves == [docker : BOOLEAN, declared : {<<>>, <<"m">>}, writes : writes]
        reader == [docker |-> FALSE, declared |-> <<>>,
                   writes |-> [path |-> <<>>, name |-> <<>>, guarded |-> <<>>, added |-> <<>>]]
        Step(declared, run) == [declared |-> declared, leaves |-> run]
        two == {<<Step(declared, <<a, b, reader>>), Step(<<>>, <<reader>>)>> :
                     declared \in {<<>>, <<"m">>}, a \in leaves, b \in leaves}
    IN  two \cup {<<Step(<<>>, <<a>>), Step(declared, <<b, reader>>), Step(<<>>, <<reader>>)>> :
                       declared \in {<<>>, <<"m">>}, a \in leaves, b \in leaves}

VARIABLES part,
          masks, stopToken, discard, trusted, warnings, raised, summary, line, lines, result

outputVariables == <<masks, stopToken, discard, trusted, warnings, raised, summary, line, lines, result>>

Output == INSTANCE StepOutput

MCInit ==
    /\ part \in {"job", "process", "containers", "output", "tree", "effects", "services"}
    /\ Init /\ ProcessInit /\ ContainersInit
    /\ Output!OutputInit
    /\ IF part = "tree" THEN TreeInit /\ forgiving \subseteq {1, 2, 3} ELSE forgiving = {} /\ TreeInit
    /\ IF part = "effects" THEN EffectsInit ELSE script = <<>> /\ seen = <<>>
    /\ ServicesInit
    /\ part # "process" => site = "host"
    /\ part # "containers" => ~wants /\ volumes = {}

MCNext ==
    \/ part = "job" /\ Next
       /\ UNCHANGED <<part, processVars, dockerVars, outputVariables, treeVars, effectVars, servicesVars>>
    \/ part = "process" /\ ProcessNext
       /\ UNCHANGED <<part, vars, dockerVars, outputVariables, treeVars, effectVars, servicesVars>>
    \/ part = "containers" /\ ContainersNext
       /\ UNCHANGED <<part, vars, processVars, outputVariables, treeVars, effectVars, servicesVars>>
    \/ part = "output" /\ Output!OutputNext
       /\ UNCHANGED <<part, vars, processVars, dockerVars, treeVars, effectVars, servicesVars>>
    \/ part = "tree" /\ TreeNext
       /\ UNCHANGED <<part, vars, processVars, dockerVars, outputVariables, effectVars, servicesVars>>
    \/ part = "effects" /\ EffectsNext
       /\ UNCHANGED <<part, vars, processVars, dockerVars, outputVariables, treeVars,
                      servicesVars>>
    \/ part = "services" /\ ServicesNext
       /\ UNCHANGED <<part, vars, processVars, dockerVars, outputVariables, treeVars, effectVars>>

\* The fairness of JobRun, for behaviours that are of it.
InJob(A) == part = "job" /\ A
MCFairness ==
    /\ WF_vars(InJob(Advance))
    /\ WF_vars(InJob(cancelled /\ (EndPre \/ EndStep)))
    /\ WF_vars(InJob(postOver /\ EndPost))
    /\ WF_vars(InJob(PostsExpire))

MCSpec == MCInit /\ [][MCNext]_<<part, vars, processVars, dockerVars, outputVariables, treeVars, effectVars,
                           servicesVars>>
          /\ MCFairness

\* Of a part: see StepOutput.
MasksHold == Output!MasksHold
=============================================================================
