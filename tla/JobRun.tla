-------------------------------- MODULE JobRun --------------------------------
(***************************************************************************)
(* One attempt at one generated job: run-job (cli.runJobContext) hydrates  *)
(* the results of prerequisites, runs the job (jobRun) and publishes its   *)
(* result.  prepare chains the phases of jobRun inside its own call, so    *)
(* that the cleanup of what it acquired is deferred until the last of them *)
(* has returned.                                                           *)
(*                                                                         *)
(* Steps are foreground steps here; BackgroundSteps models how they run    *)
(* concurrently.  Errors are told apart by what the code does about them.  *)
(***************************************************************************)
EXTENDS Naturals, Sequences, FiniteSets, SequencesExt

CONSTANTS NSteps,     \* the steps of the job are 1..NSteps
          Kind,       \* of each step: "run", "remote" or "local" JavaScript
          WithStatus, \* steps whose condition mentions a status function
          Tolerant,   \* steps whose continue-on-error is true
          Needed,     \* resources this job has to acquire
          none

Steps == 1..NSteps

\* What prepare acquires, in this order, and releases when it returns.
Acquisition == <<"idToken", "workspace", "hashRoot", "event", "runnerTemp",
                 "prebuiltDocker", "containers">>

\* The error with which a release can fail; other failures are ignored.
ReleaseError == [idToken |-> "cleanup", hashRoot |-> "cleanup",
                 prebuiltDocker |-> "hard", containers |-> "cleanup"]

ASSUME StepsAssumption == NSteps \in Nat
ASSUME KindsAssumption == Kind \in [Steps -> {"run", "remote", "local"}]
ASSUME ConditionsAssumption == WithStatus \subseteq Steps /\ Tolerant \subseteq Steps
ASSUME NeededAssumption == Needed \subseteq Range(Acquisition)
ASSUME NoneAssumption ==
    none \notin {"success", "failure", "cancelled", "skipped", "hard", "0", "1", "78", "killed"}

VARIABLES
    phase,      \* where the call chain is
    at,         \* the step, registered post or acquisition it is at
    busy,       \* a process of a step, pre or post runs
    signalled,  \* the command's context is done
    cancelled,  \* the job's context is done: the signal or timeout-minutes
    postOver,   \* the context of the posts is done
    continueOnError,
    errors,     \* what is joined in the error of the run
    tolerated,  \* that error is a toleratedJobFailure
    conclusion, \* JobResult.Conclusion, none if empty
    preFailure, \* conclusion of a failed pre, "hard" for a hard failure
    posts,      \* postRegistry: the invocations with a post, as registered
    held,       \* resources acquired and not released
    receipt,    \* the published result
    exit,       \* exit status
    trace,      \* phases started: <<"pre", s>>, <<"main", s>>, <<"post", s>>
    mishaps     \* everything that has gone wrong, forgiven or not

controlVars == <<phase, at, busy>>
contextVars == <<signalled, cancelled, postOver>>
resultVars  == <<errors, tolerated, conclusion>>
outputVars  == <<receipt, exit>>
ghostVars   == <<trace, mishaps>>
vars == <<controlVars, contextVars, continueOnError, resultVars, preFailure, posts, held,
          outputVars, ghostVars>>

Phases == {"start", "hydrate", "prepare", "setup", "pre", "steps", "posts", "finalize",
           "cleanup", "write", "publish", "exit", "over"}
Errors == {"start", "input", "setup", "workflow", "step", "hard", "output", "cleanup", "write", "publish"}
Conclusions == {none, "success", "failure", "cancelled", "skipped"}

\* Errors no continue-on-error forgives.
Unforgivable == Errors \ {"workflow", "step"}

-----------------------------------------------------------------------------
Init ==
    /\ phase = "start" /\ at = 1 /\ busy = FALSE
    /\ signalled = FALSE /\ cancelled = FALSE /\ postOver = FALSE
    /\ continueOnError = FALSE
    /\ errors = {} /\ tolerated = FALSE /\ conclusion = none
    /\ preFailure = [s \in Steps |-> none]
    /\ posts = <<>> /\ held = <<>>
    /\ receipt = none /\ exit = none
    /\ trace = <<>> /\ mishaps = {}

Enter(p) == phase' = p /\ at' = 1 /\ busy' = FALSE
GoOn == at' = at + 1 /\ busy' = FALSE /\ UNCHANGED phase

\* errors.Join: what is joined to a tolerated failure is not tolerated.
Join(kinds) ==
    /\ errors' = errors \cup kinds
    /\ tolerated' = (tolerated /\ kinds = {})

\* Something goes wrong and is joined to the error of the run.
Mishap(kinds) == Join(kinds) /\ mishaps' = mishaps \cup kinds
NoMishap == UNCHANGED <<errors, tolerated, mishaps>>

\* classifyStepExecution: how the failure of a step is judged.
Verdict(s, hard, done) ==
    CASE hard                             -> "hard"
      [] ~hard /\ done                    -> "cancelled"
      [] ~hard /\ ~done /\ s \in Tolerant -> "success"
      [] OTHER                            -> "failure"

\* What commitStepExecution returns for a verdict.
Judged(verdict) ==
    CASE verdict = "success" -> {} [] verdict = "hard" -> {"hard"} [] OTHER -> {"step"}

\* terminalErrorConclusion
Terminal == IF signalled THEN "cancelled" ELSE "failure"

-----------------------------------------------------------------------------
(* run-job before the job runs                                             *)

\* The plan, the runtime, the caches or the token providers cannot be set up:
\* run-job returns before anything is published.
StartFails ==
    /\ phase = "start"
    /\ exit' = "1"
    /\ mishaps' = {"start"}
    /\ Enter("over")
    /\ UNCHANGED <<contextVars, continueOnError, resultVars, preFailure, posts, held, receipt, trace>>

Start ==
    /\ phase = "start"
    /\ Enter("hydrate")
    /\ UNCHANGED <<contextVars, continueOnError, resultVars, preFailure, posts, held, outputVars, ghostVars>>

\* Needs, deferred inputs and call guards; without them the job does not run.
Hydrate ==
    /\ phase = "hydrate"
    /\ \/ Enter("prepare") /\ NoMishap
       \/ Enter("write") /\ Mishap({"input"})
    /\ UNCHANGED <<contextVars, continueOnError, conclusion, preFailure, posts, held, outputVars, trace>>

-----------------------------------------------------------------------------
(* prepare                                                                 *)

\* Guards and the job's condition; an error leaves an empty result or a
\* failure, depending on the check that fails.
Prepare ==
    /\ phase = "prepare"
    /\ \/ /\ Mishap({"input"})
          /\ conclusion' \in {none, "failure"}
          /\ Enter("cleanup")
          /\ UNCHANGED continueOnError
       \/ /\ conclusion' = "skipped"
          /\ Enter("cleanup")
          /\ NoMishap /\ UNCHANGED continueOnError
       \/ /\ conclusion' = "failure"
          /\ continueOnError' \in BOOLEAN
          /\ Enter("setup")
          /\ NoMishap
    /\ UNCHANGED <<contextVars, preFailure, posts, held, outputVars, trace>>

Acquire ==
    /\ phase = "setup" /\ at <= Len(Acquisition)
    /\ held' = IF Acquisition[at] \in Needed THEN Append(held, Acquisition[at]) ELSE held
    /\ GoOn
    /\ NoMishap
    /\ UNCHANGED <<contextVars, continueOnError, conclusion, preFailure, posts, outputVars, trace>>

\* Mutant: the kind of the failure is not looked at.
AnySetupFailure(kind) == continueOnError

\* tolerateJobSetupFailure: a failure of the workflow, as a service that does
\* not become healthy, is subject to continue-on-error; others are not.
SetupTolerated(kind) == continueOnError /\ kind = "workflow"

\* Something cannot be acquired.  Some of these errors are returned as they
\* are, the others through tolerateJobSetupFailure.
AcquireFails ==
    /\ phase = "setup" /\ at <= Len(Acquisition)
    /\ \E kind \in {"setup", "workflow", "hard"} :
       /\ errors' = errors \cup {kind}
       /\ mishaps' = mishaps \cup {kind}
       /\ \/ kind = "setup" /\ UNCHANGED <<tolerated, conclusion>>
          \/ /\ conclusion' = IF cancelled THEN "cancelled"
                              ELSE IF SetupTolerated(kind) THEN "success" ELSE "failure"
             /\ tolerated' = (~cancelled /\ SetupTolerated(kind))
    /\ Enter("cleanup")
    /\ UNCHANGED <<contextVars, continueOnError, preFailure, posts, held, outputVars, trace>>

\* Mutant: prepare returns, and releases, before the phases that need it.
ReturnPrepared ==
    /\ phase = "setup" /\ at > Len(Acquisition)
    /\ held' = <<>>
    /\ Enter("pre")
    /\ NoMishap
    /\ UNCHANGED <<contextVars, continueOnError, conclusion, preFailure, posts, outputVars, trace>>

Prepared ==
    /\ phase = "setup" /\ at > Len(Acquisition)
    /\ Enter("pre")
    /\ NoMishap
    /\ UNCHANGED <<contextVars, continueOnError, conclusion, preFailure, posts, held, outputVars, trace>>

-----------------------------------------------------------------------------
(* runPreActions                                                           *)

IsRemote(s) == Kind[s] = "remote"
Registered(s) == \E i \in DOMAIN posts : posts[i] = s

\* postRegistry.register, once for an invocation.
Register(s) == posts' = IF Registered(s) THEN posts ELSE Append(posts, s)

\* The verdict is kept for the step, and counts when the step is reached.
FailPre(s, hard) ==
    /\ preFailure' = [preFailure EXCEPT ![s] = Verdict(s, hard, signalled)]
    /\ mishaps' = mishaps \cup Judged(Verdict(s, hard, signalled))

\* The action has no pre, its condition is false, or the step is not remote.
PassPre ==
    /\ phase = "pre" /\ ~busy /\ at <= NSteps
    /\ GoOn
    /\ NoMishap
    /\ UNCHANGED <<contextVars, continueOnError, conclusion, preFailure, posts, held, outputVars, trace>>

\* The locked source of the action does not verify: no further pre runs.
RejectPre ==
    /\ phase = "pre" /\ ~busy /\ at <= NSteps /\ IsRemote(at)
    /\ Mishap({"hard"})
    /\ Enter("steps")
    /\ UNCHANGED <<contextVars, continueOnError, conclusion, preFailure, posts, held, outputVars, trace>>

\* The pre fails before it starts: its environment, condition, inputs or node.
PreCannotStart ==
    /\ phase = "pre" /\ ~busy /\ at <= NSteps /\ IsRemote(at)
    /\ \E hard \in BOOLEAN : FailPre(at, hard)
    /\ GoOn
    /\ UNCHANGED <<contextVars, continueOnError, resultVars, posts, held, outputVars, trace>>

\* The post is registered before the pre runs.
BeginPre ==
    /\ phase = "pre" /\ ~busy /\ at <= NSteps /\ IsRemote(at)
    /\ Register(at)
    /\ trace' = Append(trace, <<"pre", at>>)
    /\ busy' = TRUE
    /\ UNCHANGED <<phase, at, contextVars, continueOnError, resultVars, preFailure, held, outputVars, mishaps>>

EndPre ==
    /\ phase = "pre" /\ busy
    /\ \/ UNCHANGED <<preFailure, mishaps>>
       \/ \E hard \in BOOLEAN : FailPre(at, hard)
    /\ GoOn
    /\ UNCHANGED <<contextVars, continueOnError, resultVars, posts, held, outputVars, trace>>

PresDone ==
    /\ phase = "pre" /\ ~busy /\ at > NSteps
    /\ Enter("steps")
    /\ NoMishap
    /\ UNCHANGED <<contextVars, continueOnError, conclusion, preFailure, posts, held, outputVars, trace>>

-----------------------------------------------------------------------------
(* runSteps                                                                *)

AtStep == phase = "steps" /\ ~busy /\ at <= NSteps

\* A step whose pre has failed does not run: that verdict is its own.
CommitPreFailure ==
    /\ AtStep /\ preFailure[at] # none
    /\ Join(Judged(preFailure[at]))
    /\ GoOn
    /\ UNCHANGED <<contextVars, continueOnError, conclusion, preFailure, posts, held, outputVars, ghostVars>>

MayRun(s) == s \in WithStatus \/ (errors = {} /\ ~cancelled)

\* The step is not reachable, may not run, or its condition is false.
SkipStep ==
    /\ AtStep /\ preFailure[at] = none
    /\ GoOn
    /\ NoMishap
    /\ UNCHANGED <<contextVars, continueOnError, conclusion, preFailure, posts, held, outputVars, trace>>

\* A failure of the step at, hard if it is one of the runtime's integrity.
FailStep(hard) == Mishap(Judged(Verdict(at, hard, cancelled)))

\* Its environment, condition, controls or action cannot be evaluated.
RejectStep ==
    /\ AtStep /\ preFailure[at] = none /\ MayRun(at)
    /\ \E hard \in BOOLEAN : FailStep(hard)
    /\ GoOn
    /\ UNCHANGED <<contextVars, continueOnError, conclusion, preFailure, posts, held, outputVars, trace>>

\* The post is registered before the main runs, unless the pre has done it.
BeginStep ==
    /\ AtStep /\ preFailure[at] = none /\ MayRun(at)
    /\ IF Kind[at] = "run" THEN UNCHANGED posts ELSE Register(at)
    /\ trace' = Append(trace, <<"main", at>>)
    /\ busy' = TRUE
    /\ UNCHANGED <<phase, at, contextVars, continueOnError, resultVars, preFailure, held, outputVars, mishaps>>

EndStep ==
    /\ phase = "steps" /\ busy
    /\ \/ NoMishap
       \/ \E hard \in BOOLEAN : FailStep(hard)
    /\ GoOn
    /\ UNCHANGED <<contextVars, continueOnError, conclusion, preFailure, posts, held, outputVars, trace>>

StepsDone ==
    /\ phase = "steps" /\ ~busy /\ at > NSteps
    /\ Mishap(IF cancelled THEN {"step"} ELSE {})
    /\ Enter("posts")
    /\ UNCHANGED <<contextVars, continueOnError, conclusion, preFailure, posts, held, outputVars, trace>>

-----------------------------------------------------------------------------
(* runPostActions                                                          *)

\* Mutant: posts run in the order of their registration.
OldestFirst == posts[at]

\* The post at is about: the last registered first.
Post == posts[Len(posts) + 1 - at]

AtPost == phase = "posts" /\ ~busy /\ at <= Len(posts)

\* The condition is false, or cannot be evaluated.
SkipPost ==
    /\ AtPost
    /\ \/ NoMishap
       \/ Mishap({"step"})
    /\ GoOn
    /\ UNCHANGED <<contextVars, continueOnError, conclusion, preFailure, posts, held, outputVars, trace>>

BeginPost ==
    /\ AtPost
    /\ trace' = Append(trace, <<"post", Post>>)
    /\ busy' = TRUE
    /\ UNCHANGED <<phase, at, contextVars, continueOnError, resultVars, preFailure, posts, held, outputVars, mishaps>>

\* An error is joined; it never ends the loop.
EndPost ==
    /\ phase = "posts" /\ busy
    /\ \/ NoMishap
       \/ \E kind \in {"step", "hard"} : Mishap({kind})
    /\ GoOn
    /\ UNCHANGED <<contextVars, continueOnError, conclusion, preFailure, posts, held, outputVars, trace>>

PostsDone ==
    /\ phase = "posts" /\ ~busy /\ at > Len(posts)
    /\ Enter("finalize")
    /\ NoMishap
    /\ UNCHANGED <<contextVars, continueOnError, conclusion, preFailure, posts, held, outputVars, trace>>

-----------------------------------------------------------------------------
(* finalize, and the deferred calls of prepare and run                     *)

Tolerable == continueOnError /\ "hard" \notin errors

\* Mutant: a failure that is tolerated is reported all the same.
ReportTolerated ==
    IF cancelled THEN "cancelled" ELSE IF errors = {} THEN "success" ELSE conclusion

Concluded ==
    IF cancelled THEN "cancelled" ELSE IF errors = {} \/ Tolerable THEN "success" ELSE conclusion

Finalize ==
    /\ phase = "finalize"
    /\ \/ \* An output or an artifact name that must not be published.
          Mishap({"output"}) /\ UNCHANGED conclusion
       \/ /\ conclusion' = Concluded
          /\ tolerated' = (~cancelled /\ errors # {} /\ Tolerable)
          /\ UNCHANGED <<errors, mishaps>>
    /\ Enter("cleanup")
    /\ UNCHANGED <<contextVars, continueOnError, preFailure, posts, held, outputVars, trace>>

\* Deferred calls run in the opposite order of the acquisitions.
Release ==
    /\ phase = "cleanup" /\ held # <<>>
    /\ held' = Front(held)
    /\ \/ NoMishap
       \/ Last(held) \in DOMAIN ReleaseError /\ Mishap({ReleaseError[Last(held)]})
    /\ UNCHANGED <<controlVars, contextVars, continueOnError, conclusion, preFailure, posts, outputVars, trace>>

\* The deferred correction of jobRun.run.
Corrected ==
    IF conclusion = "success" /\ errors # {} /\ ~tolerated THEN "failure" ELSE conclusion

\* RunJob returns; the job's context ends with it.
Return ==
    /\ phase = "cleanup" /\ held = <<>>
    /\ conclusion' = Corrected
    /\ Enter("write")
    /\ NoMishap
    /\ UNCHANGED <<contextVars, continueOnError, preFailure, posts, held, outputVars, trace>>

-----------------------------------------------------------------------------
(* run-job after the job has run                                           *)

\* An empty conclusion is completed; the result file, if one is asked for, may
\* fail to be written.
Write ==
    /\ phase = "write"
    /\ \/ /\ conclusion' = IF conclusion = none THEN Terminal ELSE conclusion
          /\ NoMishap
       \/ conclusion' = Terminal /\ Mishap({"write"})
    /\ Enter("publish")
    /\ UNCHANGED <<contextVars, continueOnError, preFailure, posts, held, outputVars, trace>>

\* What PublishJobResult publishes in the place of a manifest it refuses.
Fallback == IF conclusion = "cancelled" THEN "cancelled" ELSE "failure"

\* On a context of its own, which the signal does not end: the manifest, or a
\* bounded one in its place, is uploaded; the upload fails, or only its answer
\* is lost.
Publish ==
    /\ phase = "publish"
    /\ \/ receipt' = conclusion /\ NoMishap
       \/ receipt' = Fallback /\ Mishap({"publish"})
       \/ receipt' \in {none, conclusion, Fallback} /\ Mishap({"publish"})
    /\ Enter("exit")
    /\ UNCHANGED <<contextVars, continueOnError, conclusion, preFailure, posts, held, exit, trace>>

Status == IF errors = {} THEN "0" ELSE IF tolerated THEN "78" ELSE "1"

Exit ==
    /\ phase = "exit"
    /\ exit' = Status
    /\ Enter("over")
    /\ UNCHANGED <<contextVars, continueOnError, resultVars, preFailure, posts, held, receipt, ghostVars>>

-----------------------------------------------------------------------------
(* The environment                                                         *)

\* Mutant: the job does not run on the context that a signal ends.
SignalUnheard ==
    /\ ~signalled /\ phase # "over"
    /\ signalled' = TRUE
    /\ UNCHANGED <<controlVars, cancelled, postOver, continueOnError, resultVars, preFailure, posts, held, outputVars, ghostVars>>

\* SIGTERM or an interrupt: the context of the command is done.
Signal ==
    /\ ~signalled /\ phase # "over"
    /\ signalled' = TRUE /\ cancelled' = TRUE
    /\ UNCHANGED <<controlVars, postOver, continueOnError, resultVars, preFailure, posts, held, outputVars, ghostVars>>

\* timeout-minutes, from the moment the job's context exists.
Deadline ==
    /\ ~cancelled
    /\ phase \in {"setup", "pre", "steps", "posts", "finalize", "cleanup"}
    /\ phase = "cleanup" => held # <<>>
    /\ cancelled' = TRUE
    /\ UNCHANGED <<controlVars, signalled, postOver, continueOnError, resultVars, preFailure, posts, held, outputVars, ghostVars>>

\* The posts' budget, or their grace once the job is cancelled, is over.
PostsExpire ==
    /\ phase = "posts" /\ ~postOver
    /\ postOver' = TRUE
    /\ UNCHANGED <<controlVars, signalled, cancelled, continueOnError, resultVars, preFailure, posts, held, outputVars, ghostVars>>

\* The agent, or the host, kills the process.
Killed ==
    /\ phase # "over"
    /\ exit' = "killed"
    /\ Enter("over")
    /\ UNCHANGED <<contextVars, continueOnError, resultVars, preFailure, posts, held, receipt, ghostVars>>

Over == phase = "over" /\ UNCHANGED vars

\* Steps of run-job itself.
Advance ==
    \/ StartFails \/ Start \/ Hydrate \/ Prepare \/ Acquire \/ AcquireFails \/ Prepared
    \/ PassPre \/ RejectPre \/ PreCannotStart \/ BeginPre \/ PresDone
    \/ CommitPreFailure \/ SkipStep \/ RejectStep \/ BeginStep \/ StepsDone
    \/ SkipPost \/ BeginPost \/ PostsDone
    \/ Finalize \/ Release \/ Return \/ Write \/ Publish \/ Exit

Next ==
    \/ Advance \/ EndPre \/ EndStep \/ EndPost
    \/ Signal \/ Deadline \/ PostsExpire \/ Killed \/ Over

\* Processes of the workflow may run for as long as their context is alive;
\* after that they are terminated.  Timers expire.
Fairness ==
    /\ WF_vars(Advance)
    /\ WF_vars(cancelled /\ (EndPre \/ EndStep))
    /\ WF_vars(postOver /\ EndPost)
    /\ WF_vars(PostsExpire)

Spec == Init /\ [][Next]_vars /\ Fairness

-----------------------------------------------------------------------------
\* The values the variables take.
TypeOK ==
    /\ phase \in Phases /\ at \in Nat \ {0} /\ busy \in BOOLEAN
    /\ signalled \in BOOLEAN /\ cancelled \in BOOLEAN /\ postOver \in BOOLEAN
    /\ continueOnError \in BOOLEAN
    /\ errors \subseteq Errors /\ mishaps \subseteq Errors /\ tolerated \in BOOLEAN
    /\ conclusion \in Conclusions
    /\ preFailure \in [Steps -> {none, "success", "failure", "cancelled", "hard"}]
    /\ posts \in Seq(Steps) /\ held \in Seq(Range(Acquisition))
    /\ receipt \in Conclusions /\ exit \in {none, "0", "1", "78", "killed"}
    /\ trace \in Seq({"pre", "main", "post"} \X Steps)

\* A receipt says success only if nothing went wrong, or if continue-on-error
\* forgives everything that did: neither a hard failure, nor one of outputs,
\* cleanup or of the result file is ever hidden, whenever it happens.  (An
\* upload whose answer is lost has published what it has published.)
\* The exit status tells Buildkite exactly what happened: 0 if nothing went
\* wrong, 78 only for what continue-on-error forgives, and a job that reports
\* back has published unless the publication is what failed.
VerdictHonest ==
    /\ receipt = "success" =>
        LET wrong == mishaps \ {"publish"} IN
        wrong = {} \/ (continueOnError /\ wrong \cap Unforgivable = {})
    /\ exit \in {"0", "1", "78"} =>
        /\ exit = "0" <=> mishaps = {}
        /\ exit = "78" => continueOnError /\ mishaps \cap Unforgivable = {}
        /\ receipt = none => mishaps \cap {"start", "publish"} # {}

\* Posts are run once each, the last registered first, and only for actions
\* that have started; no main runs after its own pre has failed; and whatever
\* of a JavaScript action has started has its post registered.
LifecyclesPaired ==
    LET Ran(kind) == {i \in DOMAIN trace : trace[i][1] = kind}
        Place(s)  == CHOOSE i \in DOMAIN posts : posts[i] = s
    IN  /\ IsInjective(trace) /\ IsInjective(posts)
        /\ \A i, j \in Ran("post") : i < j => Place(trace[i][2]) > Place(trace[j][2])
        /\ \A i \in Ran("post") : \E j \in Ran("pre") \cup Ran("main") :
              j < i /\ trace[j][2] = trace[i][2]
        /\ \A i \in Ran("main") : preFailure[trace[i][2]] = none
        /\ \A i \in Ran("pre") \cup Ran("main") :
              Kind[trace[i][2]] # "run" => Registered(trace[i][2])

\* While a process of the workflow runs, everything the job needs is held; when
\* the result is written nothing is.
ResourcesOutliveProcesses ==
    /\ busy => Range(held) = Needed
    /\ phase \in {"write", "publish", "exit"} => held = <<>>

\* A job that is told to stop reports back, or is killed.
CancelledJobEnds == signalled ~> exit # none

\* To the build, a job does what JobContract says.
Contract == INSTANCE JobContract
ImplementsContract == Contract!Spec

\* TestRunJobPublishesEveryTerminalResultAfterCancellation: a job whose
\* published result is cancelled exits with status 1.
CancelledJobFails == receipt = "cancelled" /\ exit # none => exit # "0"
=============================================================================
