# A TLA+ model of buildkite-gha

buildkite-gha runs GitHub Actions workflows on Buildkite. An importer (`upload`)
compiles the workflows that the build's event selects into plans and uploads a
Buildkite pipeline. Each generated step runs `run-job`, which runs one GitHub
job: it reads the results of its prerequisites from receipts, runs the steps, and
publishes a receipt of its own. A matrix that depends on another job's output is
expanded later by a *stage step*, a job of the same build that uploads more
steps.

The hard behaviour is in the goroutines inside one job, the processes of one host
that share a cache directory, the jobs of one build that are retried while others
read their receipts, the stage steps that upload into the same build, and in
decisions that are made twice, once by the importer and once by the runner or a
later stage.

Contents: [inventory](#inventory), [modules](#modules), [runs](#runs),
[fairness](#fairness), [proofs](#proofs), [findings](#findings),
[limits](#what-is-not-modelled), [plan](#plan).

To run a model: `tlc -config MCJobRun.cfg MCJobRun`. To check the proofs of a
module: `tlapm JobRunProofs.tla`. Paths of the source below are relative to
`src/internal/` unless they start with `src/`. `PROJECT.json` maps each definition
to the lines it models.

## Inventory

| Component | State | Operations | What makes it hard | Correct when |
|---|---|---|---|---|
| Background step supervisor (`runtime/concurrent.go`, `runSteps`) | tasks, queue, start order, active count, one mutex; a context per step | start, dispatch, wait, wait-all, cancel, drain, commit | the RunJob goroutine and one goroutine per step contend for the mutex; contexts end at any time | slots are accounted for; nothing waits while a slot is free; effects are merged in program order; no failure is lost; nothing is left when posts run |
| Job attempt and action life cycle (`runtime/job_run.go`, `job_result.go`, `action_execution.go`, `cli/run_job.go`) | phase of the call chain, joined errors, conclusion, registered posts, acquired resources, receipt, exit status; the tree of nested actions | hydrate, prepare, pre, main, post, finalize, clean up, write, publish | every step can fail; two contexts with different ends; results are corrected by deferred calls; kill at any point; the tree is walked twice | receipt and exit status agree with what happened; posts are paired; resources outlive processes; a failed pre is told of; a cancelled job ends |
| Action source cache (`action/source/action_cache*.go`, `source.go`) | entries, LRU order, `.size-v1`, partial downloads, file locks, leases | open, materialize, retain, release, publish, maintain | several processes, advisory locks only, non-atomic removal, crashes | what is leased stays complete; one fetch per entry; exact size; eviction down to the limit |
| Action reference resolution (`action/source/action_resolution_snapshot.go`, `mutable_ref_cache.go`, `missing_ref_resolutions.go`; `compiler/actions.go`) | snapshot generation, claims, entries, flights, cached commits, the token of a process; pins and locks of a compilation | resolve, claim, publish, refresh; materialize, pin, lock | refs move; crash between claim and entry; cancelled leader of a flight, or first caller of the token provider; callers of other paths of the same ref | one commit per ref and generation; one pin per ref and build; waiters come to an end; locks follow from uses |
| Result transport (`transport/results.go`, `terminal_results.go`, `runtime/needs.go`) | receipts of all attempts, the step's state as Buildkite tells it | search, download, two looks around a search of history, merge, project | attempts change between queries; failed queries | a need says what the attempts it was drawn from have published; a recovered failure is justified |
| Staged uploads (`cli/upload_stage.go`, `cli/stage.go`, `compiler/runtime_matrix*.go`, `job_graph_expansion.go`) | stage records, keys and gates of the build, share of the graph bound; what each stage compiles and leaves | read producers, skip, decide, ask for gates, upload, replay, pass a race, leave a child stage | concurrent stages, lost answers, kills, retries of stages and of producers; each stage compiles again what the ones before it did | gates present, one expansion, success means applied, no spurious failure, stages agree |
| Importer (`cli/upload.go`, `cli/hosted*.go`, `cli/path_filters.go`, `buildkite/triggers.go`) | files in a staging directory, compilations of each workflow | read the event, filter paths, select workflows, compile, upload artifacts, upload the pipeline once | incomplete histories and webhooks; compilations that fail in part; order of artifacts and pipeline | the workflows selected are those GitHub would run; nothing is dropped in silence; nothing is referred to that was not uploaded |
| Compiler (`compiler/reusable.go`, `matrix.go`, `actions.go`) | none (pure, over what was fetched) | flatten calls, expand matrices, lock actions | depth, conditions of calls, names that differ in case | the flattened jobs run as authored; rows as declared |
| Expression engine (`expression`) | none (pure) | reduce at import, analyze, evaluate at run time | the same condition is decided with two sets of contexts | both come to the same decision |
| Buildkite pipeline emission (`buildkite/pipeline.go`, `concurrency_gates.go`) | none | emit steps, gates, concurrency groups; check for cycles | groups and dependencies that wait for each other | groups exclude each other; no accepted pipeline gets stuck |
| Process execution (`runtime/process_execution.go`, `process_unix.go`, `containers.go`) | a process group, pid file and marker of a container exec | start, interrupt, terminate, kill | forks and exits while signals are sent; two helpers that meet through files | nothing survives a cancelled step without an error |
| Containers (`runtime/containers.go`) | network, services, volumes, container | start, wait for health, clean up | Docker commands that fail before or after they take effect | what was created is removed or reported |
| Workflow command output and environment files (`runtime/command_output_processor.go`, `runtime/command_files.go`) | masks, stop token, annotations; environment and PATH | process a line of either stream; commit a step's files | two streams of one step, several steps | a mask holds from the line that adds it; effects follow the order of commits |
| Token services and secrets (`runtime/oidc_token_service.go`, `github_token_service.go`, `secrets.go`) | attempts, registrations, masks | request, retry, serve, revoke | a phase that ends during a request; several failures at once | no credential outlives its phase or is written unmasked; one class per failure |
| Artifact adapters and checkout (`runtime/upload_artifact.go`, `download_artifact.go`, `checkout.go`) | file system of the job, stored artifacts, directories taken | select, check, archive, install; take a directory, run git | other steps change the files; commands fail half way | what is stored is what was selected; a checkout that passes has what was asked for |
| Transport boundary (`transport/boundary.go`) | none | calls of the agent's command line | lost answers and refusals | seen through its callers |
| Workflow parser, action metadata, plans, reports, helpers, telemetry, scripts, schemas | none or little | parse, validate, render | | |

How they interact. The importer writes plans, action locks and stage records as
artifacts and uploads steps. A generated step's `run-job` reads receipts through
result transport (at most one search per needed step and scope), acquires sources
from the cache and keeps leases on them until it exits, runs its steps through
the supervisor, and publishes its receipt through the boundary. Stage steps read
the same receipts and add steps to the same build. Receipts and step keys are
thus the shared state of a build, and the cache directory that of a host.
`PROJECT.json` lists each component with its status, and the hazards at their
lines.

## Modules

| Module | Models | Go it stands for |
|---|---|---|
| `StepLedger` | what the step phase promises (abstract) | — |
| `BackgroundSteps` | the step phase of one job, concurrently | `runtime/concurrent.go`, `runSteps`, classification |
| `BackgroundStepsProofs` | theorems about it, with its refinement | — |
| `JobContract` | what an attempt promises to its build (abstract) | — |
| `JobRun`, `JobRunProofs` | one attempt at a job | `cli/run_job.go`, `runtime/job_run.go`, `job_result.go`, `action_execution.go` |
| `NestedActions` | the tree of actions of a job, walked for pre hooks and for mains | `runtime/action_execution.go` |
| `ActionProofs` | theorems about `NestedActions`, `ActionLocks` and `StepEffects` | — |
| `StepProcess` | one process and its cancellation, on the host and in a container | `runtime/process_execution.go`, `process_unix.go`, `containers.go` |
| `JobContainers` | network, services, volumes and container of a job | `runtime/containers.go` |
| `StepOutput` | lines of concurrent streams, masks and commands | `runtime/command_output_processor.go` |
| `StepEffects` | what steps do to the environment of later ones | `runtime/command_files.go`, `action_execution.go` |
| `JobServices` | workflow token, ID tokens, secrets, failure classes | `runtime/*token_service.go`, `runtime/secrets.go`, `cli/run_job.go` |
| `Checkout` | the checkout adapter | `runtime/checkout.go` |
| `StepProofs` | theorems about `StepProcess`, `JobContainers`, `Checkout` and `ArtifactTransfer` | — |
| `ArtifactTransfer` | the artifact adapters | `runtime/upload_artifact.go`, `download_artifact.go` |
| `ResultTransport`, `ResultTransportProofs` | needs, read from attempts that keep to `JobContract` | `transport/*results.go`, `runtime/needs.go` |
| `ActionCache`, `ActionCacheProofs` | the cache directory and its processes | `action/source/action_cache*.go`, `source.go` |
| `RefResolution` | refs, snapshots, flights and tokens of several processes | `action/source/action_resolution_snapshot.go`, `mutable_ref_cache.go`, `missing_ref_resolutions.go`, `source.go` |
| `PinnedSource` | the pins of one build | `compiler/actions.go` |
| `ActionLocks` | the locks of the action tree of a job, and their check | `compiler/actions.go`, `plan/plan.go` |
| `StageUpload`, `StageUploadProofs` | stage steps of one build; theorems, those about `TriggerSelection` too | `cli/upload_stage.go`, `cli/stage.go`, `compiler/runtime_matrix*.go` |
| `DeferredGraph` | which jobs a stage compiles and which it leaves | `compiler/job_graph_expansion.go` |
| `Matrix` | the rows of a matrix | `compiler/matrix.go`, `workflow/parse.go`, `compiler/runtime_matrix.go` |
| `Expressions` | reduction at import and evaluation at run time | `expression`, `compiler/reusable.go` |
| `CalledWorkflows` | workflows that call workflows, flattened | `compiler/reusable.go` |
| `PipelineEmission` | the steps of a pipeline, their groups and gates | `compiler/bundle.go`, `buildkite/pipeline.go`, `concurrency_gates.go` |
| `WorkflowContract` | what a workflow promises its author (abstract) | — |
| `WorkflowBuild` | builds of such pipelines on Buildkite | `buildkite`, `cli/run_job.go` |
| `TriggerSelection` | event, changed paths, selection | `cli/hosted*.go`, `cli/path_filters.go`, `buildkite/triggers.go` |
| `Importer` | one run of the upload command | `cli/upload.go` |
| `ImportProofs` | theorems about `RefResolution`, `PinnedSource`, `Importer` and `WorkflowBuild` | — |

`MC*` modules give the constants values. Components that share what they are about
share a run: an MC module then EXTENDS several of them, a variable `part`, chosen
in its Init and never changed, says which of them a behaviour is of, and the
variables of the others rest. The parts are

| MC module | parts |
|---|---|
| `MCLocks` | background, cache |
| `MCSteps` | background (one slot), checkouts |
| `MCJobRun` | job, process, containers, output, tree, effects, services |
| `MCNeeds` | needs, expressions, graph, matrix |
| `MCUpload` | selection, stages, transfers |
| `MCImport` | build, refs, locks, pins, command |

Composition. `BackgroundSteps` implements `StepLedger`. `JobRun` implements
`JobContract`, and `ResultTransport` instantiates `JobContract` for the attempts
it reads, so that what a job can publish and exit with is stated once, checked
against the job and assumed by its readers. `StageUpload` lets a producer be
retried after it has published a success, because `JobContract` allows it (the
answer to the publication is lost, the cleanup fails: exit 1). `WorkflowBuild`
implements `WorkflowContract`, which speaks of the authored jobs where
`WorkflowBuild` has the flattened ones. `JobRun` sees of the modules below it that
a process ends after its context does, that a resource may fail to be acquired
or released and that a step may fail; `StepProcess`, `JobContainers`, `StepOutput`,
`NestedActions`, `StepEffects` and `JobServices` say what that comes to.


### BackgroundSteps

One job's program is a sequence of run, wait, wait-all and cancel instructions,
of the shape `Program.Validate` admits (`ValidProgram`). `pc`, `phase` and
`barrier` are where the RunJob goroutine stands. `task`, `order`, `queue`,
`active` are the supervisor's fields under its mutex; `worker`, `result`, `cause`
are the step's goroutine, what the process returned, and `context.Cause` of its
context; `visible`, `commits`, `runErr` are what the job sees.

What is atomic: everything between a Lock and an Unlock, except `dispatchLocked`,
which is one action per iteration (`Dispatch`, `Unlock`) because it reads
contexts that end without the mutex. `executePlanStep` classifies a returned
step *before* it takes the mutex to finish it, so `ClassifyBackground` and
`FinishBackground` are two actions. A `parallel` block is turned into background
steps and a wait when the workflow is parsed (`workflow/concurrency.go`), and needs
no action of its own.
A step's conclusion depends on its result, on the cause of its context, on
whether the job's context has ended and on `continue-on-error`; the data it
produces is left out, the order in which it is merged is not.

### JobRun and what it stands on

The call chain as a phase: start, hydrate, prepare, setup, pre, steps, posts,
finalize, cleanup, write, publish, exit. `prepare` runs the later phases inside
its own call, which is why resources are released only afterwards. Errors are
told apart by what the code does about them: those `continue-on-error`
forgives (`workflow`, `step`) and those it does not. `mishaps` and `trace`
record what went wrong and which phases were started; they are history, and no
guard reads them. Steps run one after the other: their concurrency is
`BackgroundSteps`' subject.

`NestedActions` has the two walks over the tree of actions, ahead of all steps for
pre hooks and in each step for mains. `StepProcess` has a process group whose members
fork, exit and ignore signals, and whoever terminates it; in a container two
helpers that meet through the pid file and a marker. `JobContainers` has every
docker command as an action that succeeds, fails, or fails after it took effect.
`StepOutput` has the lines of all streams, which one lock orders. `StepEffects` has
`Result`s and how composite actions join those of their steps. `JobServices` has
retries in whole seconds and errors as trees, because classes are told apart by
what they wrap. `Checkout` has one action per git command, `ArtifactTransfer` one
per file that an adapter looks at, since other processes of the job change files
in between.

### ResultTransport

Attempts of each step, each with a receipt and an outcome; a step can be retried
between any two queries of the consumer. Every query is an action, since
Buildkite answers them one at a time and the answers carry no attempt. The first
search finds the receipt of the attempt that is not retried; without one, a
runtime scope looks at the step, searches all attempts, and looks again
(`resolveTerminalNeedResult`); a strict scope fails. `evidence` is history: from
which attempt a scope has drawn.

### ActionCache and the references of actions

`disk`, `lru`, `recorded` and `partials` are the directory; the lock variables
are flocks, which a process that dies drops. An entry being removed is `damaged`
or `headless` (no manifest) until it is gone, and stays so after a crash. Locks
are taken by polling: nothing is assumed of who gets one. Downloading and
extracting is one step that may fail.

`RefResolution` has the snapshot directory (claims, entries and the generation in
use), the table of flights of each process, its token and the remote refs, which
move. The leader of a flight starts with the token: `provision` is a `sync.Once`, so
that the first caller of a process runs the provider in its own context
(`provisioner`) and others wait, whether or not theirs have ended; what it returned
(`provided`) is kept. A process without a provider, and `validate-batch`, whose token
is in its environment, are given an answer at once that no context interrupts. A
provider that asks the agent may return that its caller's context has ended.
`PinnedSource` has the tables of `memoizedActionSource`: fetches under way, pins,
what is kept. `ActionLocks` has both walks over the actions a job uses as stacks
of frames, the one that makes locks and the one that checks them.

### StageUpload and DeferredGraph

`build` maps the keys of a build to what was uploaded under them; Buildkite takes
an upload whole or refuses it if one key exists. A stage reads its producers one
download at a time, decides (`Decide`: skip, budget, compile, advance), asks for
gates one query at a time (a query that fails says there is none), uploads, and
after a refusal compares (`alreadyApplied`) or finds the race
(`uploadAfterGateRace`). Its record holds the results of the earlier stages, its
share of the bound and the gates that exist when it runs. A row's plan is the
values of the roots it depends on, which is what its digest is made from.
`DeferredGraph` has what a stage compiles: it expands what has rows by now, defers
the rest, and proves that the stages before it did the same.

### WorkflowBuild and what an import decides

`CalledWorkflows` flattens an authored tree of workflows, `PipelineEmission` turns
the flattened jobs into steps, `WorkflowBuild` runs one or two such pipelines as
Buildkite does: dependencies, ordered concurrency groups across builds,
cancellation in progress. `TriggerSelection` starts one step earlier, with the
environment, the webhook and the checkout of a build. `Importer` has the
compilations of each workflow and what is uploaded of them. `Expressions`
evaluates one condition twice, at once over everything and as the code does, in
part at import and the rest at run time; `Matrix` reads one definition in three
ways.

## Runs

| Run | Question | Bounds, and why they are enough |
|---|---|---|
| `locks` | slots, lost wakeups, commit order and verdict of a step phase; leases, fetchers and size of a cache | 2 slots, 3 background steps: one queues while one finishes and one starts. The programs have a barrier against start order, a cancel that meets its target queued, running or finished, a barrier that finds its target committed, an implicit drain and a foreground step after a failure. Cache: two entries of 1 byte and a limit of 1, so that they do not fit together; three bounded processes without fault (one publishes, one holds, one maintains), or a bounded and an unbounded one with two leases each and one crash or failure at any point |
| `background_single_slot` | FIFO admission, panics, liveness, `StepLedger`; checkouts | 1 slot: every second step queues. Checkouts: one with any input that concerns the provider, and two in one directory or below each other, in turn or at once, with two troubles (a command that fails, a file left behind, a move of the branch) |
| `own_failure_before_cancel` | violation, see findings | as the background part of `locks` |
| `job_run` | one attempt at a job, and processes, containers, output, nested actions, environment and credentials below it | a remote action (pre before all steps) and a local one with `always()` and tolerated failure, three resources, one for each way a release can fail. A process with one failure; two services and a job container with two; four lines with nested, crossing and multi-line masks; a tree of six actions, two deep, with composite ones that have actions and one that has none, and continue-on-error of any of the first three; three steps that write; two phases of actions, one of which asks for ID tokens |
| `cancelled_job_passes` | violation | as `job_run` |
| `needs` | what a need says; expressions; graphs; matrices | two steps, one retry at any point, two scopes, four receipts and every exit status `JobContract` admits, outputs merged or projected. Conditions of up to two operators. Graphs of up to six jobs with up to four deferred matrices, `MaxGraphJobs` 9 and two rows. Two dimensions, two includes, two excludes |
| `receipt_overlooked` | violation | two steps, one retry |
| `uploads` | which workflows run; staged uploads; artifacts | all kinds of builds with histories of up to two commits above a base; a stage with a child beside one of two joined roots, behind shared gates, two attempts of two producers, two runs of two stages, one fault, a share of 5, which the largest expansion exceeds; two transfers at a time and up to three artifacts |
| `retried_producer_expands_twice` | violation | one matrix without dependents, one producer with two attempts, one stage with two runs |
| `imports` | builds of called workflows; resolution of refs; locks; pins; the upload command | calls two deep, two builds; two callers that resolve refs: of one process with one ref or with two, with or without a cache, with a token provider, or of two processes with one snapshot, each cancelled at any point, one move of a ref (which is there at first, or, for two callers of one ref without a cache, perhaps not), two generations, one crash or failed write; four composite actions three deep; three fetches of one ref; two workflows with two troubles |
| `late_helper_starts` | violation | one process in a container |
| `shared_join_uploaded_twice` | violation | as the graphs of `needs` |

The bounds are constants of the modules (`MaxRetries`, `MaxFaults`, `MaxRuns`,
`MaxAttempts`, `MaxTrouble`, `MaxGenerations`, ...), named where they are declared;
guards use them only to stop retrying, failing, moving or leasing. Symmetry is used
in two runs without temporal properties: in `locks` for cache entries and for the
processes of the setup in which all are bounded, in `needs` for the values of
outputs. Deadlock is checked except in `needs`, `uploads` and
`retried_producer_expands_twice`: readers have their answers, and stages and
producers that may be retried no more are done. The other modules end in an
explicit stutter, or never end.

What each property says is stated above it, in the module of its component. One of
them holds together what used to be several smaller ones where they are about
one hazard; a shorter one would hold by construction.

## Fairness

Only two runs have liveness, each for one part.

* `background_single_slot` (`JobsDrain`): weak fairness of the goroutines, as the
  Go scheduler gives it (the mutex's holder, the RunJob goroutine, each step's
  goroutine), and of the return of a step whose context has ended, because its
  process is interrupted, terminated and killed on timers
  (`runtime/process_unix.go`; `StepProcess` has how). A step whose context is alive
  may run for ever, so a job that is not cancelled drains only under the
  hypothesis that its steps return. Finishing a task is weakly fair only: its
  guard needs the mutex, and the mutex is given back while the goroutines ahead
  of it are finitely many.
* `job_run` (`CancelledJobEnds`): weak fairness of the steps of `run-job` itself, of
  the end of a process whose context has ended, and of the timer that bounds the
  posts. Nothing makes a live process return or a signal come.

`MCSteps` and `MCJobRun` give this fairness to behaviours of that part alone
(`Supervised`, `InJob`). Everything else is safety: locks are polled, and
Buildkite's scheduling is not under the code's control. That no accepted pipeline
gets stuck (`QueuesSound`) is a statement about states: while a step of any build has
not ended, some step can act.

## Proofs

The theorems hold for every value of the constants that satisfies the assumptions
stated with them (`ASSUME`, evaluated by TLC in the runs): finite or arbitrary sets
of steps, processes, entries, callers, stages, checkouts; any number of faults,
retries and crashes. Each safety property is proved from an inductive invariant
that is stronger than it; each invariant was model-checked before it was proved.

| Theorems | Of | Run property |
|---|---|---|
| `BackgroundStepsProofs`: `Invariant`, `TypeCorrect`, `SupervisorNeverPanics`, `SlotsAccountedFor`, `DispatchIsWorkConserving`, `AdmissionIsFifo`, `QuiescentAfterSteps`, `JobErrorIsExact`, `MergeInvariant`, `EffectsMergeInOrder`, `RefinementInvariant`, `StepsImplementLedger` | `BackgroundSteps`, `StepLedger` | `TypeOK`, `NoPanic`, `SlotAccounting`, `WorkConserving`, `AdmissionOrder`, `Quiescent`, `JobErrorExact`, `DeterministicCommits`, `ImplementsLedger` |
| `ActionProofs`: `TreeInvariant`, `PresAreReported` | `NestedActions` | `PresReported` |
| `ActionProofs`: `LockInvariant`, `LocksAreThoseOfUses` | `ActionLocks` | `LocksFollowUses` |
| `ActionProofs`: `EffectsInvariant`, `EffectsFollowSteps` | `StepEffects` | `EffectsFollow` |
| `JobRunProofs`: `RunInvariant`, `VerdictIsHonest`, `ResourcesHeld`, `LifecyclesArePaired`, `AttemptImplementsContract` | `JobRun`, `JobContract` | `VerdictHonest`, `ResourcesOutliveProcesses`, `LifecyclesPaired`, `ImplementsContract` |
| `ActionCacheProofs`: `CacheInvariant`, `CacheEntriesSound`, `LimitInvariant`, `LimitIsKept` | `ActionCache` | `EntriesSound`, `LimitKept` |
| `ResultTransportProofs`: `TransportInvariant`, `RecoveryIsJustified`, `NeedsAreExact` | `ResultTransport` | `EvidenceSound`, `NeedsExact` |
| `ImportProofs`: `ResolutionInvariant`, `SharedSoundly`, `PinInvariant`, `PinnedOnce`, `ImportInvariant`, `UploadDropsNothing` | `RefResolution`, `PinnedSource`, `Importer` | `ResolutionSound`, `OnePinPerRef`, `NothingDropped` |
| `ImportProofs`: `BuildInvariant`, `BuildsQueueSoundly` | `WorkflowBuild` on `PipelineEmission` and `CalledWorkflows` | `QueuesSound` |
| `StageUploadProofs`: `UploadInvariant`, `GatesArePresent`, `ExpandedOnce`, `PassIsApplied` | `StageUpload` | `GatesPresent`, `OneExpansion` (and half of `ExitHonest`) |
| `StageUploadProofs`: `SelectionInvariant`, `BuildsRunWhatGitHubRuns` | `TriggerSelection` | `SelectionAgrees` |
| `StepProofs`: `ProcessInvariant`, `NothingSurvives`, `ContainersInvariant`, `CleanupIsHonest`, `CheckoutInvariant`, `CheckoutsExact`, `TransferInvariant`, `TransfersAreExact` | `StepProcess`, `JobContainers`, `Checkout`, `ArtifactTransfer` | `CancelledProcessesDie`, `CleanupHonest`, `CheckoutExact`, `TransfersExact` |

**Step phase.** None of the invariants is inductive alone. That the queue is in start
order needs that a step is queued only when the program reaches it for the first
time (`FreshInv`, which needs unique ids in `ValidProgram`), that `order` and `queue`
list exactly the started and the queued tasks (`OrderInv`, `QueueInv`), and
`QueueOrder` between them. That a slot is given back once needs that a task's state
and its goroutine's progress go together (`WorkerInv`), which rests on no step being
both a task and in the foreground (`ForegroundInv`). That nothing is left at the end
needs that the last barrier covers every task that is not committed (`DrainInv`):
the barrier is `order` as it was when it was looked up, and no task is started while
RunJob is in it (`ControlInv`). The type invariant is part of `IInv` because
`active \in 0..Limit` is: the subtraction when a slot is given back is safe by
`SlotAccounting`. `JobErrorIsExact` adds when each failure is joined.
`EffectsMergeInOrder` holds for every program and every interleaving: `commits`, the
log of merges, stays in the order `Precedes` computes from the program alone. Tasks are
started in the order of the program (`StartOrder`); every merge belongs to an
instruction that is past or under way, so nothing is merged early (`MergedInv`); and
what a barrier has left comes after what it has merged, in its own order (`RestInv`),
so the next merge keeps the log sorted (`SortedInv`). That nothing is merged late is
`UncoveredInv`: no barrier that covers a task is passed without merging it. The
refinement adds that a task is visible exactly when it is committed and that a
finished task has been judged (`VisibleInv`), and that a step is not visible before
the program decides about it (`UnseenInv`); each action then maps to one of the
ledger (`SubmitMaps`, `CloseMaps`, `RecordMaps`, `PublishMaps`, `SealMaps`) or to a
stutter.

**Attempt.** `RunInv` says for each phase which verdicts, errors, resources and
files there can be: what has gone wrong is an error of the run or will be when its
step is reached (`AccountInv`, with the failed pres still `Owed`), the conclusion
agrees with the errors (`ConclusionInv`) and the receipt with both (`ReceiptInv`).
`LifeInv` does the same for what has been started. The contract follows step by
step: everything before the publication is a stutter of `JobContract`.

**Nested actions.** `PresReported` is proved for every tree. A walk is at a place of it,
entering or leaving a node; what it is in are the actions above the place
(`OpenAt`), what it is done with only grows (`DoneGrows`). Failures are joined in the
actions the walk is in, those of what it is done with (`JoinedInv`), and the failure
of a pre is in one place until its step is walked (`Waiting`). From then on it is
queued, told of or fails the job (`Known`), and one of these unless something was cut
short (`Once`). That a queued failure which is joined as well is not told of twice
needs that none of the actions it got through forgives it (`MeetInv`), and that the
first to forgive it is not a step (`PendingInv`); that an action is met with its failure
still queued needs that all failures ahead of the walk are (`AheadInv`). The root of a
node is a recursive function: facts about it, and about all that is above a node,
are by induction over the nodes, which is here that a set of numbers has a least
element (`LeastNatural`, `NodeInduction`).

**Locks.** `LocksFollowUses` is proved for every well-formed tree, cyclic ones
included. What is under way, in either walk, is a path of the tree (`FramesInv`);
every entry describes a use of something at a level within the limit, and has the
uses that are not left in a frame (`FoundInv`, `BuildInv`), so that when nothing is
left the entries are closed under use and are all of `Used` (`CompleteInv`,
`UsedReached`). That a refusal is right needs that what a cycle goes through is at
every level (`CyclesAreDeep`), for then the last level is not empty and the tree has
no plan. That an acceptance is right needs the heights: a recorded height is at
least one more than each of those below it (`HeightsInv`), so that a lock accepted
at a depth has nothing below the limit, although it was walked only where it was met
first; and it is at most what the limit leaves below any level the lock is at
(`Tall`), so that `FitsBelow` refuses no tree that fits. `Levels` is a recursive
function; facts about it are by the least level at which they fail
(`LevelInduction`). The hypothesis `HomeKept`, that the workflow's own repository is
not the one whose commits are substituted, is needed: see below.

**Environments.** `EffectsFollow` is proved for every job: any number of steps, each a
program of any length, with any writes. Merging the result of every leaf into what the
step has so far, and that into the job once the step ends, is compared with leaves that
write in turn into one environment. The induction over the leaves of a step (`Follows`)
needs more than that the variables agree: the base of the result with the entries
added to it is the `PATH` that a sibling would see, and where nothing was added the
`PATH` of the result is its base; for a leaf may replace `PATH` and prepend to it, and
each of the two is merged in its own way. A second induction goes over the steps of the
job (`JobFollows`, `JobsFollow`), for which a commit must preserve what the first
shows. What siblings would see is given by recursive functions over the leaves;
`Iterated` unfolds them and `UpTo` is the induction, by the least number again.

**Cache.** The processes share files and locks and nothing else, and the argument
has that form, rely and guarantee: what is true of a process where it stands (its
locks, what it has looked at) is kept by its own steps, and no step of another
process disturbs it, because that step would need a lock the first one holds. Two
parts relate processes to each other: exclusive and shared locks, and leases to
what is on disk.

**Limit.** `LimitKept` needs a second invariant, `LimitInv`. Its first half
(`Accounted`) says what the maintainer's arithmetic is about: the list is what is on
disk, `.size-v1` is the sum of it whenever nobody has the maintenance lock, and
while somebody has, the running total and what was recorded differ from the sum by
the one entry that is being published, taken back or evicted. The lemma behind it
is that a sum over the entries is one of them and the rest (`PileSplit`); the model
counts bytes as a set so that no induction is needed for it. The second half
(`Awaited`) is why the last one out evicts: while the recorded size is over the
limit there is a process that is at work or has a lease, and since a maintenance
passes over entries only because such a process has used or locked them (`HeldBusy`),
whoever maintains may stop: somebody else will look at the size again. It takes
that no store was opened before the size was known (`Unopened`), that all stores are
bounded, and that no Materialize has failed, which leaves without looking. A step
is of the one maintainer (`AloneAccounted`, `AloneAwaited`) or leaves the disk alone
(`LightAccounted`, `LightAwaited`).

**Needs.** A job that has finished or has published does not take it back (`Kept`), so
what a consumer has drawn stays what the attempts say (`DrawnSound`), and each need
is the sum of what was drawn for it (`NeedSums`). The sum is over a set whose
elements come in one by one; induction over the set is not needed, only what adding
one element does.

**References.** For a snapshot: who looks a ref up holds its lock and finds nothing
pinned, one process at most opens a generation, and a caller in a flight is the one
the table names. For a flight: who waits, waits for a caller of its own process that
is at work or has ended (`TablesServed`, `WaitsNear`); a caller's interruption is its
own, or that of the process's one call of the token provider, which is lost only
with the context of the caller who made it (`Provisioned`). That it is never another's
at all would be false; `TokenLost` states the exception, and the notes below say how
it comes about. A step is of a process or of one caller; those of a caller are first
reduced to what they may change. For the pins of a build: the tables name exactly the
fetches under way, the records of a ref never change, and whoever waits is served by
what it waits for.

**Upload command.** A bundle is `Sound` when its planned jobs have all they need
among them and a runtime, and every other job failed or follows one that did. That
a compilation leaves such a bundle (`CompiledSound`), and that withdrawing it,
compiling again and failing closed keep it so, is about the closure of the failed
jobs under needs (`DependentsClosed`, `DependentsOfOne`): the model says it as the
least closed set, which the loop of `failedDependencyClosure` computes, so that no
induction is needed. What a workflow becomes in the pipeline is then `Accounted`
for, and `ImportInv` carries that to the upload, together with what the preparation
planned and which runtimes were acquired for it.

**Queues.** `QueuesSound` is proved for any number of builds of any flattened
workflows that share any groups. The lemmas follow the code: what the topological
order and the collection of gates return (`OrderIs`, `OrderIsComplete`, `GatesAre`),
which steps a pipeline has and where (`EmissionIs`, `GatePlaces`), and that all they
depend on is in the same pipeline (`PrerequisitesEmitted`; a dependency that is
missing would wait forever). `BuildInv` says that only whole accepted pipelines are in
a build, and that a step which had its turn had all it depends on and, in a group of
one slot, nobody unended before it. Both survive every step: what has ended stays
ended, and an upload comes after all others. Exclusion follows (`HolderIs`,
`HoldersAgree`): whoever holds a group has taken its first step and has not ended its
last, and the two are next to each other in the queue, so that of two holders the
later one would have had the earlier one's last step before it. That nothing is stuck
follows from the cycle check: an accepted graph has a rank (`RankExists`), which
grows along dependencies and along a queue (`RankOfGroup`); of the steps that wait,
the least in rank of the earliest upload can act (`FirstWaiting`, `StuckNot`). The
assumption `PairingsAssumption` is what flattening leaves: jobs that need each other,
each with a list of frames around it. TLC evaluates it for every workflow of the run;
that `Flatten` has this form for every authored tree is an induction over the tree,
and is not proved.

**Selection.** `SelectionAgrees` is proved for every history, checkout, webhook and set
of filters. The three readings of a filter are one: what the condition that is built
pattern by pattern says after i patterns is what the last of them that matches says
(`ConditionIsLast`, by the least number at which they differ), and so does the matcher
(`MatchesIsLast`). The importer's event is one that Buildkite's condition is true of
unless `GITHUB_EVENT_NAME` says otherwise (`EventInv`). The paths of a workflow are
those that changed, or are known to be unavailable, or its file is not the commit's
(`PathsInv`): a base that the evidence supports is the one GitHub compares with
(`PushBaseIsTrue`, `PullRequestBaseIsTrue`). `DecisionIs` puts these together. The
assumption `ScenariosAssumption` is what webhooks and workflows are: a webhook of the
repository names the commits that were pushed, and lists all commits of a new branch,
none, or more than the importer takes (`maxGitHubPushCommits` is 1000, and GitHub
cuts its list above that); a workflow names an event once.

**Staged uploads.** Buildkite refuses an upload that has a key of the build, and an
upload of a stage that expands or skips one of its roots always has the keys of the
roots' dependents. So there is one such upload at most (`RootsTaken`), whatever is
retried, and one value per root with it (`OneValue`). That an upload taken for one's
own by its keys and labels is what one decided needs `PlainRoots` and `DecidedBy`:
records carry their jobs, and the values read from producers are in them. Of
`ExitHonest`, which TLC checks, the first half is proved (`PassIsApplied`). Its
second half, that a stage without a fault does not fail, is false for topologies of
three stages that create two gates at once, as `uploadAfterGateRace` tries once
more and no more; TLC checks it on the topology of the run.

**Processes, containers, checkouts.** On the host, whoever terminates a group is
done or idle when the runner returns (`HostEnds`). In a container the helper that
terminates has an answer and has seen the pid that is published, or has left its
mark before the other helper looks (`ContainerEnds`, `HelperHonest`, `Chased`). This
holds only when a helper publishes its pid within `containerPIDPublicationWait`
(`Prompt`, the theorems' hypothesis, and true in the run); the finding
`late_helper_starts` is what happens otherwise. For containers: what the job takes
for its own has its label or was seen to appear with a service that it created
(`OwnedFairly`), a job that has not failed knows all volumes it made (`OwnKnown`), and
the last look at what is left is honest (`LookedAt`). For checkouts: the directory
belongs to the checkout that added its remote (`Apart`), since that command fails for
the second one whatever both have found before, and each checkout's directory has
what its commands so far have done (`Progress`), however the branch moves. That a
filter's lazy fetches have the credential follows: a directory lacks files exactly
if its checkout filters.

**Artifacts.** A name is held from its reservation until its step fails or finds no
files, or for good once it is of an artifact of the result (`HoldsName`), and by one
step at a time (`NamesHeld`): the limit on the result is the limit on the names, by
an injection of the one into the other (`ResultsFit`). An archive has of each
selected file a content that this very file had (`FilesGathered`), which needs that
what is opened is the file that was selected (`OpenedRecorded`) and that a selection
that is not refused has as many names as files (`SelectionFacts`, `NamesCounted`). A
download has under each name the member of the last artifact it has fetched
(`MembersFetched`), and has installed what it no longer lists (`MembersInstalled`).
Other processes change the tree in any way at any moment: the invariant says
nothing of what is in it, only that every content is remembered (`TreeStays`).

Only model-checked, and why:

* liveness (`JobsDrain`, `CancelledJobEnds`): the prover has no ENABLED;
* `DecisionsKept`, `CredentialsAccountedFor`: their modules have RECURSIVE operators
  (the reduction of an expression, a tree of errors that wrap others), which the provers
  cannot take;
* `MasksHold`, `RowsAsDeclared`, `StagesAgree`:
  what they compare with is computed by recursion over a program, a text, a sequence
  of values or a graph. A property of a recursive function can be proved here by the
  least number at which it fails, as for `Levels` and `PathsAfter`, but each of these takes two
  recursions that go through their data in different orders;
* `ExitHonest`, its second half, see above;
* `FollowsAuthoredWorkflow`: see the plan.

## Findings

Statements of the repository that the code does not keep, and bugs, each with a run:

1. `own_failure_before_cancel`: a background step that failed by itself just
   before a cancel step reaches it is recorded as cancelled and forgiven
   (`runtime/concurrent.go:205`); `TestFailureBeforeCancelStillFailsJob` expects
   the job to fail. The window is between the return of the step and its
   classification.
2. `cancelled_job_passes`: a job whose steps have succeeded and that is cancelled
   while its posts run publishes `cancelled` and exits 0
   (`runtime/action_execution.go:894`).
3. `receipt_overlooked`: a retry that publishes and fails hard between the search
   of all attempts and the second look is taken for an attempt without a
   receipt (`transport/terminal_results.go:60`).
4. `retried_producer_expands_twice`: a matrix without dependents is expanded
   twice if its stage job ends without success after Buildkite took its upload,
   and the producer is retried before the stage (`cli/upload_stage.go:569`).
5. `late_helper_starts`: a helper in the container that does not publish its pid in
   time starts the command of a step whose cancelled runner has returned without an
   error (`runtime/containers.go:775`).
6. `shared_join_uploaded_twice`: a job that needs a matrix whose producer did not
   succeed and a matrix of a later stage is uploaded as skipped and again by the
   later stage (`compiler/job_graph_expansion.go:326`).

What holds beside findings 3, 4 and 6 is said by `EvidenceSound`, `OneExpansion` and
`StagesAgree`.

Met while modelling, without a run; the first is in the model as the code has it, and
no module has the detail the others take:

* The token provider is called once, with the context of the first lookup, and its
  error is kept (`source/source.go:321`), a cancellation too (`cli/hosted.go:129`,
  145). The waiters of that lookup and all later callers of the resolver then return
  it although their contexts are alive, where `missing_ref_resolutions.go:29` says that
  transient failures are retried and `TestMissingRefResolutionsWaiters` expects each
  waiter to get an answer of its own, with a resolver that has no provider. The lookups
  of one command share the command's context, so that only callers with contexts of
  their own can meet this. `ResolutionSound` has exactly this exception (`TokenLost`).
* A job that joins stages and is itself the root of one is accepted by the importer,
  but no stage's compilation succeeds ("prerequisite has no expanded instances",
  `compiler/job_graph_expansion.go:1008`). `StagesAgree` leaves such graphs out.
* A v1 upload-artifact step of an empty directory returns an artifact with no files
  (`upload_artifact_test.go:267`), which `transport/model.go:112` does not accept, so
  the job publishes a plain failure without outputs.
* A secret lookup that the cancellation of the job ends is told as "unavailable"
  (`cli/run_job.go:337`, `runtime/secrets.go:118`). `CredentialsAccountedFor` leaves it out.
* A self reference of a workflow in the cache action's own repository, at a commit that
  nobody has audited, is locked at the substitute's commit (`compiler/actions.go:594`);
  the plan then fails its own check, which asks a self reference for the commit of
  the workflow (`plan/plan.go:1598`). `HomeKept` leaves it out.
* A Linux job that the first compilation could not plan, for a failure that passes,
  and the second can, is planned with a runtime that is not uploaded
  (`cli/upload.go`, `requiredPlatforms`): its step cannot start. `NothingDropped` leaves
  it out. And when a job with continue-on-error cannot be compiled, its failing step
  is soft and its dependents are skipped: the build can pass although they never ran
  (`cli/upload.go:858`).

## What is not modelled

* `BackgroundSteps`: the data of a step, `if` expressions (a condition may be true or
  false), composite actions inside a step. `JobRun`: concurrent steps, more than one
  deadline; every resource is acquired whole.
* `NestedActions`: hard failures and posts, which are `JobRun`'s. With a step that times
  out between its two walks a tolerated pre failure can be warned of twice; the
  property leaves that case out, and asks of a cancelled job for one warning at least.
* `StepOutput`: masks that cross each other hide only a part, and concurrent streams
  share one stop token; both are as in the code. `StepEffects`: the environment a
  local action takes from its pre to its main, and what posts write; what a Docker
  action adds to GITHUB_PATH is seen only after its composite action.
* `StepProcess`: Windows job objects; a process that leaves the group and keeps the
  output pipe holds the runner; a pid that is used again after its process was
  waited for. `JobContainers`: policies on options and mounts. With a volume driver
  of its own a job's volumes stay unowned, and are neither removed nor reported
  (`containers.go:321`); the model's drivers are Docker's. A
  volume that another job makes between the snapshot and the creation of a service
  is taken for the job's own (`containers_test.go:1896` says so), and one whose
  inspection failed is left unlabelled and not reported: the property says of both
  what the code keeps.
* `JobServices`: environment isolation, parsing of requests and answers; ID tokens are
  asked for by one of two phases.
* `Checkout`: git is external; files of two checkouts nested in each other, fsck and
  protocol settings, depth of submodules. `ArtifactTransfer`: the file system is case
  sensitive, every write has a time of its own, nobody else touches the staging
  directory, patterns match directly below a literal prefix; retention and
  compression are left out.
* `ActionCache`: contents of archives, clock skew between manifests, directories of
  other versions. No property covers a removal that stops half way
  (`action_cache.go:161`), which the model reaches and the code does not repair, nor
  entries that evict each other for ever (`source.go:1258`).
* `ActionLocks`: a lock is its identity; programs, docker images, the limit of 1024 and
  the analysis of authorities. Its check "differs from containing source" cannot
  fail, because a ref resolves once (`PinnedOnce`).
* `ResultTransport`: encoding and validation of manifests (a bad one is a failed
  query), artifact pages.
* `PipelineEmission`: a workflow behind a gate has no stage steps; the code refuses one
  that has (`pipeline.go:461`), so that fewer pipelines are accepted than by the model.
* `StageUpload`: runner selection and scheduling attributes (the skipped form compares
  labels only, `upload_stage.go:531`), comparison of sources and locks (it can only make
  the stage fail); jobs that join stages are restricted as `TopologyAssumption` says.
  `DeferredGraph`: outputs in runs-on, environments and gates, concurrency gates;
  prerequisites are flattened already.
* `Matrix`: names that differ in case come in alphabetical order; limits on size,
  collisions of digests. `Expressions`: two exclusions, `LosesStatus` and bodies that
  name both the whole of `github` and the event.
* `TriggerSelection`: a webhook is genuine but may be truncated or of another build,
  and its payload is of the event it is named by. Where paths do not count (a tag, other
  events, no webhook) the filters are those of the file in the checkout, which the
  importer does not compare with the commit.
* Parsers, formatting, reports, generated tables, telemetry and clients of external
  services have no state, or nothing a model checker reaches. `PROJECT.json` gives the
  reason for each component.

## Plan

Done: all modules above, with theorems about sixteen of them. What is left, in this
order:

1. The refinement of `WorkflowContract` by `WorkflowBuild`, on the invariant that
   `BuildInvariant` establishes.
2. Not planned: the workflow parser and reports (no state), the cache service (a
   proxy).
