--------------------------- MODULE BackgroundSteps ---------------------------
(***************************************************************************)
(* The step phase of one job: the RunJob goroutine walks the program of    *)
(* the plan (jobRun.runSteps) and hands background steps to the            *)
(* backgroundSupervisor, whose mutex the RunJob goroutine and one          *)
(* goroutine per running background step contend for.                      *)
(*                                                                         *)
(* A task is the supervisor's record of a background step.  Its context is *)
(* a child of the job's context; the first cancellation of a context is    *)
(* the cause it keeps.  Dispatch is a loop inside the critical section, so *)
(* it is modelled one iteration at a time: the job's context, or the       *)
(* process of another task, may change between two iterations.             *)
(***************************************************************************)
EXTENDS Naturals, Sequences, FiniteSets, Functions

CONSTANTS Steps,      \* identifiers of the run and uses steps
          Programs,   \* the step sequences the plan validator admits
          Limit,      \* maxActiveBackgroundSteps
          Tolerant    \* per step, the values continue-on-error may evaluate to

RunInstr     == [kind : {"run"}, id : Steps, background : BOOLEAN, status : BOOLEAN]
WaitInstr    == [kind : {"wait"}, targets : Seq(Steps)]
WaitAllInstr == [kind : {"wait-all"}]
CancelInstr  == [kind : {"cancel"}, target : Steps]
Instr        == RunInstr \cup WaitInstr \cup WaitAllInstr \cup CancelInstr

IsRun(p, i) == i \in 1..Len(p) /\ p[i].kind = "run"

\* s is a background step that stands before position i.
PriorBackground(p, i, s) ==
    \E j \in 1..(i - 1) : IsRun(p, j) /\ p[j].id = s /\ p[j].background

\* What Program.Validate and validateControlStep leave of the shapes a program
\* can have: step ids are unique, and a wait or cancel step names distinct
\* background steps that stand before it.
ValidProgram(p) ==
    /\ p \in Seq(Instr)
    /\ \A i, j \in 1..Len(p) :
          IsRun(p, i) /\ IsRun(p, j) /\ p[i].id = p[j].id => i = j
    /\ \A i \in 1..Len(p) :
          p[i].kind = "wait" =>
             /\ \A a, b \in 1..Len(p[i].targets) :
                   p[i].targets[a] = p[i].targets[b] => a = b
             /\ \A a \in 1..Len(p[i].targets) : PriorBackground(p, i, p[i].targets[a])
    /\ \A i \in 1..Len(p) :
          p[i].kind = "cancel" => PriorBackground(p, i, p[i].target)

ASSUME StepsAssumption == IsFiniteSet(Steps)
ASSUME LimitAssumption == Limit \in Nat \ {0}
ASSUME TolerantAssumption == Tolerant \in [Steps -> (SUBSET BOOLEAN) \ {{}}]
ASSUME ProgramsAssumption == \A p \in Programs : ValidProgram(p)

VARIABLES
    program,    \* the program of this job
    pc,         \* index of the instruction the RunJob goroutine is at
    phase,      \* what the RunJob goroutine is doing there
    barrier,    \* the tasks commitCompleted waits for or has still to commit
    task,       \* supervisor state of each background step, "none" before start
    order,      \* supervisor.order: every task, in start order
    queue,      \* supervisor.queue: tasks not yet admitted
    active,     \* supervisor.active
    lock,       \* who holds the supervisor mutex across dispatchLocked
    worker,     \* progress of the code that executes a step
    result,     \* what the step's process or action returned
    cause,      \* context.Cause of the step's context
    jobDone,    \* the job's context is cancelled or past its deadline
    execution,  \* classified conclusion of a finished step
    visible,    \* eval.Steps: the conclusion later steps observe
    commits,    \* order in which effects were merged into the job
    runErr,     \* an error has been joined into runErr
    panicked    \* transitionLocked met an invalid transition

supervisorVars == <<task, order, queue, active, lock, panicked>>
workerVars     == <<worker, result, cause, execution>>
jobVars        == <<pc, phase, barrier, visible, commits, runErr>>
vars == <<program, jobVars, supervisorVars, workerVars, jobDone>>

Phases      == {"step", "foreground", "starting", "await", "drained", "posts"}
TaskStates  == {"none", "queued", "running", "finished", "committed"}
WorkStages  == {"none", "executing", "returned", "classified", "exited"}
Results     == {"none", "ok", "failed", "killed", "hard"}
Causes      == {"none", "explicit", "timeout", "job", "ended"}
Conclusions == {"none", "success", "failure", "cancelled", "skipped"}

\* The valid moves of a task (backgroundTask.transitionLocked).
ValidTransition(from, to) ==
    \/ from = "queued" /\ to \in {"running", "finished"}
    \/ from = "running" /\ to = "finished"
    \/ from = "finished" /\ to = "committed"

Instruction == program[pc]
Fetching(kind) == phase = "step" /\ pc <= Len(program) /\ Instruction.kind = kind

\* classifyStepExecutionWithControls: the conclusion of a step that returned r,
\* judged when its context has cause c and the job's context is done or not.
\* tolerate is what continue-on-error evaluates to; a control expression that
\* cannot be evaluated counts as FALSE.
Classify(r, c, done, tolerate) ==
    IF r = "ok" THEN "success"
    ELSE IF done \/ c = "explicit" THEN "cancelled"
    ELSE IF tolerate /\ r # "hard" THEN "success"
    ELSE "failure"

\* Mutant: a barrier does not wait for what is still queued.
BlocksRunning(s) == task[s] = "running"

\* commitCompleted waits for the task of s to finish.
Blocks(s) == task[s] \in {"queued", "running"}

\* Mutant: a barrier does not look at what an earlier one has committed.
CommittableAgain(s) == task[s] # "none"

\* commitCompleted commits the task of s: it was started and no earlier
\* barrier has committed it.
Committable(s) == task[s] \notin {"none", "committed"}

\* Whether a default condition lets a step run; a condition that mentions a
\* status function is evaluated even after a failure.
MayRun(instr) == instr.status \/ ~(runErr \/ jobDone)

\* Mutant: a wait forgives cancellations too.
ForgivenAnywhere == {"success", "cancelled"}

\* The verdicts of committed steps that do not count against the job at the
\* current instruction: a cancel step forgives the cancellation it asked for.
Forgiven ==
    IF pc <= Len(program) /\ Instruction.kind = "cancel"
    THEN {"success", "cancelled"} ELSE {"success"}

\* Mutant: a new task overtakes those that wait for a slot.
EnqueueFirst(s) == <<s>> \o queue

Enqueue(s) == Append(queue, s)

\* Mutant: a cancelled task is left in the queue.
LeaveQueued(s) == queue

\* The queue without the task of s.
Dequeue(s) ==
    LET i == CHOOSE i \in 1..Len(queue) : queue[i] = s
    IN SubSeq(queue, 1, i - 1) \o SubSeq(queue, i + 1, Len(queue))

\* task.cancel: the context keeps the first cause it is given.
Interrupt(s) == cause' = [cause EXCEPT ![s] = IF @ = "none" THEN "explicit" ELSE @]

\* Mutant: the limit is off by one.
AdmissibleAtLimit == active <= Limit /\ queue # <<>>

\* dispatchLocked may admit another task.
Admissible == active < Limit /\ queue # <<>>

\* Mutant: an ending task does not give its slot back.
KeepSlot == active' = active

ReleaseSlot == active' = active - 1

\* Mutant: an ending task releases the mutex without dispatching.
FinishOnly == lock' = "free"

FinishThenDispatch == lock' = "worker"

\* Mutant: only steps on the RunJob goroutine inherit the job's cancellation.
ForegroundOnly(s) == cause[s] = "none" /\ task[s] = "none" /\ worker[s] = "executing"

\* The context of s is derived from the job's and is still live.
LiveContext(s) ==
    /\ cause[s] = "none"
    /\ task[s] \in {"queued", "running"} \/ worker[s] \in {"executing", "returned"}

-----------------------------------------------------------------------------
Init ==
    /\ program \in Programs
    /\ pc = 1
    /\ phase = "step"
    /\ barrier = <<>>
    /\ task = [s \in Steps |-> "none"]
    /\ order = <<>>
    /\ queue = <<>>
    /\ active = 0
    /\ lock = "free"
    /\ worker = [s \in Steps |-> "none"]
    /\ result = [s \in Steps |-> "none"]
    /\ cause = [s \in Steps |-> "none"]
    /\ jobDone = FALSE
    /\ execution = [s \in Steps |-> "none"]
    /\ visible = [s \in Steps |-> "none"]
    /\ commits = <<>>
    /\ runErr = FALSE
    /\ panicked = FALSE

-----------------------------------------------------------------------------
(* The RunJob goroutine.                                                   *)

\* A step whose condition is false, that the plan pruned, or that an earlier
\* failure keeps from running.
SkipStep ==
    /\ Fetching("run")
    /\ visible' = [visible EXCEPT ![Instruction.id] = "skipped"]
    /\ pc' = pc + 1
    /\ UNCHANGED <<program, phase, barrier, commits, runErr, supervisorVars, workerVars, jobDone>>

\* A step that fails before it runs: its pre action failed, or its
\* environment, condition, controls or name could not be evaluated.  The
\* failure is committed at once, for background steps too.  It is judged by the
\* agent's context alone, and a failed pre action was judged when it failed, so
\* a job that is done meanwhile need not make it a cancellation.
RejectStep ==
    /\ Fetching("run")
    /\ LET s == Instruction.id IN
       \E r \in {"failed", "hard"}, tolerate \in Tolerant[s], done \in {FALSE, jobDone} :
          LET c == Classify(r, "none", done, tolerate) IN
          /\ result' = [result EXCEPT ![s] = r]
          /\ execution' = [execution EXCEPT ![s] = c]
          /\ visible' = [visible EXCEPT ![s] = c]
          /\ commits' = Append(commits, s)
          /\ runErr' = (runErr \/ c # "success")
    /\ pc' = pc + 1
    /\ UNCHANGED <<program, phase, barrier, supervisorVars, worker, cause, jobDone>>

\* A foreground step runs on the RunJob goroutine itself.
RunForeground ==
    /\ Fetching("run")
    /\ ~Instruction.background
    /\ MayRun(Instruction)
    /\ worker' = [worker EXCEPT ![Instruction.id] = "executing"]
    /\ cause' = [cause EXCEPT ![Instruction.id] = IF jobDone THEN "job" ELSE "none"]
    /\ phase' = "foreground"
    /\ UNCHANGED <<program, pc, barrier, visible, commits, runErr, supervisorVars, result, execution, jobDone>>

CommitForeground ==
    /\ phase = "foreground"
    /\ LET s == Instruction.id IN
       /\ worker[s] = "returned"
       /\ \E tolerate \in Tolerant[s] :
             LET c == Classify(result[s], cause[s], jobDone, tolerate) IN
             /\ execution' = [execution EXCEPT ![s] = c]
             /\ visible' = [visible EXCEPT ![s] = c]
             /\ commits' = Append(commits, s)
             /\ runErr' = (runErr \/ c # "success")
       /\ worker' = [worker EXCEPT ![s] = "exited"]
    /\ phase' = "step"
    /\ pc' = pc + 1
    /\ UNCHANGED <<program, barrier, supervisorVars, result, cause, jobDone>>

\* supervisor.start: the task is appended to order and queue, and the critical
\* section goes on with dispatchLocked.
StartBackground ==
    /\ Fetching("run")
    /\ Instruction.background
    /\ MayRun(Instruction)
    /\ lock = "free"
    /\ LET s == Instruction.id IN
       /\ task' = [task EXCEPT ![s] = "queued"]
       /\ order' = Append(order, s)
       /\ queue' = Enqueue(s)
       /\ cause' = [cause EXCEPT ![s] = IF jobDone THEN "job" ELSE "none"]
    /\ lock' = "job"
    /\ phase' = "starting"
    /\ UNCHANGED <<program, pc, barrier, visible, commits, runErr, active, panicked, worker, result, execution, jobDone>>

\* supervisor.wait and waitAll: the tasks to wait for are looked up under the
\* mutex, which is released before waiting.  RunJob is the only goroutine that
\* starts or commits tasks, so those a later iteration passes over are the ones
\* the lookup leaves out.
BeginWait ==
    /\ \/ Fetching("wait") /\ barrier' = Instruction.targets
       \/ Fetching("wait-all") /\ barrier' = order
       \/ phase = "step" /\ pc = Len(program) + 1 /\ barrier' = order
    /\ lock = "free"
    /\ phase' = "await"
    /\ UNCHANGED <<program, pc, visible, commits, runErr, supervisorVars, workerVars, jobDone>>

\* supervisor.cancel: cancel the task's context; a queued task leaves the
\* queue and finishes at once, a running one is waited for.
BeginCancel ==
    /\ Fetching("cancel")
    /\ lock = "free"
    /\ phase' = "await"
    /\ barrier' = <<Instruction.target>>
    /\ LET s == Instruction.target IN
       IF ~Committable(s)
       THEN UNCHANGED <<task, queue, panicked, cause, execution>>
       ELSE /\ Interrupt(s)
            /\ IF task[s] = "queued"
               THEN /\ queue' = Dequeue(s)
                    /\ task' = [task EXCEPT ![s] = "finished"]
                    /\ panicked' = (panicked \/ ~ValidTransition(task[s], "finished"))
                    /\ execution' = [execution EXCEPT ![s] = "cancelled"]
               ELSE UNCHANGED <<task, queue, panicked, execution>>
    /\ UNCHANGED <<program, pc, visible, commits, runErr, order, active, lock, worker, result, jobDone>>

\* One iteration of commitCompleted and of the commitStepExecution loop that
\* follows it, once every task of the barrier is done.
CommitNext ==
    /\ phase = "await"
    /\ barrier # <<>>
    /\ lock = "free"
    /\ \A i \in 1..Len(barrier) : ~Blocks(barrier[i])
    /\ barrier' = Tail(barrier)
    /\ LET s == Head(barrier) IN
       IF Committable(s)
       THEN /\ task' = [task EXCEPT ![s] = "committed"]
            /\ panicked' = (panicked \/ ~ValidTransition(task[s], "committed"))
            /\ visible' = [visible EXCEPT ![s] = execution[s]]
            /\ commits' = Append(commits, s)
            /\ runErr' = (runErr \/ execution[s] \notin Forgiven)
       ELSE UNCHANGED <<task, panicked, visible, commits, runErr>>
    /\ UNCHANGED <<program, pc, phase, order, queue, active, lock, workerVars, jobDone>>

EndBarrier ==
    /\ phase = "await"
    /\ barrier = <<>>
    /\ IF pc <= Len(program)
       THEN phase' = "step" /\ pc' = pc + 1
       ELSE phase' = "drained" /\ pc' = pc
    /\ UNCHANGED <<program, barrier, visible, commits, runErr, supervisorVars, workerVars, jobDone>>

\* The end of runSteps: a job whose context is done has failed, and the post
\* actions run next.
LeaveSteps ==
    /\ phase = "drained"
    /\ runErr' = (runErr \/ jobDone)
    /\ phase' = "posts"
    /\ UNCHANGED <<program, pc, barrier, visible, commits, supervisorVars, workerVars, jobDone>>

-----------------------------------------------------------------------------
(* The supervisor's critical section.                                      *)

\* One iteration of dispatchLocked.
Dispatch ==
    /\ lock # "free"
    /\ Admissible
    /\ LET s == Head(queue)
           to == IF cause[s] # "none" THEN "finished" ELSE "running"
       IN /\ queue' = Tail(queue)
          /\ task' = [task EXCEPT ![s] = to]
          /\ panicked' = (panicked \/ ~ValidTransition(task[s], to))
          /\ IF to = "running"
             THEN /\ active' = active + 1
                  /\ worker' = [worker EXCEPT ![s] = "executing"]
                  /\ UNCHANGED execution
             ELSE /\ execution' = [execution EXCEPT ![s] = "cancelled"]
                  /\ UNCHANGED <<active, worker>>
    /\ UNCHANGED <<program, jobVars, order, lock, result, cause, jobDone>>

\* dispatchLocked returns and the holder releases the mutex.
Unlock ==
    /\ lock # "free"
    /\ ~Admissible
    /\ lock' = "free"
    /\ IF lock = "job"
       THEN phase' = "step" /\ pc' = pc + 1
       ELSE UNCHANGED <<phase, pc>>
    /\ UNCHANGED <<program, barrier, visible, commits, runErr, task, order, queue, active, panicked, workerVars, jobDone>>

-----------------------------------------------------------------------------
(* The code that executes a step, on the RunJob goroutine for a foreground *)
(* step and on the task's goroutine for a background one.                  *)

\* The process or action of s returns.  Once its context is done the error of
\* the context replaces whatever a process returned; a composite action whose
\* remaining children the context keeps from running returns no error.
StepReturns(s) ==
    /\ worker[s] = "executing"
    /\ worker' = [worker EXCEPT ![s] = "returned"]
    /\ \E r \in (IF cause[s] = "none" THEN {"ok", "failed", "hard"} ELSE {"ok", "killed", "hard"}) :
          result' = [result EXCEPT ![s] = r]
    /\ UNCHANGED <<program, jobVars, supervisorVars, cause, execution, jobDone>>

\* executePlanStep classifies the return of a background step, without the
\* mutex: the contexts are read as they are now.
ClassifyBackground(s) ==
    /\ task[s] # "none"
    /\ worker[s] = "returned"
    /\ worker' = [worker EXCEPT ![s] = "classified"]
    /\ \E tolerate \in Tolerant[s] :
          execution' = [execution EXCEPT ![s] = Classify(result[s], cause[s], jobDone, tolerate)]
    /\ UNCHANGED <<program, jobVars, supervisorVars, result, cause, jobDone>>

\* The task's goroutine takes the mutex, gives its slot back and finishes the
\* task (finishLocked closes done), then dispatches.
FinishBackground(s) ==
    /\ worker[s] = "classified"
    /\ lock = "free"
    /\ FinishThenDispatch
    /\ ReleaseSlot
    /\ task' = [task EXCEPT ![s] = "finished"]
    /\ panicked' = (panicked \/ ~ValidTransition(task[s], "finished"))
    /\ worker' = [worker EXCEPT ![s] = "exited"]
    /\ cause' = [cause EXCEPT ![s] = IF @ = "none" THEN "ended" ELSE @]
    /\ UNCHANGED <<program, jobVars, order, queue, result, execution, jobDone>>

\* timeout-minutes of a step expires while it executes or is being classified.
StepTimeout(s) ==
    /\ worker[s] \in {"executing", "returned"}
    /\ cause[s] = "none"
    /\ cause' = [cause EXCEPT ![s] = "timeout"]
    /\ UNCHANGED <<program, jobVars, supervisorVars, worker, result, execution, jobDone>>

\* The agent cancels the job, or the job's deadline passes: every context
\* derived from the job's and still live is cancelled with it.
CancelJob ==
    /\ ~jobDone
    /\ phase # "posts"
    /\ jobDone' = TRUE
    /\ cause' = [s \in Steps |->
                   IF LiveContext(s) THEN "job" ELSE cause[s]]
    /\ UNCHANGED <<program, jobVars, supervisorVars, worker, result, execution>>

\* The step phase is over; later phases are not part of this module.
Terminated ==
    /\ phase = "posts"
    /\ lock = "free"
    /\ UNCHANGED vars

-----------------------------------------------------------------------------
RunJob ==
    \/ SkipStep \/ RejectStep \/ RunForeground \/ CommitForeground
    \/ StartBackground \/ BeginWait \/ BeginCancel \/ CommitNext \/ EndBarrier \/ LeaveSteps

Worker(s) == StepReturns(s) \/ ClassifyBackground(s) \/ FinishBackground(s)

Next ==
    \/ RunJob
    \/ Dispatch
    \/ Unlock
    \/ \E s \in Steps : Worker(s) \/ StepTimeout(s)
    \/ CancelJob
    \/ Terminated

\* Goroutines are scheduled fairly, and a process whose context is done is
\* signalled until it is gone, so it returns.  Nothing makes a process whose
\* context is live return, a timeout fire or a job be cancelled.
Fairness ==
    /\ WF_vars(RunJob)
    /\ WF_vars(Dispatch \/ Unlock)
    /\ \A s \in Steps :
          /\ WF_vars(StepReturns(s) /\ cause[s] # "none")
          /\ WF_vars(ClassifyBackground(s))
          /\ WF_vars(FinishBackground(s))

Spec == Init /\ [][Next]_vars /\ Fairness

-----------------------------------------------------------------------------
\* The values the variables take.
TypeOK ==
    /\ program \in Programs
    /\ pc \in 1..(Len(program) + 1)
    /\ phase \in Phases
    /\ barrier \in Seq(Steps)
    /\ task \in [Steps -> TaskStates]
    /\ order \in Seq(Steps)
    /\ queue \in Seq(Steps)
    /\ active \in 0..Limit
    /\ lock \in {"free", "job", "worker"}
    /\ worker \in [Steps -> WorkStages]
    /\ result \in [Steps -> Results]
    /\ cause \in [Steps -> Causes]
    /\ jobDone \in BOOLEAN
    /\ execution \in [Steps -> Conclusions]
    /\ visible \in [Steps -> Conclusions]
    /\ commits \in Seq(Steps)
    /\ runErr \in BOOLEAN
    /\ panicked \in BOOLEAN

-----------------------------------------------------------------------------
(* Safety.                                                                 *)

\* Every slot taken belongs to exactly one running task, so the limit on
\* concurrent steps is a limit on processes and no slot is ever lost.
SlotAccounting == active = Cardinality({s \in Steps : task[s] = "running"})

\* Whenever the mutex is free, a task waits only because every slot is taken:
\* no path that frees a slot or adds a task forgets to dispatch.
WorkConserving == lock = "free" /\ queue # <<>> => active = Limit

\* Slots are granted in start order, whatever is cancelled in between: a task
\* is never running or done running while an older one is still queued.
AdmissionOrder ==
    \A i, j \in 1..Len(order) :
        i < j /\ worker[order[j]] # "none" => task[order[i]] # "queued"

\* No interleaving makes the supervisor panic with an invalid transition.
NoPanic == ~panicked

\* Instruction i waits for s, or cancels it; the end of the program waits for all.
Covers(i, s) ==
    \/ i > Len(program)
    \/ program[i].kind = "wait-all"
    \/ program[i].kind = "wait" /\ s \in Range(program[i].targets)
    \/ program[i].kind = "cancel" /\ program[i].target = s

\* The instruction that runs s.
StartOf(s) == CHOOSE j \in 1..Len(program) : IsRun(program, j) /\ program[j].id = s

\* i is the first instruction after the start of s that covers it.
FirstCovers(i, s) ==
    /\ i > StartOf(s) /\ Covers(i, s)
    /\ \A k \in (StartOf(s) + 1)..(i - 1) : ~Covers(k, s)

\* i is where the effects of s are merged: a task's at the first barrier that
\* covers it, and those of any other step where it runs.
MergedAt(i, s) == IF task[s] = "none" THEN i = StartOf(s) ELSE FirstCovers(i, s)

\* Instruction i merges s before t: a wait in the order it names them, every
\* other barrier in the order of the program.
MergedFirst(i, s, t) ==
    IF i <= Len(program) /\ program[i].kind = "wait"
    THEN \E a, b \in DOMAIN program[i].targets :
            a < b /\ program[i].targets[a] = s /\ program[i].targets[b] = t
    ELSE StartOf(s) < StartOf(t)

Precedes(s, t) ==
    \E i, j \in 1..(Len(program) + 1) :
        MergedAt(i, s) /\ MergedAt(j, t) /\ (i < j \/ (i = j /\ MergedFirst(i, s, t)))

\* Steps that have, or will have, effects to merge.
Effective == {s \in Steps : task[s] # "none" \/ visible[s] \notin {"none", "skipped"}}

\* Effects (environment, outputs, summaries) are merged in an order the program
\* alone determines, whatever finishes first: each step's once, where it runs
\* or at the first barrier that covers it, neither earlier nor later, and
\* within a barrier in the order the barrier names them or the program has them.
DeterministicCommits ==
    /\ \A m, n \in DOMAIN commits : m < n => Precedes(commits[m], commits[n])
    /\ Range(commits) \subseteq Effective
    /\ \A s \in Effective, i \in 1..(Len(program) + 1) : MergedAt(i, s) =>
         /\ i < pc \/ phase \in {"drained", "posts"} => s \in Range(commits)
         /\ s \in Range(commits) => i < pc \/ (i = pc /\ phase \in {"await", "drained", "posts"})

\* s was cancelled and the first barrier that covers it is a cancel step.
ForgivenCancel(s) ==
    /\ task[s] = "committed"
    /\ visible[s] = "cancelled"
    /\ \E i \in 1..Len(program) : program[i].kind = "cancel" /\ FirstCovers(i, s)

\* The job has an error exactly when a step's visible verdict is a failure, or
\* a cancellation nobody asked for, or the job itself was cancelled: no failure
\* is lost between barriers and no tolerated one counts.
JobErrorExact ==
    runErr = ( \/ phase = "posts" /\ jobDone
               \/ \E s \in Steps :
                     \/ visible[s] = "failure"
                     \/ visible[s] = "cancelled" /\ ~ForgivenCancel(s) )

\* When the steps are over (and post actions may run) nothing is queued,
\* running, finished but unseen, or between its process and its commit.
Quiescent ==
    phase \in {"drained", "posts"} =>
        /\ active = 0 /\ queue = <<>>
        /\ \A s \in Steps : task[s] \in {"none", "committed"} /\ worker[s] \in {"none", "exited"}

-----------------------------------------------------------------------------
(* Liveness.                                                               *)

\* A cancelled job, or one past its deadline, reaches its post actions, and so
\* does one whose processes all end: no barrier waits for a task that no slot
\* will ever be given to.
StepsDrain ==
    /\ jobDone ~> phase = "posts"
    /\ (\A s \in Steps : []<>(worker[s] # "executing")) => <>(phase = "posts")

-----------------------------------------------------------------------------
(* Refinement: the supervisor implements the ledger.                       *)

Entry(s) ==
    CASE visible[s] # "none"                  -> "visible"
      [] task[s] = "finished"                 -> "closed"
      [] task[s] \in {"queued", "running"}    -> "open"
      [] OTHER                                -> "absent"

EntryOf   == [s \in Steps |-> Entry(s)]
VerdictOf == [s \in Steps |-> IF Entry(s) = "visible" THEN visible[s]
                              ELSE IF Entry(s) = "closed" THEN execution[s] ELSE "none"]

Ledger == INSTANCE StepLedger WITH
    entry   <- EntryOf,
    verdict <- VerdictOf,
    log     <- commits,
    failed  <- runErr,
    sealed  <- phase = "posts"

\* The step phase implements the ledger: verdicts never change once a step is
\* closed, a barrier publishes closed steps only and each step once, no failure
\* is forgotten, and nothing is open when the post actions run.
ImplementsLedger == Ledger!Spec

-----------------------------------------------------------------------------
(* TestFailureBeforeCancelStillFailsJob expects a background step that has  *)
(* failed by itself to fail the job even when a cancel step targets it      *)
(* afterwards.  The code asks the context, not the process, when the        *)
(* execution is classified.                                                 *)
OwnFailureFailsJob ==
    \A s \in Steps :
        task[s] = "committed" /\ result[s] = "failed" /\ Tolerant[s] = {FALSE} /\ ~jobDone
            => runErr
=============================================================================
