------------------------ MODULE BackgroundStepsProofs ------------------------
(***************************************************************************)
(* Proofs about the step phase, for every set of steps, every program the  *)
(* plan validator admits and every limit.                                  *)
(***************************************************************************)
EXTENDS BackgroundSteps, FiniteSetTheorems, SequenceTheorems, TLAPS

(* The inductive invariant, in parts.                                      *)

\* Where the RunJob goroutine is.
ControlInv ==
    /\ phase = "starting" <=> lock = "job"
    /\ phase \in {"foreground", "starting"} => pc <= Len(program) /\ Instruction.kind = "run"
    /\ phase = "foreground" => task[Instruction.id] = "none"
    /\ phase \in {"drained", "posts"} => pc = Len(program) + 1

\* The steps the program has not come to are untouched.
FreshInv ==
    \A i \in pc..Len(program) :
        IsRun(program, i) /\ (i = pc => phase \notin {"foreground", "starting"}) =>
            task[program[i].id] = "none" /\ worker[program[i].id] = "none"

\* The state of a task and the progress of its goroutine go together.
WorkerInv ==
    \A s \in Steps :
        /\ task[s] = "queued" => worker[s] = "none"
        /\ task[s] = "running" => worker[s] \in {"executing", "returned", "classified"}
        /\ task[s] \in {"finished", "committed"} => worker[s] \in {"none", "exited"}
        /\ worker[s] = "classified" => task[s] = "running"

\* A step that runs without being a task is the one in the foreground.
ForegroundInv ==
    \A s \in Steps :
        task[s] = "none" /\ worker[s] \in {"executing", "returned"} =>
            phase = "foreground" /\ Instruction.id = s

\* The queue holds exactly the queued tasks, each once.
QueueInv ==
    /\ \A i \in 1..Len(queue) : task[queue[i]] = "queued"
    /\ \A i, j \in 1..Len(queue) : queue[i] = queue[j] => i = j
    /\ \A s \in Steps : task[s] = "queued" => \E i \in 1..Len(queue) : queue[i] = s

\* order lists exactly the started tasks, each once.
OrderInv ==
    /\ \A i \in 1..Len(order) : task[order[i]] # "none"
    /\ \A i, j \in 1..Len(order) : order[i] = order[j] => i = j
    /\ \A s \in Steps : task[s] # "none" => \E i \in 1..Len(order) : order[i] = s

\* The queue is in start order.
QueueOrder ==
    \A m, n \in 1..Len(queue), i, j \in 1..Len(order) :
        m < n /\ queue[m] = order[i] /\ queue[n] = order[j] => i < j

\* The last barrier covers everything that is not committed.
DrainInv ==
    /\ phase = "await" /\ pc = Len(program) + 1 =>
          \A s \in Steps : task[s] \in {"none", "committed"} \/ \E i \in 1..Len(barrier) : barrier[i] = s
    /\ phase \in {"drained", "posts"} => \A s \in Steps : task[s] \in {"none", "committed"}

Running == {s \in Steps : task[s] = "running"}

IInv ==
    /\ TypeOK /\ ControlInv /\ FreshInv /\ WorkerInv /\ ForegroundInv
    /\ QueueInv /\ OrderInv /\ QueueOrder /\ AdmissionOrder
    /\ SlotAccounting /\ WorkConserving /\ NoPanic /\ DrainInv

-----------------------------------------------------------------------------
\* What the plan validator guarantees of an instruction, by its kind.
LEMMA InstructionTypes ==
    ASSUME program \in Programs, NEW i \in 1..Len(program)
    PROVE  /\ program[i].kind = "run" => program[i].id \in Steps
           /\ program[i].kind = "wait" => program[i].targets \in Seq(Steps)
           /\ program[i].kind = "cancel" => program[i].target \in Steps
           /\ program[i].kind \in {"run", "wait", "wait-all", "cancel"}
<1>1. program[i] \in Instr
  BY ProgramsAssumption DEF ValidProgram
<1>2. CASE program[i] \in RunInstr
  BY <1>2 DEF RunInstr
<1>3. CASE program[i] \in WaitInstr
  BY <1>3 DEF WaitInstr
<1>4. CASE program[i] \in WaitAllInstr
  BY <1>4 DEF WaitAllInstr
<1>5. CASE program[i] \in CancelInstr
  BY <1>5 DEF CancelInstr
<1> QED
  BY <1>1, <1>2, <1>3, <1>4, <1>5 DEF Instr

\* A program has a length.
LEMMA ProgramLength ==
    ASSUME program \in Programs
    PROVE  Len(program) \in Nat
BY ProgramsAssumption DEF ValidProgram

\* No two instructions run the same step.
LEMMA UniqueIds ==
    ASSUME program \in Programs, NEW i \in 1..Len(program), NEW j \in 1..Len(program),
           program[i].kind = "run", program[j].kind = "run", program[i].id = program[j].id
    PROVE  i = j
BY ProgramsAssumption DEF ValidProgram, IsRun

\* Removing a queued task keeps every other one, in the same order.
LEMMA DequeueFacts ==
    ASSUME queue \in Seq(Steps), NEW n \in 1..Len(queue),
           \A i, j \in 1..Len(queue) : queue[i] = queue[j] => i = j
    PROVE  /\ Dequeue(queue[n]) \in Seq(Steps)
           /\ Len(Dequeue(queue[n])) = Len(queue) - 1
           /\ \A i \in 1..(Len(queue) - 1) :
                 Dequeue(queue[n])[i] = IF i < n THEN queue[i] ELSE queue[i + 1]
<1> DEFINE k == CHOOSE i \in 1..Len(queue) : queue[i] = queue[n]
<1>1. k = n
  OBVIOUS
<1>2. Dequeue(queue[n]) = SubSeq(queue, 1, n - 1) \o SubSeq(queue, n + 1, Len(queue))
  BY <1>1 DEF Dequeue
<1> DEFINE front == SubSeq(queue, 1, n - 1)
           rear  == SubSeq(queue, n + 1, Len(queue))
<1>3. front \in Seq(Steps) /\ Len(front) = n - 1
  OBVIOUS
<1>4. rear \in Seq(Steps) /\ Len(rear) = Len(queue) - n
  OBVIOUS
<1>5. /\ \A i \in 1..(n - 1) : front[i] = queue[i]
      /\ \A i \in 1..(Len(queue) - n) : rear[i] = queue[n + i]
  OBVIOUS
<1> HIDE DEF front, rear
<1>a. /\ front \o rear \in Seq(Steps)
      /\ Len(front \o rear) = Len(front) + Len(rear)
      /\ \A i \in 1..(Len(front) + Len(rear)) :
            (front \o rear)[i] = IF i <= Len(front) THEN front[i] ELSE rear[i - Len(front)]
  BY <1>3, <1>4, ConcatProperties
<1>b. Len(queue) \in Nat /\ n \in Nat
  OBVIOUS
<1>c. Len(front) + Len(rear) = Len(queue) - 1
  BY <1>3, <1>4, <1>b
<1>6. ASSUME NEW i \in 1..(Len(queue) - 1)
      PROVE  (front \o rear)[i] = IF i < n THEN queue[i] ELSE queue[i + 1]
  <2>1. CASE i < n
    BY <2>1, <1>3, <1>5, <1>a, <1>b, <1>c
  <2>2. CASE ~(i < n)
    <3>1. i - (n - 1) \in 1..(Len(queue) - n) /\ n + (i - (n - 1)) = i + 1
      BY <2>2, <1>b
    <3> QED
      BY <2>2, <3>1, <1>3, <1>5, <1>a, <1>b, <1>c
  <2> QED
    BY <2>1, <2>2
<1> QED
  BY <1>2, <1>a, <1>c, <1>6 DEF front, rear

-----------------------------------------------------------------------------
\* Committing one task keeps the types.
LEMMA CommitType ==
    ASSUME TypeOK, CommitNext, Committable(Head(barrier))
    PROVE  TypeOK'
<1> USE DEF TypeOK, TaskStates, Conclusions
<1> DEFINE s == Head(barrier)
<1>1. s \in Steps /\ barrier' \in Seq(Steps)
  BY DEF CommitNext
<1>2. task' \in [Steps -> TaskStates]
  BY <1>1 DEF CommitNext
<1>3. visible' \in [Steps -> Conclusions]
  BY <1>1 DEF CommitNext
<1>4. commits' = Append(commits, s)
  BY DEF CommitNext
<1>5. runErr' \in BOOLEAN
  BY DEF CommitNext
<1>6. panicked' \in BOOLEAN
  BY DEF CommitNext
<1> QED
  BY <1>1, <1>2, <1>3, <1>4, <1>5, <1>6 DEF CommitNext, workerVars

\* The type invariant is preserved by each operation.
LEMMA TypeStep ==
    ASSUME IInv, [Next]_vars
    PROVE  TypeOK'
<1> USE DEF IInv, TypeOK, Phases, TaskStates, WorkStages, Results, Causes, Conclusions
<1> USE LimitAssumption, TolerantAssumption, ProgramLength
<1>0. Fetching("run") => Instruction.id \in Steps
  BY InstructionTypes DEF Fetching, Instruction
<1>1. CASE SkipStep
  BY <1>0, <1>1 DEF SkipStep, Fetching, supervisorVars, workerVars
<1>2. CASE RejectStep
  BY <1>0, <1>2 DEF RejectStep, Fetching, Classify, supervisorVars
<1>3. CASE RunForeground
  BY <1>0, <1>3 DEF RunForeground, supervisorVars
<1>4. CASE CommitForeground
  <2>1. Instruction.id \in Steps /\ pc <= Len(program)
    BY <1>4, InstructionTypes DEF CommitForeground, ControlInv, Instruction
  <2> QED
    BY <2>1, <1>4 DEF CommitForeground, Classify, supervisorVars
<1>5. CASE StartBackground
  BY <1>0, <1>5 DEF StartBackground, Enqueue
<1>6. CASE BeginWait
  <2>1. barrier' \in Seq(Steps)
    BY <1>6, InstructionTypes DEF BeginWait, Fetching, Instruction
  <2> QED
    BY <2>1, <1>6 DEF BeginWait, supervisorVars, workerVars
<1>7. CASE BeginCancel
  <2> DEFINE s == Instruction.target
  <2>1. s \in Steps
    BY <1>7, InstructionTypes DEF BeginCancel, Fetching, Instruction
  <2>2. task[s] = "queued" => Dequeue(s) \in Seq(Steps)
    BY <2>1, DequeueFacts DEF QueueInv
  <2>3. CASE ~Committable(s)
    BY <2>1, <2>3, <1>7 DEF BeginCancel
  <2>4. CASE Committable(s) /\ task[s] # "queued"
    <3>1. Interrupt(s)
      BY <2>4, <1>7 DEF BeginCancel
    <3>2. cause' \in [Steps -> Causes]
      BY <2>1, <3>1 DEF Interrupt
    <3>3. barrier' \in Seq(Steps)
      BY <2>1, <1>7 DEF BeginCancel
    <3> QED
      BY <2>1, <2>4, <3>2, <3>3, <1>7 DEF BeginCancel
  <2>5. CASE Committable(s) /\ task[s] = "queued"
    <3>0. Interrupt(s)
      BY <2>5, <1>7 DEF BeginCancel
    <3>a. cause' \in [Steps -> Causes]
      BY <2>1, <3>0 DEF Interrupt
    <3>b. execution' = [execution EXCEPT ![s] = "cancelled"]
      BY <2>5, <1>7 DEF BeginCancel
    <3>1. cause' \in [Steps -> Causes] /\ execution' \in [Steps -> Conclusions]
      BY <2>1, <3>a, <3>b
    <3>2. barrier' \in Seq(Steps) /\ queue' \in Seq(Steps)
      BY <2>1, <2>2, <2>5, <1>7 DEF BeginCancel
    <3>3. /\ task' = [task EXCEPT ![s] = "finished"]
          /\ panicked' = (panicked \/ ~ValidTransition(task[s], "finished"))
      BY <2>5, <1>7 DEF BeginCancel
    <3>4. task' \in [Steps -> TaskStates]
      BY <2>1, <3>3
    <3>5. panicked' \in BOOLEAN
      BY <3>3
    <3> QED
      BY <2>1, <2>5, <3>1, <3>2, <3>4, <3>5, <1>7 DEF BeginCancel
  <2> QED
    BY <2>3, <2>4, <2>5
<1>8. CASE CommitNext
  <2>1. CASE ~Committable(Head(barrier))
    BY <2>1, <1>8 DEF CommitNext, workerVars
  <2>2. CASE Committable(Head(barrier))
    BY <2>2, <1>8, CommitType
  <2> QED
    BY <2>1, <2>2
<1>9. CASE EndBarrier
  BY <1>9 DEF EndBarrier, supervisorVars, workerVars
<1>10. CASE LeaveSteps
  BY <1>10 DEF LeaveSteps, supervisorVars, workerVars
<1>11. CASE Dispatch
  <2>1. Head(queue) \in Steps /\ Tail(queue) \in Seq(Steps)
    BY <1>11 DEF Dispatch, Admissible
  <2>2. CASE cause[Head(queue)] = "none"
    <3>1. /\ task' = [task EXCEPT ![Head(queue)] = "running"]
          /\ worker' = [worker EXCEPT ![Head(queue)] = "executing"]
          /\ active' = active + 1 /\ active < Limit
      BY <2>2, <1>11 DEF Dispatch, Admissible
    <3>2. active' \in 0..Limit
      BY <3>1
    <3>3. task' \in [Steps -> TaskStates] /\ worker' \in [Steps -> WorkStages]
      BY <2>1, <3>1
    <3>4. panicked' \in BOOLEAN
      BY <2>2, <1>11 DEF Dispatch
    <3> QED
      BY <2>1, <2>2, <3>2, <3>3, <3>4, <1>11 DEF Dispatch, jobVars
  <2>3. CASE cause[Head(queue)] # "none"
    <3>1. /\ task' = [task EXCEPT ![Head(queue)] = "finished"]
          /\ execution' = [execution EXCEPT ![Head(queue)] = "cancelled"]
      BY <2>3, <1>11 DEF Dispatch
    <3>2. task' \in [Steps -> TaskStates] /\ execution' \in [Steps -> Conclusions]
      BY <2>1, <3>1
    <3>3. panicked' \in BOOLEAN
      BY <2>3, <1>11 DEF Dispatch
    <3> QED
      BY <2>1, <2>3, <3>2, <3>3, <1>11 DEF Dispatch, jobVars
  <2> QED
    BY <2>2, <2>3
<1>12. CASE Unlock
  BY <1>12 DEF Unlock, ControlInv, workerVars
<1>13. ASSUME NEW s \in Steps, StepReturns(s)
       PROVE  TypeOK'
  BY <1>13 DEF StepReturns, jobVars, supervisorVars
<1>14. ASSUME NEW s \in Steps, ClassifyBackground(s)
       PROVE  TypeOK'
  BY <1>14 DEF ClassifyBackground, Classify, jobVars, supervisorVars
<1>15. ASSUME NEW s \in Steps, FinishBackground(s)
       PROVE  TypeOK'
  <2>1. s \in Running
    BY <1>15 DEF FinishBackground, WorkerInv, Running
  <2>2. active # 0
    BY <2>1, StepsAssumption, FS_Subset, FS_EmptySet DEF SlotAccounting, Running
  <2> QED
    BY <2>2, <1>15 DEF FinishBackground, FinishThenDispatch, ReleaseSlot, jobVars
<1>16. ASSUME NEW s \in Steps, StepTimeout(s)
       PROVE  TypeOK'
  BY <1>16 DEF StepTimeout, jobVars, supervisorVars
<1>17. CASE CancelJob
  BY <1>17 DEF CancelJob, jobVars, supervisorVars
<1>18. CASE UNCHANGED vars
  BY <1>18 DEF vars, jobVars, supervisorVars, workerVars
<1> QED
  BY <1>1, <1>2, <1>3, <1>4, <1>5, <1>6, <1>7, <1>8, <1>9, <1>10, <1>11, <1>12,
     <1>13, <1>14, <1>15, <1>16, <1>17, <1>18 DEF Next, RunJob, Worker, Terminated

-----------------------------------------------------------------------------
\* What the RunJob goroutine's own steps touch is the current instruction, so a
\* step that was neither handed over nor run stays so unless it is the current
\* one.
LEMMA UntouchedStep ==
    ASSUME IInv, [Next]_vars, NEW s \in Steps, task[s] = "none", worker[s] = "none"
    PROVE  \/ task'[s] = "none" /\ worker'[s] = "none"
           \/ (RunForeground \/ StartBackground) /\ Instruction.id = s
<1> USE DEF IInv, TypeOK
<1>1. CASE SkipStep
  BY <1>1 DEF SkipStep, supervisorVars, workerVars
<1>2. CASE RejectStep
  BY <1>2 DEF RejectStep, supervisorVars
<1>3. CASE RunForeground
  BY <1>3 DEF RunForeground, supervisorVars
<1>4. CASE CommitForeground
  BY <1>4 DEF CommitForeground, supervisorVars
<1>5. CASE StartBackground
  BY <1>5 DEF StartBackground
<1>6. CASE BeginWait
  BY <1>6 DEF BeginWait, supervisorVars, workerVars
<1>7. CASE BeginCancel
  BY <1>7 DEF BeginCancel, Committable
<1>8. CASE CommitNext
  BY <1>8 DEF CommitNext, Committable, workerVars
<1>9. CASE EndBarrier
  BY <1>9 DEF EndBarrier, supervisorVars, workerVars
<1>10. CASE LeaveSteps
  BY <1>10 DEF LeaveSteps, supervisorVars, workerVars
<1>11. CASE Dispatch
  <2>1. Head(queue) # s
    BY <1>11 DEF Dispatch, Admissible, QueueInv
  <2> QED
    BY <2>1, <1>11 DEF Dispatch
<1>12. CASE Unlock
  BY <1>12 DEF Unlock, workerVars
<1>13. ASSUME NEW t \in Steps, StepReturns(t)
       PROVE  task'[s] = "none" /\ worker'[s] = "none"
  BY <1>13 DEF StepReturns, supervisorVars
<1>14. ASSUME NEW t \in Steps, ClassifyBackground(t)
       PROVE  task'[s] = "none" /\ worker'[s] = "none"
  BY <1>14 DEF ClassifyBackground, supervisorVars
<1>15. ASSUME NEW t \in Steps, FinishBackground(t)
       PROVE  task'[s] = "none" /\ worker'[s] = "none"
  BY <1>15 DEF FinishBackground
<1>16. ASSUME NEW t \in Steps, StepTimeout(t)
       PROVE  task'[s] = "none" /\ worker'[s] = "none"
  BY <1>16 DEF StepTimeout, supervisorVars
<1>17. CASE CancelJob
  BY <1>17 DEF CancelJob, supervisorVars
<1>18. CASE UNCHANGED vars
  BY <1>18 DEF vars, supervisorVars, workerVars
<1> QED
  BY <1>1, <1>2, <1>3, <1>4, <1>5, <1>6, <1>7, <1>8, <1>9, <1>10, <1>11, <1>12,
     <1>13, <1>14, <1>15, <1>16, <1>17, <1>18 DEF Next, RunJob, Worker, Terminated

\* How the program counter and the phase move.
LEMMA CounterStep ==
    ASSUME IInv, [Next]_vars
    PROVE  /\ program' = program
           /\ pc' = pc \/ pc' = pc + 1
           /\ pc' = pc /\ phase \in {"foreground", "starting"} => phase' = phase
           /\ RunForeground \/ StartBackground => pc' = pc /\ phase' \in {"foreground", "starting"}
<1> USE DEF IInv, TypeOK
<1>1. CASE SkipStep
  BY <1>1, ProgramLength DEF SkipStep, Fetching, RunForeground, StartBackground
<1>2. CASE RejectStep
  BY <1>2, ProgramLength DEF RejectStep, Fetching, RunForeground, StartBackground
<1>3. CASE RunForeground
  BY <1>3 DEF RunForeground, Fetching, StartBackground
<1>4. CASE CommitForeground
  BY <1>4, ProgramLength DEF CommitForeground, Fetching, RunForeground, StartBackground
<1>5. CASE StartBackground
  BY <1>5 DEF StartBackground, Fetching, RunForeground
<1>6. CASE BeginWait
  BY <1>6 DEF BeginWait, Fetching, RunForeground, StartBackground
<1>7. CASE BeginCancel
  BY <1>7 DEF BeginCancel, Fetching, RunForeground, StartBackground
<1>8. CASE CommitNext
  BY <1>8 DEF CommitNext, Fetching, RunForeground, StartBackground
<1>9. CASE EndBarrier
  BY <1>9 DEF EndBarrier, Fetching, RunForeground, StartBackground
<1>10. CASE LeaveSteps
  BY <1>10 DEF LeaveSteps, Fetching, RunForeground, StartBackground
<1>11. CASE Dispatch
  BY <1>11 DEF Dispatch, jobVars, RunForeground, StartBackground
<1>12. CASE Unlock
  BY <1>12, ProgramLength DEF Unlock, ControlInv, Fetching, RunForeground, StartBackground
<1>13. ASSUME NEW s \in Steps, Worker(s) \/ StepTimeout(s)
       PROVE  UNCHANGED <<program, pc, phase>>
  BY <1>13 DEF Worker, StepReturns, ClassifyBackground, FinishBackground, StepTimeout, jobVars
<1>14. CancelJob \/ UNCHANGED vars => UNCHANGED <<program, pc, phase>>
  BY DEF CancelJob, vars, jobVars
<1>15. UNCHANGED <<program, pc, phase>> => ~RunForeground /\ ~StartBackground
  BY DEF RunForeground, StartBackground, Fetching
<1> QED
  BY <1>1, <1>2, <1>3, <1>4, <1>5, <1>6, <1>7, <1>8, <1>9, <1>10, <1>11, <1>12,
     <1>13, <1>14, <1>15 DEF Next, RunJob, Terminated

\* A run or uses step the program has not reached is untouched.
LEMMA FreshStep ==
    ASSUME IInv, [Next]_vars
    PROVE  FreshInv'
<1> USE DEF IInv, TypeOK
<1>1. program' = program
  BY CounterStep
<1> SUFFICES ASSUME NEW i \in pc'..Len(program),
                    IsRun(program, i),
                    i = pc' => phase' \notin {"foreground", "starting"}
             PROVE  task'[program[i].id] = "none" /\ worker'[program[i].id] = "none"
  BY <1>1 DEF FreshInv
<1> DEFINE s == program[i].id
<1>2. i \in 1..Len(program) /\ program[i].kind = "run" /\ s \in Steps
  BY InstructionTypes DEF IsRun
<1>3. i \in pc..Len(program) /\ (i = pc => phase \notin {"foreground", "starting"})
  BY <1>2, CounterStep, ProgramLength
<1>4. task[s] = "none" /\ worker[s] = "none"
  BY <1>3 DEF FreshInv
<1>5. ~((RunForeground \/ StartBackground) /\ Instruction.id = s)
  <2> SUFFICES ASSUME RunForeground \/ StartBackground, Instruction.id = s
               PROVE  FALSE
    OBVIOUS
  <2>1. pc \in 1..Len(program) /\ program[pc].kind = "run" /\ program[pc].id = s
    BY DEF RunForeground, StartBackground, Fetching, Instruction
  <2>2. i = pc
    BY <2>1, <1>2, UniqueIds
  <2> QED
    BY <2>2, CounterStep
<1> QED
  BY <1>2, <1>4, <1>5, UntouchedStep

-----------------------------------------------------------------------------
\* The steps of Next that move a task, a slot, a worker or the queue, and what
\* they do to them; every other step leaves the supervisor alone.
Submitted(s) ==
    /\ task[s] = "none" /\ worker[s] = "none"
    /\ task' = [task EXCEPT ![s] = "queued"]
    /\ queue' = Append(queue, s) /\ order' = Append(order, s)
    /\ lock' = "job"
    /\ UNCHANGED <<worker, active, panicked>>

Withdrawn(s) ==
    /\ lock = "free" /\ task[s] = "queued"
    /\ task' = [task EXCEPT ![s] = "finished"]
    /\ queue' = Dequeue(s)
    /\ panicked' = (panicked \/ ~ValidTransition(task[s], "finished"))
    /\ UNCHANGED <<worker, active, order, lock>>

Committed(s) ==
    /\ task[s] = "finished"
    /\ task' = [task EXCEPT ![s] = "committed"]
    /\ panicked' = (panicked \/ ~ValidTransition(task[s], "committed"))
    /\ UNCHANGED <<worker, active, order, queue, lock>>

Admitted(s) ==
    /\ queue # <<>> /\ s = Head(queue) /\ queue' = Tail(queue)
    /\ lock # "free" /\ active < Limit
    /\ task' = [task EXCEPT ![s] = "running"]
    /\ worker' = [worker EXCEPT ![s] = "executing"]
    /\ active' = active + 1
    /\ panicked' = (panicked \/ ~ValidTransition(task[s], "running"))
    /\ UNCHANGED <<order, lock>>

Discarded(s) ==
    /\ queue # <<>> /\ s = Head(queue) /\ queue' = Tail(queue)
    /\ lock # "free"
    /\ task' = [task EXCEPT ![s] = "finished"]
    /\ panicked' = (panicked \/ ~ValidTransition(task[s], "finished"))
    /\ UNCHANGED <<worker, active, order, lock>>

Ended(s) ==
    /\ worker[s] = "classified"
    /\ task' = [task EXCEPT ![s] = "finished"]
    /\ worker' = [worker EXCEPT ![s] = "exited"]
    /\ active' = active - 1
    /\ lock' = "worker"
    /\ panicked' = (panicked \/ ~ValidTransition(task[s], "finished"))
    /\ UNCHANGED <<order, queue>>

\* Nothing of the supervisor moves; a worker may.
Progressed(s) ==
    /\ UNCHANGED <<task, order, queue, active, lock, panicked>>
    /\ \/ UNCHANGED worker
       \/ /\ task[s] = "none" /\ worker[s] = "none"
          /\ worker' = [worker EXCEPT ![s] = "executing"]
          /\ phase' = "foreground" /\ Instruction'.id = s
       \/ /\ phase = "foreground" /\ Instruction.id = s /\ task[s] = "none"
          /\ worker' = [worker EXCEPT ![s] = "exited"]
       \/ worker[s] = "executing" /\ worker' = [worker EXCEPT ![s] = "returned"]
       \/ /\ task[s] # "none" /\ worker[s] = "returned"
          /\ worker' = [worker EXCEPT ![s] = "classified"]

Released ==
    /\ lock # "free" /\ ~Admissible /\ lock' = "free"
    /\ UNCHANGED <<task, worker, order, queue, active, panicked>>

SupervisorMove ==
    \/ \E s \in Steps :
          \/ Submitted(s) \/ Withdrawn(s) \/ Committed(s) \/ Admitted(s)
          \/ Discarded(s) \/ Ended(s) \/ Progressed(s)
    \/ Released
    \/ UNCHANGED <<task, worker, order, queue, active, lock, panicked>>

\* Every step of the module is one of the moves of the supervisor, or leaves
\* the supervisor and its goroutines alone.
LEMMA SupervisorSteps ==
    ASSUME IInv, [Next]_vars
    PROVE  SupervisorMove
<1> USE DEF IInv, TypeOK
<1>0. Fetching("run") => /\ Instruction.id \in Steps
                         /\ task[Instruction.id] = "none"
                         /\ worker[Instruction.id] = "none"
  <2> SUFFICES ASSUME Fetching("run")
               PROVE  /\ Instruction.id \in Steps
                      /\ task[Instruction.id] = "none"
                      /\ worker[Instruction.id] = "none"
    OBVIOUS
  <2>1. pc \in 1..Len(program) /\ pc \in pc..Len(program) /\ program[pc].kind = "run"
    BY ProgramLength DEF Fetching, Instruction
  <2> QED
    BY <2>1, InstructionTypes DEF Fetching, Instruction, FreshInv, IsRun
<1>1. CASE SkipStep \/ RejectStep \/ BeginWait \/ EndBarrier \/ LeaveSteps \/ CancelJob \/ UNCHANGED vars
  <2>1. UNCHANGED <<task, worker, order, queue, active, lock, panicked>>
    BY <1>1 DEF SkipStep, RejectStep, BeginWait, EndBarrier, LeaveSteps, CancelJob,
                vars, supervisorVars, workerVars
  <2> QED
    BY <2>1 DEF SupervisorMove
<1>3. CASE RunForeground
  <2> DEFINE s == Instruction.id
  <2>1. Instruction'.id = s
    BY <1>3 DEF RunForeground, Instruction
  <2>2. Progressed(s)
    BY <1>0, <1>3, <2>1 DEF RunForeground, Progressed, supervisorVars
  <2> QED
    BY <1>0, <1>3, <2>2 DEF RunForeground, SupervisorMove
<1>4. CASE CommitForeground
  <2>1. Instruction.id \in Steps
    BY <1>4, InstructionTypes DEF CommitForeground, ControlInv, Instruction
  <2>2. Progressed(Instruction.id)
    BY <1>4 DEF CommitForeground, ControlInv, Progressed, supervisorVars
  <2> QED
    BY <2>1, <2>2 DEF SupervisorMove
<1>5. CASE StartBackground
  <2>1. Submitted(Instruction.id)
    BY <1>0, <1>5 DEF StartBackground, Submitted, Enqueue
  <2> QED
    BY <1>0, <1>5, <2>1 DEF StartBackground, SupervisorMove
<1>7. CASE BeginCancel
  <2> DEFINE s == Instruction.target
  <2>1. s \in Steps
    BY <1>7, InstructionTypes DEF BeginCancel, Fetching, Instruction
  <2>2. CASE Committable(s) /\ task[s] = "queued"
    BY <2>1, <2>2, <1>7 DEF BeginCancel, SupervisorMove, Withdrawn
  <2>3. CASE ~(Committable(s) /\ task[s] = "queued")
    BY <2>1, <2>3, <1>7 DEF BeginCancel, SupervisorMove
  <2> QED
    BY <2>2, <2>3
<1>8. CASE CommitNext
  <2> DEFINE s == Head(barrier)
  <2>1. s \in Steps
    BY <1>8 DEF CommitNext
  <2>2. CASE Committable(s)
    <3>1. ~Blocks(s)
      BY <1>8 DEF CommitNext
    <3>2. task[s] = "finished"
      BY <2>1, <2>2, <3>1 DEF Committable, Blocks, TaskStates
    <3> QED
      BY <2>1, <2>2, <3>2, <1>8 DEF CommitNext, SupervisorMove, Committed, workerVars
  <2>3. CASE ~Committable(s)
    BY <2>3, <1>8 DEF CommitNext, SupervisorMove, workerVars
  <2> QED
    BY <2>2, <2>3
<1>11. CASE Dispatch
  <2> DEFINE s == Head(queue)
  <2>1. s \in Steps
    BY <1>11 DEF Dispatch, Admissible
  <2>2. CASE cause[s] = "none"
    BY <2>1, <2>2, <1>11 DEF Dispatch, Admissible, SupervisorMove, Admitted
  <2>3. CASE cause[s] # "none"
    BY <2>1, <2>3, <1>11 DEF Dispatch, Admissible, SupervisorMove, Discarded
  <2> QED
    BY <2>2, <2>3
<1>12. CASE Unlock
  BY <1>12 DEF Unlock, SupervisorMove, Released, workerVars
<1>13. ASSUME NEW s \in Steps, StepReturns(s) \/ ClassifyBackground(s) \/ StepTimeout(s)
       PROVE  SupervisorMove
  <2>1. Progressed(s)
    BY <1>13 DEF StepReturns, ClassifyBackground, StepTimeout, Progressed, supervisorVars
  <2> QED
    BY <2>1 DEF SupervisorMove
<1>15. ASSUME NEW s \in Steps, FinishBackground(s)
       PROVE  SupervisorMove
  <2>1. Ended(s)
    BY <1>15 DEF FinishBackground, Ended, FinishThenDispatch, ReleaseSlot
  <2> QED
    BY <2>1 DEF SupervisorMove
<1> QED
  BY <1>1, <1>3, <1>4, <1>5, <1>7, <1>8, <1>11, <1>12, <1>13, <1>15
     DEF Next, RunJob, Worker, Terminated

-----------------------------------------------------------------------------
\* Program counter, phase and mutex stay consistent: the mutex is held by the
\* RunJob goroutine exactly while it starts a task.
LEMMA ControlStep ==
    ASSUME IInv, [Next]_vars
    PROVE  ControlInv'
<1> USE ProgramLength DEF IInv, TypeOK, ControlInv, Instruction
<1>1. CASE SkipStep
  BY <1>1 DEF SkipStep, Fetching, supervisorVars
<1>2. CASE RejectStep
  BY <1>2 DEF RejectStep, Fetching, supervisorVars
<1>3. CASE RunForeground
  <2>1. task[Instruction.id] = "none"
    <3>1. pc \in pc..Len(program)
      BY <1>3 DEF RunForeground, Fetching
    <3> QED
      BY <1>3, <3>1 DEF RunForeground, Fetching, FreshInv, IsRun
  <2> QED
    BY <1>3, <2>1 DEF RunForeground, Fetching, supervisorVars
<1>4. CASE CommitForeground
  BY <1>4 DEF CommitForeground, supervisorVars
<1>5. CASE StartBackground
  BY <1>5 DEF StartBackground, Fetching
<1>6. CASE BeginWait
  BY <1>6 DEF BeginWait, Fetching, supervisorVars
<1>7. CASE BeginCancel
  BY <1>7 DEF BeginCancel, Fetching
<1>8. CASE CommitNext
  BY <1>8 DEF CommitNext
<1>9. CASE EndBarrier
  BY <1>9 DEF EndBarrier, supervisorVars
<1>10. CASE LeaveSteps
  BY <1>10 DEF LeaveSteps, supervisorVars
<1>11. CASE Dispatch
  <2>0. task[Head(queue)] = "queued"
    BY <1>11 DEF Dispatch, Admissible, QueueInv
  <2>1. phase = "foreground" => Instruction.id # Head(queue)
    BY <2>0
  <2>2. phase = "foreground" => task'[Instruction.id] = "none"
    BY <1>11, <2>1 DEF Dispatch
  <2> QED
    BY <1>11, <2>2 DEF Dispatch, jobVars
<1>12. CASE Unlock
  BY <1>12 DEF Unlock
<1>13. ASSUME NEW s \in Steps, Worker(s) \/ StepTimeout(s)
       PROVE  ControlInv'
  <2>1. CASE FinishBackground(s)
    <3>1. phase = "foreground" => Instruction.id # s
      BY <2>1 DEF FinishBackground, WorkerInv
    <3> QED
      BY <2>1, <3>1 DEF FinishBackground, FinishThenDispatch, jobVars
  <2>2. CASE StepReturns(s) \/ ClassifyBackground(s) \/ StepTimeout(s)
    BY <2>2 DEF StepReturns, ClassifyBackground, StepTimeout, jobVars, supervisorVars
  <2> QED
    BY <1>13, <2>1, <2>2 DEF Worker
<1>14. CASE CancelJob
  BY <1>14 DEF CancelJob, jobVars, supervisorVars
<1>15. CASE UNCHANGED vars
  BY <1>15 DEF vars, jobVars, supervisorVars
<1> QED
  BY <1>1, <1>2, <1>3, <1>4, <1>5, <1>6, <1>7, <1>8, <1>9, <1>10, <1>11, <1>12,
     <1>13, <1>14, <1>15 DEF Next, RunJob, Terminated

\* The foreground step is the current instruction and no task.
LEMMA ForegroundStep ==
    ASSUME IInv, [Next]_vars
    PROVE  ForegroundInv'
<1> USE DEF IInv, TypeOK, ForegroundInv, Instruction
<1>1. CASE SkipStep
  BY <1>1 DEF SkipStep, Fetching, supervisorVars, workerVars
<1>2. CASE RejectStep
  BY <1>2 DEF RejectStep, Fetching, supervisorVars
<1>3. CASE RunForeground
  BY <1>3 DEF RunForeground, Fetching, supervisorVars
<1>4. CASE CommitForeground
  BY <1>4 DEF CommitForeground, supervisorVars
<1>5. CASE StartBackground
  BY <1>5 DEF StartBackground, Fetching
<1>6. CASE BeginWait
  BY <1>6 DEF BeginWait, Fetching, supervisorVars, workerVars
<1>7. CASE BeginCancel
  BY <1>7 DEF BeginCancel, Fetching, Committable
<1>8. CASE CommitNext
  BY <1>8 DEF CommitNext, Committable, workerVars
<1>9. CASE EndBarrier
  BY <1>9 DEF EndBarrier, supervisorVars, workerVars
<1>10. CASE LeaveSteps
  BY <1>10 DEF LeaveSteps, supervisorVars, workerVars
<1>11. CASE Dispatch
  <2>1. Head(queue) \in Steps
    BY <1>11 DEF Dispatch, Admissible
  <2>2. task'[Head(queue)] # "none"
    BY <1>11, <2>1 DEF Dispatch
  <2> QED
    BY <1>11, <2>1, <2>2 DEF Dispatch, jobVars
<1>12. CASE Unlock
  BY <1>12 DEF Unlock, ControlInv, workerVars
<1>13. ASSUME NEW s \in Steps, Worker(s) \/ StepTimeout(s)
       PROVE  ForegroundInv'
  BY <1>13 DEF Worker, StepReturns, ClassifyBackground, FinishBackground, StepTimeout,
               jobVars, supervisorVars
<1>14. CASE CancelJob
  BY <1>14 DEF CancelJob, jobVars, supervisorVars
<1>15. CASE UNCHANGED vars
  BY <1>15 DEF vars, jobVars, supervisorVars, workerVars
<1> QED
  BY <1>1, <1>2, <1>3, <1>4, <1>5, <1>6, <1>7, <1>8, <1>9, <1>10, <1>11, <1>12,
     <1>13, <1>14, <1>15 DEF Next, RunJob, Terminated

\* The goroutine of a task keeps step with the state of the task.
LEMMA WorkerStep ==
    ASSUME IInv, [Next]_vars
    PROVE  WorkerInv'
<1> USE DEF IInv, TypeOK, WorkerInv, TaskStates, WorkStages
<1>1. ASSUME NEW s \in Steps, Submitted(s) \/ Withdrawn(s) \/ Committed(s)
      PROVE  WorkerInv'
  BY <1>1 DEF Submitted, Withdrawn, Committed
<1>2. ASSUME NEW s \in Steps, Admitted(s) \/ Discarded(s)
      PROVE  WorkerInv'
  <2>1. task[s] = "queued"
    BY <1>2 DEF Admitted, Discarded, QueueInv
  <2> QED
    BY <1>2, <2>1 DEF Admitted, Discarded
<1>3. ASSUME NEW s \in Steps, Ended(s)
      PROVE  WorkerInv'
  BY <1>3 DEF Ended
<1>4. ASSUME NEW s \in Steps, Progressed(s)
      PROVE  WorkerInv'
  BY <1>4 DEF Progressed
<1>5. CASE Released \/ UNCHANGED <<task, worker, order, queue, active, lock, panicked>>
  BY <1>5 DEF Released
<1> QED
  BY <1>1, <1>2, <1>3, <1>4, <1>5, SupervisorSteps DEF SupervisorMove

\* Every move of a task is one transitionLocked admits.
LEMMA NoPanicStep ==
    ASSUME IInv, [Next]_vars
    PROVE  NoPanic'
<1> USE DEF IInv, TypeOK, NoPanic, ValidTransition
<1>1. ASSUME NEW s \in Steps, Submitted(s) \/ Withdrawn(s) \/ Committed(s) \/ Progressed(s)
      PROVE  NoPanic'
  BY <1>1 DEF Submitted, Withdrawn, Committed, Progressed
<1>2. ASSUME NEW s \in Steps, Admitted(s) \/ Discarded(s)
      PROVE  NoPanic'
  <2>1. task[s] = "queued"
    BY <1>2 DEF Admitted, Discarded, QueueInv
  <2> QED
    BY <1>2, <2>1 DEF Admitted, Discarded
<1>3. ASSUME NEW s \in Steps, Ended(s)
      PROVE  NoPanic'
  BY <1>3 DEF Ended, WorkerInv
<1>4. CASE Released \/ UNCHANGED <<task, worker, order, queue, active, lock, panicked>>
  BY <1>4 DEF Released
<1> QED
  BY <1>1, <1>2, <1>3, <1>4, SupervisorSteps DEF SupervisorMove

-----------------------------------------------------------------------------
\* Where the elements of the queue are after each kind of move.
LEMMA TailFacts ==
    ASSUME queue \in Seq(Steps), queue # <<>>
    PROVE  /\ Len(Tail(queue)) = Len(queue) - 1
           /\ \A i \in 1..(Len(queue) - 1) : Tail(queue)[i] = queue[i + 1]
           /\ Head(queue) = queue[1]
           /\ Len(queue) \in Nat \ {0}
OBVIOUS

\* Where the elements of the queue are after an append.
LEMMA AppendFacts ==
    ASSUME NEW seq \in Seq(Steps), NEW s \in Steps
    PROVE  /\ Len(Append(seq, s)) = Len(seq) + 1
           /\ \A i \in 1..Len(seq) : Append(seq, s)[i] = seq[i]
           /\ Append(seq, s)[Len(seq) + 1] = s
           /\ Len(seq) \in Nat
OBVIOUS

\* The queue holds the queued tasks, each once.
LEMMA QueueStep ==
    ASSUME IInv, [Next]_vars
    PROVE  QueueInv'
<1>0. queue \in Seq(Steps) /\ task \in [Steps -> TaskStates] /\ QueueInv /\ WorkerInv
  BY DEF IInv, TypeOK
<1> USE <1>0 DEF QueueInv
<1>1. ASSUME NEW s \in Steps, Submitted(s)
      PROVE  QueueInv'
  <2>1. queue' = Append(queue, s) /\ task' = [task EXCEPT ![s] = "queued"] /\ task[s] = "none"
    BY <1>1 DEF Submitted
  <2>2. /\ Len(queue') = Len(queue) + 1 /\ Len(queue) \in Nat
        /\ \A i \in 1..Len(queue) : queue'[i] = queue[i]
        /\ queue'[Len(queue) + 1] = s
    BY <2>1, AppendFacts
  <2>3. \A i \in 1..Len(queue) : queue[i] \in Steps /\ queue[i] # s
    BY <2>1
  <2>4. \A i \in 1..Len(queue') : task'[queue'[i]] = "queued"
    BY <2>1, <2>2, <2>3
  <2>5. ASSUME NEW i \in 1..Len(queue'), NEW j \in 1..Len(queue'), queue'[i] = queue'[j]
        PROVE  i = j
    <3>1. CASE i \in 1..Len(queue) /\ j \in 1..Len(queue)
      BY <3>1, <2>2, <2>5
    <3>2. CASE i = Len(queue) + 1 \/ j = Len(queue) + 1
      BY <3>2, <2>2, <2>3, <2>5
    <3> QED
      BY <3>1, <3>2, <2>2
  <2>6. ASSUME NEW t \in Steps, task'[t] = "queued"
        PROVE  \E i \in 1..Len(queue') : queue'[i] = t
    <3>1. CASE t = s
      BY <3>1, <2>2
    <3>2. CASE t # s
      <4>1. PICK i \in 1..Len(queue) : queue[i] = t
        BY <3>2, <2>1, <2>6
      <4> QED
        BY <4>1, <2>2
    <3> QED
      BY <3>1, <3>2
  <2> QED
    BY <2>4, <2>5, <2>6
<1>2. ASSUME NEW s \in Steps, Withdrawn(s)
      PROVE  QueueInv'
  <2>1. queue' = Dequeue(s) /\ task' = [task EXCEPT ![s] = "finished"] /\ task[s] = "queued"
    BY <1>2 DEF Withdrawn
  <2>2. PICK n \in 1..Len(queue) : queue[n] = s
    BY <2>1
  <2>3. /\ Len(queue') = Len(queue) - 1 /\ Len(queue) \in Nat
        /\ \A i \in 1..(Len(queue) - 1) : queue'[i] = IF i < n THEN queue[i] ELSE queue[i + 1]
    <3>1. \A i, j \in 1..Len(queue) : queue[i] = queue[j] => i = j
      OBVIOUS
    <3>2. queue' = Dequeue(queue[n])
      BY <2>1, <2>2
    <3>3. /\ Len(Dequeue(queue[n])) = Len(queue) - 1
          /\ \A i \in 1..(Len(queue) - 1) :
                Dequeue(queue[n])[i] = IF i < n THEN queue[i] ELSE queue[i + 1]
      BY <3>1, DequeueFacts
    <3>4. Len(queue) \in Nat
      OBVIOUS
    <3> QED
      BY <3>2, <3>3, <3>4
  <2>4. \A i \in 1..Len(queue) : queue[i] \in Steps /\ (queue[i] = s => i = n)
    BY <2>2
  <2> DEFINE old(i) == IF i < n THEN i ELSE i + 1
  <2>a. \A i \in 1..Len(queue') :
            old(i) \in 1..Len(queue) /\ queue'[i] = queue[old(i)] /\ old(i) # n
    BY <2>3
  <2>b. \A i, j \in 1..Len(queue') : old(i) = old(j) => i = j
    BY <2>3
  <2> HIDE DEF old
  <2>5. \A i \in 1..Len(queue') : task'[queue'[i]] = "queued"
    BY <2>1, <2>a, <2>4
  <2>6. ASSUME NEW i \in 1..Len(queue'), NEW j \in 1..Len(queue'), queue'[i] = queue'[j]
        PROVE  i = j
    <3>1. queue[old(i)] = queue[old(j)] /\ old(i) \in 1..Len(queue) /\ old(j) \in 1..Len(queue)
      BY <2>a, <2>6
    <3>2. old(i) = old(j)
      BY <3>1
    <3> QED
      BY <2>b, <3>2
  <2>7. ASSUME NEW t \in Steps, task'[t] = "queued"
        PROVE  \E i \in 1..Len(queue') : queue'[i] = t
    <3>1. t # s /\ task[t] = "queued"
      BY <2>1, <2>7
    <3>2. PICK i \in 1..Len(queue) : queue[i] = t
      BY <3>1
    <3>3. i # n
      BY <2>2, <3>1, <3>2
    <3>4. CASE i < n
      <4>1. i \in 1..Len(queue') /\ queue'[i] = queue[i]
        BY <2>3, <3>4
      <4> QED
        BY <3>2, <4>1
    <3>5. CASE i > n
      <4>1. i - 1 \in 1..Len(queue') /\ queue'[i - 1] = queue[i]
        BY <2>3, <3>5
      <4> QED
        BY <3>2, <4>1
    <3> QED
      BY <3>3, <3>4, <3>5
  <2> QED
    BY <2>5, <2>6, <2>7
<1>3. ASSUME NEW s \in Steps, Admitted(s) \/ Discarded(s)
      PROVE  QueueInv'
  <2>1. /\ queue # <<>> /\ s = Head(queue) /\ queue' = Tail(queue)
        /\ \A t \in Steps \ {s} : task'[t] = task[t]
        /\ task'[s] # "queued"
    BY <1>3 DEF Admitted, Discarded
  <2>2. /\ Len(queue') = Len(queue) - 1 /\ Len(queue) \in Nat \ {0}
        /\ \A i \in 1..(Len(queue) - 1) : queue'[i] = queue[i + 1]
        /\ s = queue[1]
    BY <2>1, TailFacts
  <2>3. \A i \in 1..Len(queue) : queue[i] \in Steps /\ (queue[i] = s => i = 1)
    BY <2>2
  <2>a. \A i \in 1..Len(queue') : i + 1 \in 1..Len(queue) /\ queue'[i] = queue[i + 1] /\ i + 1 # 1
    BY <2>2
  <2>4. \A i \in 1..Len(queue') : task'[queue'[i]] = "queued"
    BY <2>1, <2>a, <2>3
  <2>5. ASSUME NEW i \in 1..Len(queue'), NEW j \in 1..Len(queue'), queue'[i] = queue'[j]
        PROVE  i = j
    <3>1. i + 1 = j + 1
      BY <2>a, <2>5
    <3> QED
      BY <2>2, <3>1
  <2>6. ASSUME NEW t \in Steps, task'[t] = "queued"
        PROVE  \E i \in 1..Len(queue') : queue'[i] = t
    <3>1. t # s /\ task[t] = "queued"
      BY <2>1, <2>6
    <3>2. PICK i \in 1..Len(queue) : queue[i] = t
      BY <3>1
    <3>3. i # 1
      BY <2>2, <3>1, <3>2
    <3>4. i - 1 \in 1..Len(queue') /\ queue'[i - 1] = queue[i]
      BY <2>2, <3>3
    <3> QED
      BY <3>2, <3>4
  <2> QED
    BY <2>4, <2>5, <2>6
<1>4. ASSUME NEW s \in Steps, Committed(s) \/ Ended(s)
      PROVE  QueueInv'
  <2>1. queue' = queue /\ task[s] # "queued"
    BY <1>4 DEF Committed, Ended, WorkerInv
  <2>2. \A t \in Steps : task'[t] = "queued" <=> task[t] = "queued"
    BY <1>4, <2>1 DEF Committed, Ended
  <2>3. \A i \in 1..Len(queue) : queue[i] \in Steps
    OBVIOUS
  <2> QED
    BY <2>1, <2>2, <2>3
<1>5. ASSUME NEW s \in Steps, Progressed(s)
      PROVE  QueueInv'
  BY <1>5 DEF Progressed
<1>6. CASE Released \/ UNCHANGED <<task, worker, order, queue, active, lock, panicked>>
  BY <1>6 DEF Released
<1> QED
  BY <1>1, <1>2, <1>3, <1>4, <1>5, <1>6, SupervisorSteps DEF SupervisorMove

\* order holds every started task, once.
LEMMA OrderStep ==
    ASSUME IInv, [Next]_vars
    PROVE  OrderInv'
<1>0. order \in Seq(Steps) /\ task \in [Steps -> TaskStates] /\ OrderInv /\ QueueInv /\ WorkerInv
  BY DEF IInv, TypeOK
<1> USE <1>0 DEF OrderInv
<1>1. ASSUME NEW s \in Steps, Submitted(s)
      PROVE  OrderInv'
  <2>1. order' = Append(order, s) /\ task' = [task EXCEPT ![s] = "queued"] /\ task[s] = "none"
    BY <1>1 DEF Submitted
  <2>2. /\ Len(order') = Len(order) + 1 /\ Len(order) \in Nat
        /\ \A i \in 1..Len(order) : order'[i] = order[i]
        /\ order'[Len(order) + 1] = s
    BY <2>1, AppendFacts
  <2>3. \A i \in 1..Len(order) : order[i] \in Steps /\ order[i] # s
    BY <2>1
  <2>4. \A i \in 1..Len(order') : task'[order'[i]] # "none"
    BY <2>1, <2>2, <2>3
  <2>5. ASSUME NEW i \in 1..Len(order'), NEW j \in 1..Len(order'), order'[i] = order'[j]
        PROVE  i = j
    <3>1. CASE i \in 1..Len(order) /\ j \in 1..Len(order)
      BY <3>1, <2>2, <2>5
    <3>2. CASE i = Len(order) + 1 \/ j = Len(order) + 1
      BY <3>2, <2>2, <2>3, <2>5
    <3> QED
      BY <3>1, <3>2, <2>2
  <2>6. ASSUME NEW t \in Steps, task'[t] # "none"
        PROVE  \E i \in 1..Len(order') : order'[i] = t
    <3>1. CASE t = s
      BY <3>1, <2>2
    <3>2. CASE t # s
      <4>1. PICK i \in 1..Len(order) : order[i] = t
        BY <3>2, <2>1, <2>6
      <4> QED
        BY <4>1, <2>2
    <3> QED
      BY <3>1, <3>2
  <2> QED
    BY <2>4, <2>5, <2>6
<1>2. ASSUME NEW s \in Steps,
             Withdrawn(s) \/ Committed(s) \/ Admitted(s) \/ Discarded(s) \/ Ended(s)
      PROVE  OrderInv'
  <2>1. order' = order /\ task[s] # "none"
    BY <1>2 DEF Withdrawn, Committed, Admitted, Discarded, Ended, QueueInv, WorkerInv
  <2>2. \A t \in Steps : task'[t] = "none" <=> task[t] = "none"
    BY <1>2, <2>1 DEF Withdrawn, Committed, Admitted, Discarded, Ended
  <2>3. \A i \in 1..Len(order) : order[i] \in Steps
    OBVIOUS
  <2> QED
    BY <2>1, <2>2, <2>3
<1>3. ASSUME NEW s \in Steps, Progressed(s)
      PROVE  OrderInv'
  BY <1>3 DEF Progressed
<1>4. CASE Released \/ UNCHANGED <<task, worker, order, queue, active, lock, panicked>>
  BY <1>4 DEF Released
<1> QED
  BY <1>1, <1>2, <1>3, <1>4, SupervisorSteps DEF SupervisorMove

\* The position in order of what a queue position holds after a move.
LEMMA QueueOrderStep ==
    ASSUME IInv, [Next]_vars
    PROVE  QueueOrder'
<1>0. /\ queue \in Seq(Steps) /\ order \in Seq(Steps) /\ task \in [Steps -> TaskStates]
      /\ QueueInv /\ QueueOrder /\ OrderInv
  BY DEF IInv, TypeOK
<1>1. ASSUME NEW s \in Steps, Submitted(s)
      PROVE  QueueOrder'
  <2>1. /\ order' = Append(order, s) /\ queue' = Append(queue, s) /\ task[s] = "none"
    BY <1>1 DEF Submitted
  <2>2. /\ Len(order') = Len(order) + 1 /\ Len(order) \in Nat
        /\ \A i \in 1..Len(order) : order'[i] = order[i]
        /\ order'[Len(order) + 1] = s
    BY <1>0, <2>1, AppendFacts
  <2>3. /\ Len(queue') = Len(queue) + 1 /\ Len(queue) \in Nat
        /\ \A i \in 1..Len(queue) : queue'[i] = queue[i]
        /\ queue'[Len(queue) + 1] = s
    BY <1>0, <2>1, AppendFacts
  <2>4. /\ \A i \in 1..Len(queue) : queue[i] # s
        /\ \A i \in 1..Len(order) : order[i] # s
    BY <1>0, <2>1 DEF QueueInv, OrderInv
  <2> SUFFICES ASSUME NEW m \in 1..Len(queue'), NEW n \in 1..Len(queue'),
                      NEW i \in 1..Len(order'), NEW j \in 1..Len(order'),
                      m < n, queue'[m] = order'[i], queue'[n] = order'[j]
               PROVE  i < j
    BY DEF QueueOrder
  <2>5. m \in 1..Len(queue) /\ queue'[m] = queue[m] /\ queue[m] # s
    BY <2>3, <2>4
  <2>6. i \in 1..Len(order) /\ order'[i] = order[i]
    <3>1. order'[i] # s
      BY <2>5
    <3>2. i # Len(order) + 1
      BY <2>2, <3>1
    <3> QED
      BY <2>2, <3>2
  <2>7. CASE n = Len(queue) + 1
    <3>1. order'[j] = s
      BY <2>7, <2>3
    <3>2. j = Len(order) + 1
      BY <3>1, <2>2, <2>4
    <3> QED
      BY <3>2, <2>6, <2>2
  <2>8. CASE n \in 1..Len(queue)
    <3>1. queue'[n] = queue[n] /\ queue[n] # s
      BY <2>8, <2>3, <2>4
    <3>a. order'[j] # s
      BY <3>1
    <3>b. j # Len(order) + 1
      BY <2>2, <3>a
    <3>2. j \in 1..Len(order) /\ order'[j] = order[j]
      BY <2>2, <3>b
    <3> QED
      BY <2>5, <2>6, <2>8, <3>1, <3>2, <1>0 DEF QueueOrder
  <2> QED
    BY <2>7, <2>8, <2>3
<1>2. ASSUME NEW s \in Steps, Withdrawn(s)
      PROVE  QueueOrder'
  <2>1. order' = order /\ queue' = Dequeue(s) /\ task[s] = "queued"
    BY <1>2 DEF Withdrawn
  <2>2. PICK k \in 1..Len(queue) : queue[k] = s
    BY <1>0, <2>1 DEF QueueInv
  <2>3. queue' = Dequeue(queue[k]) /\ Len(queue) \in Nat
    BY <1>0, <2>1, <2>2
  <2>4. /\ Len(Dequeue(queue[k])) = Len(queue) - 1
        /\ \A i \in 1..(Len(queue) - 1) :
              Dequeue(queue[k])[i] = IF i < k THEN queue[i] ELSE queue[i + 1]
    BY <1>0, DequeueFacts DEF QueueInv
  <2> DEFINE old(i) == IF i < k THEN i ELSE i + 1
  <2>5. \A i \in 1..Len(queue') : old(i) \in 1..Len(queue) /\ queue'[i] = queue[old(i)]
    BY <2>3, <2>4
  <2>6. \A m, n \in 1..Len(queue') : m < n => old(m) < old(n)
    BY <2>3, <2>4
  <2> HIDE DEF old
  <2> SUFFICES ASSUME NEW m \in 1..Len(queue'), NEW n \in 1..Len(queue'),
                      NEW i \in 1..Len(order), NEW j \in 1..Len(order),
                      m < n, queue'[m] = order[i], queue'[n] = order[j]
               PROVE  i < j
    BY <2>1 DEF QueueOrder
  <2>7. /\ old(m) \in 1..Len(queue) /\ old(n) \in 1..Len(queue) /\ old(m) < old(n)
        /\ queue[old(m)] = order[i] /\ queue[old(n)] = order[j]
    BY <2>5, <2>6
  <2> QED
    BY <2>7, <1>0 DEF QueueOrder
<1>3. ASSUME NEW s \in Steps, Admitted(s) \/ Discarded(s)
      PROVE  QueueOrder'
  <2>1. order' = order /\ queue # <<>> /\ queue' = Tail(queue)
    BY <1>3 DEF Admitted, Discarded
  <2>2. /\ Len(queue') = Len(queue) - 1 /\ Len(queue) \in Nat
        /\ \A i \in 1..(Len(queue) - 1) : queue'[i] = queue[i + 1]
    BY <1>0, <2>1, TailFacts
  <2> SUFFICES ASSUME NEW m \in 1..Len(queue'), NEW n \in 1..Len(queue'),
                      NEW i \in 1..Len(order), NEW j \in 1..Len(order),
                      m < n, queue'[m] = order[i], queue'[n] = order[j]
               PROVE  i < j
    BY <2>1 DEF QueueOrder
  <2>3. /\ m + 1 \in 1..Len(queue) /\ n + 1 \in 1..Len(queue) /\ m + 1 < n + 1
        /\ queue[m + 1] = order[i] /\ queue[n + 1] = order[j]
    BY <2>2
  <2> QED
    BY <2>3, <1>0 DEF QueueOrder
<1>4. ASSUME NEW s \in Steps, Committed(s) \/ Ended(s) \/ Progressed(s)
      PROVE  QueueOrder'
  <2>1. order' = order /\ queue' = queue
    BY <1>4 DEF Committed, Ended, Progressed
  <2> QED
    BY <2>1, <1>0 DEF QueueOrder
<1>5. CASE Released \/ UNCHANGED <<task, worker, order, queue, active, lock, panicked>>
  BY <1>5, <1>0 DEF Released, QueueOrder
<1> QED
  BY <1>1, <1>2, <1>3, <1>4, <1>5, SupervisorSteps DEF SupervisorMove

\* Only the head of the queue is admitted, and it is the oldest queued task.
LEMMA AdmissionStep ==
    ASSUME IInv, [Next]_vars
    PROVE  AdmissionOrder'
<1>0. /\ queue \in Seq(Steps) /\ order \in Seq(Steps)
      /\ task \in [Steps -> TaskStates] /\ worker \in [Steps -> WorkStages]
      /\ QueueInv /\ QueueOrder /\ OrderInv /\ WorkerInv /\ AdmissionOrder
  BY DEF IInv, TypeOK
<1>a. \A i \in 1..Len(order) : order[i] \in Steps
  BY <1>0
<1>1. ASSUME NEW s \in Steps, Submitted(s)
      PROVE  AdmissionOrder'
  <2>1. /\ order' = Append(order, s) /\ worker' = worker /\ worker[s] = "none"
        /\ task' = [task EXCEPT ![s] = "queued"] /\ task[s] = "none"
    BY <1>1 DEF Submitted
  <2>2. /\ Len(order') = Len(order) + 1 /\ Len(order) \in Nat
        /\ \A i \in 1..Len(order) : order'[i] = order[i]
        /\ order'[Len(order) + 1] = s
    BY <1>0, <2>1, AppendFacts
  <2>3. \A i \in 1..Len(order) : order[i] # s
    BY <1>0, <2>1 DEF OrderInv
  <2> SUFFICES ASSUME NEW i \in 1..Len(order'), NEW j \in 1..Len(order'),
                      i < j, worker'[order'[j]] # "none"
               PROVE  task'[order'[i]] # "queued"
    BY DEF AdmissionOrder
  <2>4. j \in 1..Len(order) /\ i \in 1..Len(order)
    BY <2>1, <2>2
  <2>5. task[order[i]] # "queued"
    BY <2>1, <2>2, <2>4, <1>0 DEF AdmissionOrder
  <2> QED
    BY <2>1, <2>2, <2>3, <2>4, <2>5, <1>0, <1>a
<1>2. ASSUME NEW s \in Steps, Withdrawn(s) \/ Committed(s) \/ Discarded(s)
      PROVE  AdmissionOrder'
  <2>1. /\ order' = order /\ worker' = worker
        /\ \A t \in Steps : task'[t] = "queued" => task[t] = "queued"
    BY <1>0, <1>2 DEF Withdrawn, Committed, Discarded
  <2> QED
    BY <2>1, <1>0, <1>a DEF AdmissionOrder
<1>3. ASSUME NEW s \in Steps, Admitted(s)
      PROVE  AdmissionOrder'
  <2>1. /\ order' = order /\ queue # <<>> /\ s = queue[1]
        /\ task' = [task EXCEPT ![s] = "running"]
        /\ worker' = [worker EXCEPT ![s] = "executing"]
    BY <1>0, <1>3, TailFacts DEF Admitted
  <2>2. Len(queue) \in Nat \ {0}
    BY <1>0, <2>1, TailFacts
  <2> SUFFICES ASSUME NEW i \in 1..Len(order), NEW j \in 1..Len(order),
                      i < j, worker'[order[j]] # "none"
               PROVE  task'[order[i]] # "queued"
    BY <2>1 DEF AdmissionOrder
  <2>3. CASE order[j] # s
    <3>1. worker[order[j]] # "none"
      BY <2>1, <2>3, <1>0, <1>a
    <3>2. task[order[i]] # "queued"
      BY <3>1, <1>0 DEF AdmissionOrder
    <3> QED
      BY <2>1, <3>2, <1>0, <1>a
  <2>4. CASE order[j] = s
    <3> SUFFICES ASSUME task'[order[i]] = "queued"
                 PROVE  FALSE
      OBVIOUS
    <3>1. order[i] # s /\ task[order[i]] = "queued"
      BY <2>1, <1>0, <1>a
    <3>2. PICK n \in 1..Len(queue) : queue[n] = order[i]
      BY <3>1, <1>0, <1>a DEF QueueInv
    <3>3. 1 \in 1..Len(queue) /\ 1 < n
      BY <2>1, <2>2, <3>1, <3>2
    <3>4. j < i
      BY <2>1, <2>4, <3>2, <3>3, <1>0 DEF QueueOrder
    <3>5. Len(order) \in Nat
      BY <1>0
    <3> QED
      BY <3>4, <3>5
  <2> QED
    BY <2>3, <2>4
<1>4. ASSUME NEW s \in Steps, Ended(s) \/ Progressed(s)
      PROVE  AdmissionOrder'
  <2>1. order' = order
    BY <1>4 DEF Ended, Progressed
  <2>2. \A t \in Steps : task'[t] = "queued" => task[t] = "queued"
    BY <1>0, <1>4 DEF Ended, Progressed
  <2>3. \A t \in Steps : task[t] # "none" /\ worker'[t] # "none" => worker[t] # "none"
    BY <1>0, <1>4 DEF Ended, Progressed
  <2>4. \A i \in 1..Len(order) : task[order[i]] # "none"
    BY <1>0 DEF OrderInv
  <2> QED
    BY <2>1, <2>2, <2>3, <2>4, <1>0, <1>a DEF AdmissionOrder
<1>5. CASE Released \/ UNCHANGED <<task, worker, order, queue, active, lock, panicked>>
  BY <1>5, <1>0 DEF Released, AdmissionOrder
<1> QED
  BY <1>1, <1>2, <1>3, <1>4, <1>5, SupervisorSteps DEF SupervisorMove

-----------------------------------------------------------------------------
\* The set of running tasks grows and shrinks with active.
LEMMA SlotStep ==
    ASSUME IInv, [Next]_vars
    PROVE  SlotAccounting'
<1>0. /\ task \in [Steps -> TaskStates] /\ active \in Nat
      /\ QueueInv /\ WorkerInv /\ active = Cardinality(Running)
  BY LimitAssumption DEF IInv, TypeOK, SlotAccounting, Running
<1>1. IsFiniteSet(Running)
  BY StepsAssumption, FS_Subset DEF Running
<1>2. SUFFICES active' = Cardinality(Running')
  BY DEF SlotAccounting, Running
<1>3. ASSUME Running' = Running, active' = active
      PROVE  active' = Cardinality(Running')
  BY <1>0, <1>3
<1>4. ASSUME NEW s \in Steps, Submitted(s) \/ Withdrawn(s) \/ Committed(s) \/ Progressed(s)
      PROVE  active' = Cardinality(Running')
  <2>1. \A t \in Steps : task'[t] = "running" <=> task[t] = "running"
    BY <1>0, <1>4 DEF Submitted, Withdrawn, Committed, Progressed
  <2>2. active' = active
    BY <1>4 DEF Submitted, Withdrawn, Committed, Progressed
  <2> QED
    BY <2>1, <2>2, <1>3 DEF Running
<1>5. ASSUME NEW s \in Steps, Discarded(s)
      PROVE  active' = Cardinality(Running')
  <2>1. task[s] = "queued" /\ task' = [task EXCEPT ![s] = "finished"] /\ active' = active
    BY <1>0, <1>5 DEF Discarded, QueueInv, IInv, TypeOK
  <2>2. Running' = Running
    BY <1>0, <2>1 DEF Running
  <2> QED
    BY <2>1, <2>2, <1>3
<1>6. ASSUME NEW s \in Steps, Admitted(s)
      PROVE  active' = Cardinality(Running')
  <2>1. task[s] = "queued" /\ task' = [task EXCEPT ![s] = "running"] /\ active' = active + 1
    BY <1>0, <1>6 DEF Admitted, QueueInv, IInv, TypeOK
  <2>2. Running' = Running \cup {s} /\ s \notin Running
    BY <1>0, <2>1 DEF Running
  <2> QED
    BY <2>1, <2>2, <1>0, <1>1, FS_AddElement
<1>7. ASSUME NEW s \in Steps, Ended(s)
      PROVE  active' = Cardinality(Running')
  <2>1. task[s] = "running" /\ task' = [task EXCEPT ![s] = "finished"] /\ active' = active - 1
    BY <1>0, <1>7 DEF Ended, WorkerInv
  <2>2. Running' = Running \ {s} /\ s \in Running
    BY <1>0, <2>1 DEF Running
  <2> QED
    BY <2>1, <2>2, <1>0, <1>1, FS_RemoveElement
<1>8. CASE Released \/ UNCHANGED <<task, worker, order, queue, active, lock, panicked>>
  BY <1>8, <1>3 DEF Released, Running
<1> QED
  BY <1>4, <1>5, <1>6, <1>7, <1>8, SupervisorSteps DEF SupervisorMove

\* Who releases the mutex has admitted all the limit allows.
LEMMA WorkConservingStep ==
    ASSUME IInv, [Next]_vars
    PROVE  WorkConserving'
<1>0. /\ queue \in Seq(Steps) /\ active \in 0..Limit
      /\ lock \in {"free", "job", "worker"} /\ WorkConserving /\ QueueInv
  BY DEF IInv, TypeOK
<1>1. ASSUME NEW s \in Steps,
             Submitted(s) \/ Admitted(s) \/ Discarded(s) \/ Ended(s)
      PROVE  WorkConserving'
  BY <1>0, <1>1 DEF Submitted, Admitted, Discarded, Ended, WorkConserving
<1>2. ASSUME NEW s \in Steps, Withdrawn(s)
      PROVE  WorkConserving'
  <2>1. queue # <<>>
    BY <1>0, <1>2 DEF Withdrawn, QueueInv
  <2> QED
    BY <2>1, <1>0, <1>2 DEF Withdrawn, WorkConserving
<1>3. ASSUME NEW s \in Steps, Committed(s) \/ Progressed(s)
      PROVE  WorkConserving'
  BY <1>0, <1>3 DEF Committed, Progressed, WorkConserving
<1>4. CASE Released
  BY <1>0, <1>4, LimitAssumption DEF Released, Admissible, WorkConserving
<1>5. CASE UNCHANGED <<task, worker, order, queue, active, lock, panicked>>
  BY <1>0, <1>5 DEF WorkConserving
<1> QED
  BY <1>1, <1>2, <1>3, <1>4, <1>5, SupervisorSteps DEF SupervisorMove

\* While the last barrier is being committed, what leaves it is committed.
LEMMA DrainStep ==
    ASSUME IInv, [Next]_vars
    PROVE  DrainInv'
<1> USE ProgramLength DEF IInv, TypeOK, DrainInv
<1>1. CASE SkipStep
  BY <1>1 DEF SkipStep, Fetching, supervisorVars
<1>2. CASE RejectStep
  BY <1>2 DEF RejectStep, Fetching, supervisorVars
<1>3. CASE RunForeground
  BY <1>3 DEF RunForeground, supervisorVars
<1>4. CASE CommitForeground
  BY <1>4 DEF CommitForeground, supervisorVars
<1>5. CASE StartBackground
  BY <1>5 DEF StartBackground
<1>6. CASE BeginWait
  <2>1. phase' = "await" /\ UNCHANGED <<task, pc, program, order>>
    BY <1>6 DEF BeginWait, supervisorVars
  <2>2. pc = Len(program) + 1 => barrier' = order
    BY <1>6 DEF BeginWait, Fetching
  <2> QED
    BY <2>1, <2>2 DEF OrderInv
<1>7. CASE BeginCancel
  BY <1>7 DEF BeginCancel, Fetching
<1>8. CASE CommitNext
  <2> DEFINE s == Head(barrier)
  <2>1. /\ phase = "await" /\ barrier # <<>> /\ barrier' = Tail(barrier)
        /\ UNCHANGED <<program, pc, phase>> /\ s \in Steps
    BY <1>8 DEF CommitNext
  <2>2. \A t \in Steps : task[t] \in {"none", "committed"} => task'[t] = task[t]
    BY <1>8 DEF CommitNext, Committable
  <2>3. task'[s] \in {"none", "committed"}
    BY <1>8, <2>1 DEF CommitNext, Committable
  <2>4. ASSUME NEW i \in 1..Len(barrier), barrier[i] # s
        PROVE  \E j \in 1..Len(barrier') : barrier'[j] = barrier[i]
    <3>1. i - 1 \in 1..Len(Tail(barrier)) /\ Tail(barrier)[i - 1] = barrier[i]
      BY <2>1, <2>4
    <3> QED
      BY <2>1, <3>1
  <2>5. ASSUME pc = Len(program) + 1, NEW t \in Steps, task'[t] \notin {"none", "committed"}
        PROVE  \E i \in 1..Len(barrier') : barrier'[i] = t
    <3>1. t # s /\ task[t] \notin {"none", "committed"}
      BY <2>2, <2>3, <2>5
    <3>2. PICK i \in 1..Len(barrier) : barrier[i] = t
      BY <2>1, <2>5, <3>1
    <3> QED
      BY <2>4, <3>1, <3>2
  <2> QED
    BY <2>1, <2>5
<1>9. CASE EndBarrier
  BY <1>9 DEF EndBarrier, supervisorVars
<1>10. CASE LeaveSteps
  BY <1>10 DEF LeaveSteps, supervisorVars
<1>11. CASE Dispatch
  <2>1. task[Head(queue)] = "queued" /\ Head(queue) \in Steps
    BY <1>11 DEF Dispatch, Admissible, QueueInv
  <2>2. \A t \in Steps : task[t] \in {"none", "committed"} => task'[t] = task[t]
    BY <1>11, <2>1 DEF Dispatch
  <2> QED
    BY <1>11, <2>2 DEF Dispatch, jobVars
<1>12. CASE Unlock
  BY <1>12 DEF Unlock
<1>13. ASSUME NEW s \in Steps, Worker(s) \/ StepTimeout(s)
       PROVE  DrainInv'
  <2>1. \A t \in Steps : task[t] \in {"none", "committed"} => task'[t] = task[t]
    BY <1>13 DEF Worker, StepReturns, ClassifyBackground, FinishBackground, StepTimeout,
                 WorkerInv, supervisorVars
  <2>2. UNCHANGED <<program, pc, phase, barrier>>
    BY <1>13 DEF Worker, StepReturns, ClassifyBackground, FinishBackground, StepTimeout, jobVars
  <2> QED
    BY <2>1, <2>2
<1>14. CASE CancelJob
  BY <1>14 DEF CancelJob, jobVars, supervisorVars
<1>15. CASE UNCHANGED vars
  BY <1>15 DEF vars, jobVars, supervisorVars
<1> QED
  BY <1>1, <1>2, <1>3, <1>4, <1>5, <1>6, <1>7, <1>8, <1>9, <1>10, <1>11, <1>12,
     <1>13, <1>14, <1>15 DEF Next, RunJob, Terminated

-----------------------------------------------------------------------------
\* The strengthening holds at the start.
LEMMA InitInvariant == Init => IInv
<1> SUFFICES ASSUME Init PROVE IInv
  OBVIOUS
<1> USE DEF Init
<1>1. Len(program) \in Nat
  BY ProgramLength
<1>a. /\ task \in [Steps -> TaskStates] /\ worker \in [Steps -> WorkStages]
      /\ result \in [Steps -> Results] /\ cause \in [Steps -> Causes]
  BY DEF TaskStates, WorkStages, Results, Causes
<1>b. execution \in [Steps -> Conclusions] /\ visible \in [Steps -> Conclusions]
  BY DEF Conclusions
<1>c. /\ barrier \in Seq(Steps) /\ order \in Seq(Steps)
      /\ queue \in Seq(Steps) /\ commits \in Seq(Steps)
  OBVIOUS
<1>d. /\ program \in Programs /\ pc \in 1..(Len(program) + 1) /\ active \in 0..Limit
      /\ phase \in Phases /\ lock \in {"free", "job", "worker"}
  BY <1>1, LimitAssumption DEF Phases
<1>e. jobDone \in BOOLEAN /\ runErr \in BOOLEAN /\ panicked \in BOOLEAN
  OBVIOUS
<1>2. TypeOK
  <2> HIDE DEF Init
  <2> QED
    BY <1>a, <1>b, <1>c, <1>d, <1>e DEF TypeOK
<1>3. ControlInv /\ WorkerInv /\ ForegroundInv /\ NoPanic /\ DrainInv
  BY DEF ControlInv, WorkerInv, ForegroundInv, NoPanic, DrainInv
<1>4. FreshInv
  BY <1>1, InstructionTypes DEF FreshInv, IsRun
<1>5. QueueInv /\ OrderInv /\ QueueOrder /\ AdmissionOrder /\ WorkConserving
  BY DEF QueueInv, OrderInv, QueueOrder, AdmissionOrder, WorkConserving
<1>6. SlotAccounting
  <2>1. {s \in Steps : task[s] = "running"} = {}
    OBVIOUS
  <2> QED
    BY <2>1, FS_EmptySet DEF SlotAccounting
<1> QED
  BY <1>2, <1>3, <1>4, <1>5, <1>6 DEF IInv

\* The strengthening is inductive: no operation of any goroutine breaks it.
LEMMA InductiveStep == IInv /\ [Next]_vars => IInv'
BY TypeStep, ControlStep, FreshStep, WorkerStep, ForegroundStep, QueueStep, OrderStep,
   QueueOrderStep, AdmissionStep, SlotStep, WorkConservingStep, NoPanicStep, DrainStep DEF IInv

\* Every reachable state satisfies the strengthening.
THEOREM Invariant == Spec => []IInv
BY InitInvariant, InductiveStep, PTL DEF Spec

\* Every variable of the step phase keeps its type; in particular the number of
\* active tasks never exceeds the limit (dispatchLocked).
THEOREM TypeCorrect == Spec => []TypeOK
BY Invariant, PTL DEF IInv

\* transitionLocked never panics, whatever the order in which tasks are started,
\* cancelled, finished and committed.
THEOREM SupervisorNeverPanics == Spec => []NoPanic
BY Invariant, PTL DEF IInv

\* Each slot taken belongs to exactly one running task.
THEOREM SlotsAccountedFor == Spec => []SlotAccounting
BY Invariant, PTL DEF IInv

\* With the mutex free a task waits only when every slot is taken.
THEOREM DispatchIsWorkConserving == Spec => []WorkConserving
BY Invariant, PTL DEF IInv

\* Slots are granted in start order.
THEOREM AdmissionIsFifo == Spec => []AdmissionOrder
BY Invariant, PTL DEF IInv

\* The post actions never overlap a step: every started task has been committed
\* and no process, slot or queue entry is left (the final waitAll of runSteps).
THEOREM QuiescentAfterSteps == Spec => []Quiescent
<1>1. IInv => Quiescent
  <2> SUFFICES ASSUME IInv, phase \in {"drained", "posts"}
               PROVE  /\ active = 0 /\ queue = <<>>
                      /\ \A s \in Steps : /\ task[s] \in {"none", "committed"}
                                         /\ worker[s] \in {"none", "exited"}
    BY DEF Quiescent
  <2>1. \A s \in Steps : task[s] \in {"none", "committed"}
    BY DEF IInv, DrainInv
  <2>2. \A s \in Steps : worker[s] \in {"none", "exited"}
    BY <2>1 DEF IInv, TypeOK, WorkStages, WorkerInv, ForegroundInv
  <2>3. {s \in Steps : task[s] = "running"} = {}
    BY <2>1
  <2>4. active = 0
    BY <2>3, FS_EmptySet DEF IInv, SlotAccounting
  <2>5. queue = <<>>
    <3>1. queue \in Seq(Steps) /\ \A i \in 1..Len(queue) : queue[i] \in Steps /\ task[queue[i]] = "queued"
      BY DEF IInv, TypeOK, QueueInv
    <3>2. Len(queue) = 0
      BY <3>1, <2>1
    <3> QED
      BY <3>1, <3>2
  <2> QED
    BY <2>1, <2>2, <2>4, <2>5
<1> QED
  BY Invariant, <1>1, PTL

-----------------------------------------------------------------------------
(* The error of the job.  What makes it exact is where a task is committed:  *)
(* at the first barrier that covers it.                                      *)

\* A task was started by its step, which the program has passed.
StartedInv ==
    \A s \in Steps : task[s] # "none" =>
        \E j \in 1..Len(program) :
            IsRun(program, j) /\ program[j].id = s /\ (j < pc \/ (j = pc /\ phase = "starting"))

\* A verdict is seen when it is final, and a task that finishes has one.
VerdictInv ==
    /\ \A i \in pc..Len(program) : IsRun(program, i) => visible[program[i].id] = "none"
    /\ \A s \in Steps : Committable(s) => visible[s] = "none"
    /\ \A s \in Steps : task[s] = "finished" \/ worker[s] = "classified" =>
          execution[s] \in {"success", "failure", "cancelled"}

\* No barrier that covers a task is passed without committing it.
UncoveredInv ==
    \A s \in Steps, j \in 1..Len(program) :
        Committable(s) /\ IsRun(program, j) /\ program[j].id = s =>
            \A k \in (j + 1)..(pc - 1) : ~Covers(k, s)

\* A barrier has what it covers of the tasks that are not committed.
BarrierInv ==
    phase = "await" =>
        /\ \A i \in 1..Len(barrier) : Covers(pc, barrier[i])
        /\ \A s \in Steps : Committable(s) /\ Covers(pc, s) => \E i \in 1..Len(barrier) : barrier[i] = s

ErrorInv == IInv /\ StartedInv /\ VerdictInv /\ UncoveredInv /\ BarrierInv /\ JobErrorExact

\* A run step covers nothing.
LEMMA RunCoversNothing ==
    ASSUME NEW i \in 1..Len(program), program[i].kind = "run", NEW s
    PROVE  ~Covers(i, s)
BY DEF Covers

\* The instruction a run step or the start of a task is at.
LEMMA AtRun ==
    ASSUME IInv, Fetching("run") \/ phase \in {"foreground", "starting"}
    PROVE  /\ pc \in 1..Len(program) /\ IsRun(program, pc) /\ Instruction = program[pc]
           /\ Instruction.id \in Steps /\ Instruction.kind = "run"
<1> USE ProgramLength DEF IInv, TypeOK
<1>1. pc \in 1..Len(program) /\ Instruction.kind = "run" /\ Instruction = program[pc]
  BY DEF Fetching, ControlInv, Instruction
<1> QED
  BY <1>1, InstructionTypes DEF IsRun

\* A task becomes one when it is started, and stays committed.
LEMMA CommittableStep ==
    ASSUME IInv, [Next]_vars, NEW s \in Steps
    PROVE  /\ Committable(s)' => Committable(s) \/ (StartBackground /\ Instruction.id = s)
           /\ task[s] = "committed" => task'[s] = "committed"
           /\ task'[s] = "none" <=> task[s] = "none" /\ ~(StartBackground /\ Instruction.id = s)
<1> USE DEF IInv, TypeOK, Committable
<1>1. CASE RunForeground \/ CommitForeground \/ SkipStep \/ RejectStep \/ EndBarrier \/ LeaveSteps \/ BeginWait
  BY <1>1 DEF RunForeground, CommitForeground, SkipStep, RejectStep, EndBarrier, LeaveSteps, BeginWait,
              StartBackground, supervisorVars
<1>2. CASE StartBackground
  <2>1. task[Instruction.id] = "none" /\ Instruction.id \in Steps
    BY <1>2, AtRun, ProgramLength DEF StartBackground, Fetching, FreshInv
  <2> QED
    BY <1>2, <2>1 DEF StartBackground
<1>3. CASE BeginCancel
  BY <1>3 DEF BeginCancel, StartBackground, Fetching
<1>4. CASE CommitNext
  BY <1>4 DEF CommitNext, StartBackground, Fetching
<1>5. CASE Dispatch
  <2>1. task[Head(queue)] = "queued" /\ Head(queue) \in Steps
    BY <1>5 DEF Dispatch, Admissible, QueueInv
  <2>2. ~StartBackground
    BY <1>5 DEF Dispatch, StartBackground
  <2> QED
    BY <1>5, <2>1, <2>2 DEF Dispatch
<1>6. CASE Unlock \/ CancelJob \/ UNCHANGED vars
  <2>1. UNCHANGED task
    BY <1>6 DEF Unlock, CancelJob, vars, supervisorVars
  <2>2. StartBackground => task'[Instruction.id] = "queued" /\ task[Instruction.id] = "none"
    BY AtRun, ProgramLength DEF StartBackground, Fetching, FreshInv
  <2> QED
    BY <2>1, <2>2
<1>7. ASSUME NEW t \in Steps, Worker(t) \/ StepTimeout(t)
      PROVE  /\ Committable(s)' => Committable(s)
             /\ task[s] = "committed" => task'[s] = "committed"
             /\ task'[s] = "none" <=> task[s] = "none"
             /\ ~StartBackground
  <2>1. ~StartBackground
    BY <1>7 DEF Worker, StepReturns, ClassifyBackground, FinishBackground, StepTimeout, StartBackground, jobVars,
                supervisorVars
  <2>2. worker[t] = "classified" => task[t] = "running"
    BY DEF WorkerInv
  <2> QED
    BY <1>7, <2>1, <2>2 DEF Worker, StepReturns, ClassifyBackground, FinishBackground, StepTimeout, supervisorVars
<1> QED
  BY <1>1, <1>2, <1>3, <1>4, <1>5, <1>6, <1>7 DEF Next, RunJob, Terminated

LEMMA StartedStep ==
    ASSUME IInv, StartedInv, [Next]_vars
    PROVE  StartedInv'
<1> USE DEF IInv, TypeOK
<1>1. program' = program /\ (pc' = pc \/ pc' = pc + 1)
  BY CounterStep
<1>2. phase = "starting" /\ pc' = pc => phase' = "starting"
  BY CounterStep
<1> SUFFICES ASSUME NEW s \in Steps, task'[s] # "none"
             PROVE  \E j \in 1..Len(program) :
                       IsRun(program, j) /\ program[j].id = s /\ (j < pc' \/ (j = pc' /\ phase' = "starting"))
  BY <1>1 DEF StartedInv
<1>3. CASE StartBackground /\ Instruction.id = s
  BY <1>3, AtRun DEF StartBackground
<1>4. CASE ~(StartBackground /\ Instruction.id = s)
  <2>1. PICK j \in 1..Len(program) :
          IsRun(program, j) /\ program[j].id = s /\ (j < pc \/ (j = pc /\ phase = "starting"))
    BY <1>4, CommittableStep DEF StartedInv
  <2>2. j < pc' \/ (j = pc' /\ phase' = "starting")
    BY <2>1, <1>1, <1>2, ProgramLength
  <2> QED
    BY <2>1, <2>2
<1> QED
  BY <1>3, <1>4

\* What an instruction covers does not change.
LEMMA CoversSame ==
    ASSUME program' = program, NEW i, NEW s
    PROVE  Covers(i, s)' <=> Covers(i, s)
BY DEF Covers

LEMMA UncoveredStep ==
    ASSUME IInv, StartedInv, UncoveredInv, BarrierInv, [Next]_vars
    PROVE  UncoveredInv'
<1> USE DEF IInv, TypeOK
<1>1. program' = program /\ (pc' = pc \/ pc' = pc + 1) /\ Len(program) \in Nat
  BY CounterStep, ProgramLength
<1> SUFFICES ASSUME NEW s \in Steps, NEW j \in 1..Len(program), Committable(s)', IsRun(program, j),
                    program[j].id = s, NEW k \in (j + 1)..(pc' - 1)
             PROVE  ~Covers(k, s)
  BY <1>1, CoversSame DEF UncoveredInv
<1>2. CASE StartBackground /\ Instruction.id = s
  <2>1. pc \in 1..Len(program) /\ program[pc].kind = "run" /\ program[pc].id = s /\ pc' = pc
    BY <1>2, AtRun DEF StartBackground
  <2>2. pc = j
    BY <2>1, UniqueIds DEF IsRun
  <2> QED
    BY <2>1, <2>2
<1>3. CASE Committable(s) /\ k <= pc - 1
  BY <1>3, <1>1 DEF UncoveredInv
<1>4. CASE Committable(s) /\ ~(k <= pc - 1)
  <2>1. k = pc /\ pc' = pc + 1
    BY <1>1, <1>4
  <2>2. CASE Fetching("run") \/ phase \in {"foreground", "starting"}
    BY <2>1, <2>2, AtRun, RunCoversNothing DEF IsRun
  <2>3. CASE EndBarrier
    BY <2>1, <2>3, <1>4 DEF EndBarrier, BarrierInv
  <2>4. Fetching("run") \/ phase \in {"foreground", "starting"} \/ EndBarrier
    <3>1. ASSUME NEW t \in Steps, Worker(t) \/ StepTimeout(t)
          PROVE  pc' = pc
      BY <3>1 DEF Worker, StepReturns, ClassifyBackground, FinishBackground, StepTimeout, jobVars
    <3>2. CASE SkipStep \/ RejectStep \/ RunForeground \/ CommitForeground \/ StartBackground
      BY <3>2 DEF SkipStep, RejectStep, RunForeground, CommitForeground, StartBackground
    <3>3. BeginWait \/ BeginCancel \/ CommitNext \/ LeaveSteps => pc' = pc
      BY DEF BeginWait, BeginCancel, CommitNext, LeaveSteps
    <3>4. Dispatch \/ CancelJob \/ UNCHANGED vars => pc' = pc
      BY DEF Dispatch, CancelJob, vars, jobVars
    <3>5. Unlock /\ pc' # pc => phase = "starting"
      BY DEF Unlock, ControlInv
    <3> QED
      BY <2>1, <3>1, <3>2, <3>3, <3>4, <3>5 DEF Next, RunJob, Terminated
  <2> QED
    BY <2>2, <2>3, <2>4
<1> QED
  BY <1>2, <1>3, <1>4, CommittableStep

LEMMA BarrierStep ==
    ASSUME IInv, BarrierInv, [Next]_vars
    PROVE  BarrierInv'
<1> USE DEF IInv, TypeOK
<1>1. program' = program /\ Len(program) \in Nat
  BY CounterStep, ProgramLength
<1> SUFFICES ASSUME phase' = "await"
             PROVE  /\ \A i \in 1..Len(barrier') : Covers(pc', barrier'[i])
                    /\ \A s \in Steps : Committable(s)' /\ Covers(pc', s) =>
                         \E i \in 1..Len(barrier') : barrier'[i] = s
  BY <1>1, CoversSame DEF BarrierInv
<1>2. \A s \in Steps : Committable(s)' => Committable(s)
  <2>1. ~StartBackground
    BY DEF StartBackground
  <2> QED
    BY <2>1, CommittableStep
<1>3. CASE BeginWait
  <2>1. CASE barrier' = order /\ (pc = Len(program) + 1 \/ program[pc].kind = "wait-all") /\ pc' = pc
    <3>1. \A s : Covers(pc, s)
      BY <2>1, <1>1 DEF Covers
    <3>2. \A s \in Steps : Committable(s) => \E i \in 1..Len(order) : order[i] = s
      BY DEF OrderInv, Committable
    <3> QED
      BY <2>1, <3>1, <3>2, <1>2
  <2>2. CASE Fetching("wait") /\ barrier' = Instruction.targets /\ pc' = pc
    <3>1. pc \in 1..Len(program) /\ program[pc].kind = "wait" /\ barrier' = program[pc].targets
      BY <2>2, <1>1 DEF Fetching, Instruction
    <3>2. program[pc].targets \in Seq(Steps)
      BY <3>1, InstructionTypes
    <3>3. \A s : Covers(pc, s) <=> \E i \in 1..Len(program[pc].targets) : program[pc].targets[i] = s
      <4>1. \A s : Covers(pc, s) <=> s \in Range(program[pc].targets)
        BY <3>1 DEF Covers
      <4>2. DOMAIN program[pc].targets = 1..Len(program[pc].targets)
        BY <3>2
      <4> QED
        BY <4>1, <4>2 DEF Range
    <3> QED
      BY <2>2, <3>1, <3>3
  <2> QED
    BY <1>3, <2>1, <2>2 DEF BeginWait, Fetching, Instruction
<1>4. CASE BeginCancel
  <2>1. pc \in 1..Len(program) /\ program[pc].kind = "cancel" /\ barrier' = <<program[pc].target>> /\ pc' = pc
    BY <1>4, <1>1 DEF BeginCancel, Fetching, Instruction
  <2>2. \A s : Covers(pc, s) <=> s = program[pc].target
    BY <2>1 DEF Covers
  <2> QED
    BY <2>1, <2>2
<1>5. CASE CommitNext
  <2>0. Head(barrier) \in Steps
    BY <1>5 DEF CommitNext
  <2>s. PICK s \in Steps : s = Head(barrier)
    BY <2>0
  <2>1. /\ phase = "await" /\ barrier # <<>> /\ barrier' = Tail(barrier) /\ pc' = pc
        /\ ~Committable(s)'
    BY <1>5, <2>s DEF CommitNext, Committable
  <2>2. \A i \in 1..Len(barrier') : i + 1 \in 1..Len(barrier) /\ barrier'[i] = barrier[i + 1]
    BY <2>1
  <2>3. \A i \in 1..Len(barrier') : Covers(pc, barrier'[i])
    BY <2>1, <2>2 DEF BarrierInv
  <2>4. ASSUME NEW t \in Steps, Committable(t)', Covers(pc, t)
        PROVE  \E i \in 1..Len(barrier') : barrier'[i] = t
    <3>1. PICK i \in 1..Len(barrier) : barrier[i] = t
      BY <2>1, <2>4, <1>2 DEF BarrierInv
    <3>2. i # 1
      BY <2>1, <2>4, <2>s, <3>1
    <3>3. i - 1 \in 1..Len(barrier') /\ barrier'[i - 1] = barrier[i]
      BY <2>1, <3>1, <3>2
    <3> QED
      BY <3>1, <3>3
  <2> QED
    BY <2>1, <2>3, <2>4
<1>6. CASE UNCHANGED <<phase, pc, barrier>>
  BY <1>2, <1>6 DEF BarrierInv
<1>7. BeginWait \/ BeginCancel \/ CommitNext \/ UNCHANGED <<phase, pc, barrier>>
  <2>1. ASSUME NEW t \in Steps, Worker(t) \/ StepTimeout(t)
        PROVE  UNCHANGED <<phase, pc, barrier>>
    BY <2>1 DEF Worker, StepReturns, ClassifyBackground, FinishBackground, StepTimeout, jobVars
  <2>2. ~SkipStep /\ ~RejectStep /\ ~RunForeground /\ ~CommitForeground /\ ~StartBackground
        /\ ~EndBarrier /\ ~LeaveSteps
    BY DEF SkipStep, RejectStep, RunForeground, CommitForeground, StartBackground, EndBarrier, LeaveSteps, Fetching
  <2>3. Dispatch \/ CancelJob \/ UNCHANGED vars => UNCHANGED <<phase, pc, barrier>>
    BY DEF Dispatch, CancelJob, vars, jobVars
  <2>4. Unlock => UNCHANGED <<phase, pc, barrier>>
    BY DEF Unlock
  <2> QED
    BY <2>1, <2>2, <2>3, <2>4 DEF Next, RunJob, Terminated
<1> QED
  BY <1>3, <1>4, <1>5, <1>6, <1>7

-----------------------------------------------------------------------------
\* The steps that move a verdict or the error: one is judged that is no task,
\* a task is committed, or the phase ends; the others leave them alone.
Judged(s) ==
    /\ pc \in 1..Len(program) /\ IsRun(program, pc) /\ program[pc].id = s /\ pc' = pc + 1
    /\ task[s] = "none" /\ UNCHANGED task
    /\ phase # "posts" /\ phase' # "posts"
    /\ \E c \in {"success", "failure", "cancelled", "skipped"} :
          /\ visible' = [visible EXCEPT ![s] = c]
          /\ runErr' <=> (runErr \/ c \in {"failure", "cancelled"})

Published(s) ==
    /\ phase = "await" /\ UNCHANGED <<pc, phase>>
    /\ \E i \in 1..Len(barrier) : barrier[i] = s
    /\ task[s] = "finished" /\ task' = [task EXCEPT ![s] = "committed"]
    /\ visible' = [visible EXCEPT ![s] = execution[s]]
    /\ runErr' <=> (runErr \/ execution[s] \notin Forgiven)

Left ==
    /\ phase # "posts" /\ phase' = "posts"
    /\ UNCHANGED <<visible, task, jobDone>>
    /\ runErr' <=> (runErr \/ jobDone)

Quiet ==
    /\ UNCHANGED <<visible, runErr>>
    /\ \A s \in Steps : task'[s] = "committed" <=> task[s] = "committed"
    /\ (phase' = "posts" /\ jobDone') <=> (phase = "posts" /\ jobDone)

LEMMA VerdictMoves ==
    ASSUME IInv, [Next]_vars
    PROVE  \/ \E s \in Steps : Judged(s) \/ Published(s)
           \/ Left
           \/ Quiet
<1> USE DEF IInv, TypeOK
<1>0. Len(program) \in Nat
  BY ProgramLength
<1>1. CASE SkipStep
  <2>1. Fetching("run") /\ visible' = [visible EXCEPT ![Instruction.id] = "skipped"] /\ pc' = pc + 1
        /\ UNCHANGED <<phase, runErr, task>>
    BY <1>1 DEF SkipStep, supervisorVars
  <2>2. phase = "step" /\ task[Instruction.id] = "none"
    BY <2>1, <1>0, AtRun DEF Fetching, FreshInv
  <2>3. runErr' <=> (runErr \/ "skipped" \in {"failure", "cancelled"})
    BY <2>1
  <2> QED
    BY <2>1, <2>2, <2>3, AtRun DEF Judged
<1>2. CASE RejectStep
  <2>1. Fetching("run") /\ pc' = pc + 1 /\ UNCHANGED <<phase, task>>
    BY <1>2 DEF RejectStep, supervisorVars
  <2>2. phase = "step" /\ task[Instruction.id] = "none"
    BY <2>1, <1>0, AtRun DEF Fetching, FreshInv
  <2>3. PICK r \in {"failed", "hard"}, tolerate \in Tolerant[Instruction.id], done \in {FALSE, jobDone} :
           /\ visible' = [visible EXCEPT ![Instruction.id] = Classify(r, "none", done, tolerate)]
           /\ runErr' = (runErr \/ Classify(r, "none", done, tolerate) # "success")
    BY <1>2 DEF RejectStep
  <2> DEFINE c == Classify(r, "none", done, tolerate)
  <2>4. c \in {"success", "failure", "cancelled"}
    BY DEF Classify
  <2> HIDE DEF c
  <2>5. runErr' <=> (runErr \/ c \in {"failure", "cancelled"})
    BY <2>3, <2>4 DEF c
  <2>6. visible' = [visible EXCEPT ![Instruction.id] = c]
    BY <2>3 DEF c
  <2> QED
    BY <2>1, <2>2, <2>4, <2>5, <2>6, AtRun DEF Judged
<1>3. CASE CommitForeground
  <2>1. phase = "foreground" /\ phase' = "step" /\ pc' = pc + 1 /\ UNCHANGED task
    BY <1>3 DEF CommitForeground, supervisorVars
  <2>2. task[Instruction.id] = "none"
    BY <2>1 DEF ControlInv
  <2>3. PICK tolerate \in Tolerant[Instruction.id] :
           LET c == Classify(result[Instruction.id], cause[Instruction.id], jobDone, tolerate) IN
           /\ visible' = [visible EXCEPT ![Instruction.id] = c]
           /\ runErr' = (runErr \/ c # "success")
    BY <1>3 DEF CommitForeground
  <2> DEFINE c == Classify(result[Instruction.id], cause[Instruction.id], jobDone, tolerate)
  <2>4. c \in {"success", "failure", "cancelled"}
    BY DEF Classify
  <2>5. visible' = [visible EXCEPT ![Instruction.id] = c] /\ runErr' = (runErr \/ c # "success")
    BY <2>3
  <2> HIDE DEF c
  <2>6. runErr' <=> (runErr \/ c \in {"failure", "cancelled"})
    BY <2>4, <2>5
  <2> QED
    BY <2>1, <2>2, <2>4, <2>5, <2>6, AtRun DEF Judged
<1>4. CASE CommitNext
  <2> DEFINE s == Head(barrier)
  <2>1. phase = "await" /\ UNCHANGED <<pc, phase, jobDone>> /\ s \in Steps /\ barrier # <<>>
        /\ 1 \in 1..Len(barrier) /\ barrier[1] = s /\ ~Blocks(s)
    BY <1>4 DEF CommitNext
  <2>2. CASE Committable(s)
    <3>1. task[s] = "finished"
      BY <2>1, <2>2 DEF Committable, Blocks, TaskStates
    <3>2. task' = [task EXCEPT ![s] = "committed"] /\ visible' = [visible EXCEPT ![s] = execution[s]]
          /\ runErr' = (runErr \/ execution[s] \notin Forgiven)
      BY <1>4, <2>2 DEF CommitNext
    <3>3. runErr' <=> (runErr \/ execution[s] \notin Forgiven)
      BY <3>2
    <3> QED
      BY <2>1, <3>1, <3>2, <3>3 DEF Published
  <2>3. CASE ~Committable(s)
    BY <1>4, <2>1, <2>3 DEF CommitNext, Quiet
  <2> QED
    BY <2>2, <2>3
<1>5. CASE LeaveSteps
  BY <1>5 DEF LeaveSteps, Left, supervisorVars
<1>6. CASE RunForeground \/ StartBackground
  <2>1. UNCHANGED <<visible, runErr, jobDone>> /\ phase # "posts" /\ phase' # "posts"
    BY <1>6 DEF RunForeground, StartBackground, Fetching
  <2>2. \A s \in Steps : task'[s] = "committed" <=> task[s] = "committed"
    <3>1. StartBackground => task[Instruction.id] = "none"
      BY <1>0, AtRun DEF StartBackground, Fetching, FreshInv
    <3> QED
      BY <1>6, <3>1 DEF RunForeground, StartBackground, supervisorVars
  <2> QED
    BY <2>1, <2>2 DEF Quiet
<1>7. CASE BeginWait \/ EndBarrier
  BY <1>7 DEF BeginWait, EndBarrier, Fetching, Quiet, supervisorVars
<1>8. CASE BeginCancel
  BY <1>8 DEF BeginCancel, Quiet, Fetching
<1>9. CASE Dispatch
  <2>1. task[Head(queue)] = "queued" /\ Head(queue) \in Steps
    BY <1>9 DEF Dispatch, Admissible, QueueInv
  <2> QED
    BY <1>9, <2>1 DEF Dispatch, Quiet, jobVars
<1>10. CASE Unlock
  BY <1>10 DEF Unlock, Quiet, ControlInv
<1>11. ASSUME NEW s \in Steps, Worker(s) \/ StepTimeout(s)
       PROVE  Quiet
  <2>1. worker[s] = "classified" => task[s] = "running"
    BY DEF WorkerInv
  <2> QED
    BY <1>11, <2>1 DEF Worker, StepReturns, ClassifyBackground, FinishBackground, StepTimeout, jobVars,
                       supervisorVars, Quiet
<1>12. CASE CancelJob
  BY <1>12 DEF CancelJob, jobVars, supervisorVars, Quiet
<1>13. CASE UNCHANGED vars
  BY <1>13 DEF vars, jobVars, supervisorVars, Quiet
<1> QED
  BY <1>1, <1>2, <1>3, <1>4, <1>5, <1>6, <1>7, <1>8, <1>9, <1>10, <1>11, <1>12, <1>13 DEF Next, RunJob, Terminated

\* A task that is finished or classified has a conclusion.
LEMMA ExecutionStep ==
    ASSUME IInv, VerdictInv, [Next]_vars, NEW s \in Steps,
           task'[s] = "finished" \/ worker'[s] = "classified"
    PROVE  execution'[s] \in {"success", "failure", "cancelled"}
<1> USE DEF IInv, TypeOK, VerdictInv
<1>1. CASE SkipStep \/ RunForeground \/ BeginWait \/ EndBarrier \/ LeaveSteps \/ Unlock \/ CancelJob \/ UNCHANGED vars
  BY <1>1 DEF SkipStep, RunForeground, BeginWait, EndBarrier, LeaveSteps, Unlock, CancelJob, vars, jobVars,
              supervisorVars, workerVars
<1>2. CASE RejectStep
  <2>1. Instruction.id \in Steps /\ UNCHANGED <<task, worker>>
    BY <1>2, AtRun DEF RejectStep, supervisorVars
  <2>2. execution'[Instruction.id] \in {"success", "failure", "cancelled"}
    BY <1>2, <2>1 DEF RejectStep, Classify
  <2>3. s # Instruction.id => execution'[s] = execution[s]
    BY <1>2, <2>1 DEF RejectStep
  <2> QED
    BY <2>1, <2>2, <2>3
<1>3. CASE CommitForeground
  <2>1. Instruction.id \in Steps /\ UNCHANGED task
    BY <1>3, AtRun DEF CommitForeground, supervisorVars
  <2>2. execution'[Instruction.id] \in {"success", "failure", "cancelled"}
    BY <1>3, <2>1 DEF CommitForeground, Classify
  <2>3. s # Instruction.id => execution'[s] = execution[s] /\ worker'[s] = worker[s]
    BY <1>3, <2>1 DEF CommitForeground
  <2> QED
    BY <2>1, <2>2, <2>3
<1>4. CASE StartBackground
  BY <1>4 DEF StartBackground
<1>5. CASE BeginCancel
  BY <1>5 DEF BeginCancel
<1>6. CASE CommitNext
  BY <1>6 DEF CommitNext, workerVars
<1>7. CASE Dispatch
  <2>1. Head(queue) \in Steps
    BY <1>7 DEF Dispatch, Admissible
  <2>2. worker[Head(queue)] = "none"
    BY <1>7, <2>1 DEF Dispatch, Admissible, QueueInv, WorkerInv
  <2> QED
    BY <1>7, <2>1, <2>2 DEF Dispatch
<1>8. ASSUME NEW t \in Steps, StepReturns(t) \/ FinishBackground(t) \/ StepTimeout(t)
      PROVE  execution'[s] \in {"success", "failure", "cancelled"}
  BY <1>8 DEF StepReturns, FinishBackground, StepTimeout, supervisorVars
<1>9. ASSUME NEW t \in Steps, ClassifyBackground(t)
      PROVE  execution'[s] \in {"success", "failure", "cancelled"}
  <2>1. execution'[t] \in {"success", "failure", "cancelled"}
    BY <1>9 DEF ClassifyBackground, Classify
  <2>2. s # t => execution'[s] = execution[s] /\ worker'[s] = worker[s] /\ task'[s] = task[s]
    BY <1>9 DEF ClassifyBackground, supervisorVars
  <2> QED
    BY <2>1, <2>2
<1> QED
  BY <1>1, <1>2, <1>3, <1>4, <1>5, <1>6, <1>7, <1>8, <1>9 DEF Next, RunJob, Terminated, Worker

LEMMA VerdictStep ==
    ASSUME IInv, VerdictInv, [Next]_vars
    PROVE  VerdictInv'
<1> USE DEF IInv, TypeOK
<1>0. program' = program /\ (pc' = pc \/ pc' = pc + 1) /\ Len(program) \in Nat
  BY CounterStep, ProgramLength
<1>1. ASSUME NEW i \in pc'..Len(program), IsRun(program, i)
      PROVE  visible'[program[i].id] = "none"
  <2> DEFINE t == program[i].id
  <2>1. i \in 1..Len(program) /\ i \in pc..Len(program) /\ program[i].kind = "run" /\ t \in Steps
    BY <1>0, <1>1, InstructionTypes DEF IsRun
  <2>2. visible[t] = "none"
    BY <1>1, <2>1 DEF VerdictInv
  <2>3. ASSUME NEW s \in Steps, Judged(s) PROVE visible'[t] = "none"
    <3>1. t # s
      BY <1>1, <2>1, <2>3, UniqueIds DEF Judged, IsRun
    <3> QED
      BY <2>2, <2>3, <3>1 DEF Judged
  <2>4. ASSUME NEW s \in Steps, Published(s) PROVE visible'[t] = "none"
    <3>1. t # s
      BY <1>1, <2>1, <2>4 DEF Published, FreshInv
    <3> QED
      BY <2>2, <2>4, <3>1 DEF Published
  <2> QED
    BY <2>2, <2>3, <2>4, VerdictMoves DEF Left, Quiet
<1>2. ASSUME NEW t \in Steps, Committable(t)'
      PROVE  visible'[t] = "none"
  <2>1. CASE StartBackground /\ Instruction.id = t
    <3>1. IsRun(program, pc) /\ program[pc].id = t /\ pc \in pc..Len(program)
      BY <1>0, <2>1, AtRun DEF StartBackground
    <3> QED
      BY <2>1, <3>1 DEF StartBackground, VerdictInv
  <2>2. CASE Committable(t)
    <3>1. visible[t] = "none"
      BY <2>2 DEF VerdictInv
    <3>2. ASSUME NEW s \in Steps, Judged(s) PROVE visible'[t] = "none"
      BY <2>2, <3>1, <3>2 DEF Judged, Committable
    <3>3. ASSUME NEW s \in Steps, Published(s) PROVE visible'[t] = "none"
      BY <1>2, <3>1, <3>3 DEF Published, Committable
    <3> QED
      BY <3>1, <3>2, <3>3, VerdictMoves DEF Left, Quiet
  <2> QED
    BY <1>2, <2>1, <2>2, CommittableStep
<1>3. \A s \in Steps : task'[s] = "finished" \/ worker'[s] = "classified" =>
         execution'[s] \in {"success", "failure", "cancelled"}
  BY ExecutionStep
<1> QED
  BY <1>0, <1>1, <1>2, <1>3 DEF VerdictInv, IsRun

-----------------------------------------------------------------------------
\* A cancel step is the first barrier after instruction j that covers s.
FirstCancel(j, s) ==
    \E i \in (j + 1)..Len(program) :
        /\ program[i].kind = "cancel"
        /\ Covers(i, s)
        /\ \A k \in (j + 1)..(i - 1) : ~Covers(k, s)

LEMMA FirstCancelSame ==
    ASSUME program' = program, NEW j, NEW s
    PROVE  FirstCancel(j, s)' <=> FirstCancel(j, s)
BY DEF FirstCancel, Covers

\* No two instructions run a step, so the one that starts it is the one found.
LEMMA StartIs ==
    ASSUME program \in Programs, NEW j \in 1..Len(program), IsRun(program, j)
    PROVE  StartOf(program[j].id) = j
<1> DEFINE start == StartOf(program[j].id)
<1>1. start \in 1..Len(program) /\ IsRun(program, start) /\ program[start].id = program[j].id
  BY DEF StartOf
<1> QED
  BY <1>1, UniqueIds DEF IsRun

\* What it means that the cancellation of s is forgiven, by the instruction
\* that starts s; now, and after a step.
LEMMA ForgivenMeaning ==
    ASSUME program \in Programs, NEW j \in 1..Len(program), IsRun(program, j)
    PROVE  LET s == program[j].id IN
           ForgivenCancel(s) <=> task[s] = "committed" /\ visible[s] = "cancelled" /\ FirstCancel(j, s)
BY StartIs, ProgramLength DEF ForgivenCancel, FirstCovers, FirstCancel

LEMMA ForgivenNext ==
    ASSUME program \in Programs, program' = program, NEW j \in 1..Len(program), IsRun(program, j)
    PROVE  LET s == program[j].id IN
           ForgivenCancel(s)' <=> task'[s] = "committed" /\ visible'[s] = "cancelled" /\ FirstCancel(j, s)
<1> DEFINE s == program[j].id
<1>1. StartOf(s) = j /\ StartOf(s)' = StartOf(s)
  BY StartIs DEF StartOf
<1>2. FirstCancel(j, s) <=> \E i \in 1..Len(program) : program[i].kind = "cancel" /\ FirstCovers(i, s)
  BY <1>1, ProgramLength DEF FirstCovers, FirstCancel
<1>3. \A i : FirstCovers(i, s)' <=> FirstCovers(i, s)
  BY <1>1 DEF FirstCovers, Covers
<1> QED
  BY <1>2, <1>3 DEF ForgivenCancel

\* s counts against the job.
Counts(s) == visible[s] = "failure" \/ (visible[s] = "cancelled" /\ ~ForgivenCancel(s))

LEMMA CountsSame ==
    ASSUME IInv, StartedInv, program' = program, NEW s \in Steps,
           task'[s] = "committed" <=> task[s] = "committed", visible'[s] = visible[s]
    PROVE  Counts(s)' <=> Counts(s)
<1>1. CASE task[s] = "committed"
  <2>1. PICK j \in 1..Len(program) : IsRun(program, j) /\ program[j].id = s
    BY <1>1 DEF StartedInv
  <2>2. ForgivenCancel(s)' <=> ForgivenCancel(s)
    BY <2>1, ForgivenMeaning, ForgivenNext DEF IInv, TypeOK
  <2> QED
    BY <2>2 DEF Counts
<1>2. CASE task[s] # "committed"
  BY <1>2 DEF Counts, ForgivenCancel
<1> QED
  BY <1>1, <1>2

\* A task that is committed counts unless its conclusion is forgiven there.
LEMMA PublishedCounts ==
    ASSUME IInv, StartedInv, VerdictInv, UncoveredInv, BarrierInv, program' = program,
           NEW s \in Steps, Published(s)
    PROVE  Counts(s)' <=> execution[s] \notin Forgiven
<1> USE DEF IInv, TypeOK
<1>0. Len(program) \in Nat
  BY ProgramLength
<1>1. visible'[s] = execution[s] /\ task'[s] = "committed" /\ Committable(s) /\ phase = "await"
  BY DEF Published, Committable
<1>2. execution[s] \in {"success", "failure", "cancelled"}
  BY DEF Published, VerdictInv
<1>3. PICK j \in 1..Len(program) : IsRun(program, j) /\ program[j].id = s /\ j < pc
  BY <1>1 DEF StartedInv, Published
<1>4. Covers(pc, s)
  BY DEF BarrierInv, Published
<1>5. \A k \in (j + 1)..(pc - 1) : ~Covers(k, s)
  BY <1>1, <1>3 DEF UncoveredInv
<1>6. ForgivenCancel(s)' <=> execution[s] = "cancelled" /\ FirstCancel(j, s)
  BY <1>1, <1>3, ForgivenNext
<1>7. CASE pc <= Len(program) /\ program[pc].kind = "cancel"
  <2>1. FirstCancel(j, s)
    <3>1. pc \in (j + 1)..Len(program)
      BY <1>0, <1>3, <1>7
    <3> QED
      BY <3>1, <1>4, <1>5, <1>7 DEF FirstCancel
  <2>2. Forgiven = {"success", "cancelled"}
    BY <1>7 DEF Forgiven, Instruction
  <2> QED
    BY <1>1, <1>2, <1>6, <2>1, <2>2 DEF Counts
<1>8. CASE ~(pc <= Len(program) /\ program[pc].kind = "cancel")
  <2>1. ~FirstCancel(j, s)
    <3> SUFFICES ASSUME NEW i \in (j + 1)..Len(program), program[i].kind = "cancel", Covers(i, s),
                        \A k \in (j + 1)..(i - 1) : ~Covers(k, s)
                 PROVE  FALSE
      BY DEF FirstCancel
    <3>1. CASE i < pc
      BY <1>0, <1>5, <3>1
    <3>2. CASE i = pc
      BY <1>8, <3>2
    <3>3. CASE i > pc
      <4>1. pc \in (j + 1)..(i - 1)
        BY <1>0, <1>3, <3>3
      <4> QED
        BY <4>1, <1>4
    <3> QED
      BY <1>0, <3>1, <3>2, <3>3
  <2>2. Forgiven = {"success"}
    BY <1>8 DEF Forgiven, Instruction
  <2> QED
    BY <1>1, <1>2, <1>6, <2>1, <2>2 DEF Counts
<1> QED
  BY <1>7, <1>8

\* The error as an equivalence.
LEMMA ErrorMeaning ==
    ASSUME runErr \in BOOLEAN
    PROVE  JobErrorExact <=> (runErr <=> (phase = "posts" /\ jobDone) \/ \E s \in Steps : Counts(s))
BY DEF JobErrorExact, Counts

LEMMA ErrorNext ==
    ASSUME runErr' \in BOOLEAN, runErr' <=> (phase' = "posts" /\ jobDone') \/ \E s \in Steps : Counts(s)'
    PROVE  JobErrorExact'
BY DEF JobErrorExact, Counts

LEMMA ErrorStep ==
    ASSUME ErrorInv, [Next]_vars
    PROVE  JobErrorExact'
<1> USE DEF ErrorInv
<1>0. program' = program /\ runErr \in BOOLEAN /\ runErr' \in BOOLEAN /\ visible \in [Steps -> Conclusions]
      /\ task \in [Steps -> TaskStates]
  BY CounterStep, TypeStep DEF IInv, TypeOK
<1>1. runErr <=> (phase = "posts" /\ jobDone) \/ \E s \in Steps : Counts(s)
  BY <1>0, ErrorMeaning
<1>2. ASSUME NEW s \in Steps, Judged(s)
      PROVE  runErr' <=> (phase' = "posts" /\ jobDone') \/ \E t \in Steps : Counts(t)'
  <2>1. PICK c \in {"success", "failure", "cancelled", "skipped"} :
          /\ visible' = [visible EXCEPT ![s] = c]
          /\ runErr' <=> (runErr \/ c \in {"failure", "cancelled"})
    BY <1>2 DEF Judged
  <2>2. \A t \in Steps \ {s} : Counts(t)' <=> Counts(t)
    <3> SUFFICES ASSUME NEW t \in Steps \ {s} PROVE Counts(t)' <=> Counts(t)
      OBVIOUS
    <3>1. visible'[t] = visible[t] /\ task'[t] = task[t]
      BY <1>0, <1>2, <2>1 DEF Judged
    <3> QED
      BY <1>0, <3>1, CountsSame
  <2>3. visible[s] = "none" /\ visible'[s] = c /\ task'[s] = "none"
    <3>1. pc \in pc..Len(program) /\ IsRun(program, pc) /\ program[pc].id = s
      BY <1>2 DEF Judged
    <3>2. visible[s] = "none"
      BY <3>1 DEF VerdictInv
    <3> QED
      BY <1>0, <1>2, <2>1, <3>2 DEF Judged
  <2>4. ~Counts(s) /\ (Counts(s)' <=> c \in {"failure", "cancelled"})
    BY <2>3 DEF Counts, ForgivenCancel
  <2>5. phase # "posts" /\ phase' # "posts"
    BY <1>2 DEF Judged
  <2>6. (\E t \in Steps : Counts(t)') <=> (\E t \in Steps : Counts(t)) \/ c \in {"failure", "cancelled"}
    BY <2>2, <2>4
  <2> QED
    BY <1>1, <2>1, <2>5, <2>6
<1>3. ASSUME NEW s \in Steps, Published(s)
      PROVE  runErr' <=> (phase' = "posts" /\ jobDone') \/ \E t \in Steps : Counts(t)'
  <2>1. \A t \in Steps \ {s} : Counts(t)' <=> Counts(t)
    <3> SUFFICES ASSUME NEW t \in Steps \ {s} PROVE Counts(t)' <=> Counts(t)
      OBVIOUS
    <3>1. visible'[t] = visible[t] /\ task'[t] = task[t]
      BY <1>0, <1>3 DEF Published
    <3> QED
      BY <1>0, <3>1, CountsSame
  <2>2. ~Counts(s)
    BY <1>3 DEF Published, VerdictInv, Committable, Counts
  <2>3. Counts(s)' <=> execution[s] \notin Forgiven
    BY <1>0, <1>3, PublishedCounts
  <2>4. phase # "posts" /\ phase' # "posts" /\ (runErr' <=> (runErr \/ execution[s] \notin Forgiven))
    BY <1>3 DEF Published
  <2>5. (\E t \in Steps : Counts(t)') <=> (\E t \in Steps : Counts(t)) \/ execution[s] \notin Forgiven
    BY <2>1, <2>2, <2>3
  <2> QED
    BY <1>1, <2>4, <2>5
<1>4. ASSUME Left
      PROVE  runErr' <=> (phase' = "posts" /\ jobDone') \/ \E t \in Steps : Counts(t)'
  <2>1. \A t \in Steps : Counts(t)' <=> Counts(t)
    BY <1>0, <1>4, CountsSame DEF Left
  <2>2. phase # "posts" /\ phase' = "posts" /\ (jobDone' <=> jobDone) /\ (runErr' <=> (runErr \/ jobDone))
    BY <1>4 DEF Left
  <2>3. (\E t \in Steps : Counts(t)') <=> (\E t \in Steps : Counts(t))
    BY <2>1
  <2> QED
    BY <1>1, <2>2, <2>3
<1>5. ASSUME Quiet
      PROVE  runErr' <=> (phase' = "posts" /\ jobDone') \/ \E t \in Steps : Counts(t)'
  <2>1. \A t \in Steps : Counts(t)' <=> Counts(t)
    BY <1>0, <1>5, CountsSame DEF Quiet
  <2>2. (runErr' <=> runErr) /\ ((phase' = "posts" /\ jobDone') <=> (phase = "posts" /\ jobDone))
    BY <1>5 DEF Quiet
  <2>3. (\E t \in Steps : Counts(t)') <=> (\E t \in Steps : Counts(t))
    BY <2>1
  <2> QED
    BY <1>1, <2>2, <2>3
<1>6. IInv
  OBVIOUS
<1> QED
  BY <1>0, <1>2, <1>3, <1>4, <1>5, <1>6, VerdictMoves, ErrorNext

LEMMA InitError == Init => ErrorInv
<1> SUFFICES ASSUME Init PROVE ErrorInv
  OBVIOUS
<1>1. IInv
  BY InitInvariant
<1>2. StartedInv /\ UncoveredInv /\ BarrierInv
  BY DEF Init, StartedInv, UncoveredInv, BarrierInv, Committable
<1>3. VerdictInv
  BY <1>1, InstructionTypes DEF Init, VerdictInv, Committable, IsRun
<1>4. JobErrorExact
  BY DEF Init, JobErrorExact
<1> QED
  BY <1>1, <1>2, <1>3, <1>4 DEF ErrorInv

LEMMA ErrorInductive == ErrorInv /\ [Next]_vars => ErrorInv'
BY InductiveStep, StartedStep, VerdictStep, UncoveredStep, BarrierStep, ErrorStep DEF ErrorInv

\* No failure is lost between barriers and no tolerated one counts: the job has
\* an error exactly for what its steps' visible verdicts say and for its own
\* cancellation (runSteps, commitStepExecution).
THEOREM JobErrorIsExact == Spec => []JobErrorExact
<1>1. Spec => []ErrorInv
  BY InitError, ErrorInductive, PTL DEF Spec
<1> QED
  BY <1>1, PTL DEF ErrorInv

-----------------------------------------------------------------------------
(* The order of the effects.  Every merge is of a step that belongs where    *)
(* the program is, and comes after all that were merged before.              *)

\* Tasks are started in the order of the program.
StartOrder ==
    \A m, n \in 1..Len(order) : m < n => StartOf(order[m]) < StartOf(order[n])

Merging == phase \in {"await", "drained", "posts"}
Past(i) == i < pc \/ (i = pc /\ Merging)

Merged(s) == \E m \in 1..Len(commits) : commits[m] = s

\* What is merged, and where it belongs.
MergedInv ==
    /\ \A s \in Steps : Merged(s) <=> task[s] = "committed" \/ (task[s] = "none" /\ visible[s] \notin {"none", "skipped"})
    /\ \A m \in 1..Len(commits) :
          \E i \in 1..(Len(program) + 1) : MergedAt(i, commits[m]) /\ Past(i)

SortedInv == \A m, n \in 1..Len(commits) : m < n => Precedes(commits[m], commits[n])

\* What a barrier has left comes after what it has merged, in its order.
RestInv ==
    phase = "await" =>
        /\ \A k, l \in 1..Len(barrier) : k < l => MergedFirst(pc, barrier[k], barrier[l])
        /\ \A m \in 1..Len(commits), k \in 1..Len(barrier) :
              MergedAt(pc, commits[m]) /\ Committable(barrier[k]) => MergedFirst(pc, commits[m], barrier[k])

MergeInv == ErrorInv /\ StartOrder /\ MergedInv /\ SortedInv /\ RestInv

\* A step that merges nothing changes nothing that was merged.
LEMMA MergedSame ==
    ASSUME program' = program, NEW i, NEW s, task'[s] = "none" <=> task[s] = "none"
    PROVE  MergedAt(i, s)' <=> MergedAt(i, s)
BY DEF MergedAt, FirstCovers, Covers, StartOf

LEMMA FirstSame ==
    ASSUME program' = program, NEW i, NEW s, NEW t
    PROVE  /\ MergedFirst(i, s, t)' <=> MergedFirst(i, s, t)
           /\ StartOf(s)' = StartOf(s)
BY DEF MergedFirst, StartOf

\* Effects that are merged stay where they belong.
LEMMA MergedStays ==
    ASSUME ErrorInv, [Next]_vars, NEW s \in Steps,
           task[s] = "committed" \/ (task[s] = "none" /\ visible[s] # "none")
    PROVE  /\ task'[s] = "none" <=> task[s] = "none"
           /\ task[s] = "committed" => task'[s] = "committed"
           /\ \A i : MergedAt(i, s)' <=> MergedAt(i, s)
<1> USE DEF ErrorInv, IInv, TypeOK
<1>1. program' = program /\ Len(program) \in Nat
  BY CounterStep, ProgramLength
<1>2. ~(StartBackground /\ Instruction.id = s)
  <2> SUFFICES ASSUME StartBackground, Instruction.id = s PROVE FALSE
    OBVIOUS
  <2>1. Fetching("run") /\ phase = "step"
    BY DEF StartBackground, Fetching
  <2>2. pc \in pc..Len(program) /\ IsRun(program, pc) /\ Instruction = program[pc]
    BY <1>1, <2>1, AtRun
  <2>3. visible[s] = "none"
    BY <2>2 DEF VerdictInv
  <2>4. task[s] = "none"
    BY <2>1, <2>2 DEF FreshInv
  <2> QED
    BY <2>3, <2>4
<1>3. /\ task'[s] = "none" <=> task[s] = "none"
      /\ task[s] = "committed" => task'[s] = "committed"
  BY <1>2, CommittableStep
<1> QED
  BY <1>1, <1>3, MergedSame

\* What the instruction that is passed, or the barrier, belongs to is past.
LEMMA PastStays ==
    ASSUME IInv, [Next]_vars, NEW i \in 1..(Len(program) + 1), Past(i)
    PROVE  Past(i)'
<1> USE DEF IInv, TypeOK
<1>1. Len(program) \in Nat /\ pc \in Nat /\ i \in Nat
  BY ProgramLength
<1>2. (pc' = pc /\ (Merging => Merging')) \/ pc' = pc + 1
  <2>1. CASE SkipStep \/ RejectStep \/ CommitForeground \/ EndBarrier
    BY <2>1 DEF SkipStep, RejectStep, CommitForeground, EndBarrier, Merging
  <2>2. CASE RunForeground \/ StartBackground \/ BeginWait \/ BeginCancel
    BY <2>2 DEF RunForeground, StartBackground, BeginWait, BeginCancel, Fetching, Merging
  <2>3. CASE CommitNext \/ LeaveSteps \/ Dispatch \/ CancelJob \/ UNCHANGED vars
    BY <2>3 DEF CommitNext, LeaveSteps, Dispatch, CancelJob, vars, jobVars, Merging
  <2>4. CASE Unlock
    BY <2>4 DEF Unlock, ControlInv, Merging
  <2>5. ASSUME NEW t \in Steps, Worker(t) \/ StepTimeout(t)
        PROVE  UNCHANGED <<pc, phase>>
    BY <2>5 DEF Worker, StepReturns, ClassifyBackground, FinishBackground, StepTimeout, jobVars
  <2> QED
    BY <2>1, <2>2, <2>3, <2>4, <2>5 DEF Next, RunJob, Terminated, Merging
<1> QED
  BY <1>1, <1>2 DEF Past

-----------------------------------------------------------------------------
\* The moves: a step that is no task is merged where it runs, or skipped; the
\* head of a barrier is merged; or nothing is.
Placed(s) ==
    /\ pc \in 1..Len(program) /\ IsRun(program, pc) /\ program[pc].id = s
    /\ ~Merging /\ pc' = pc + 1 /\ phase' = "step"
    /\ task[s] = "none" /\ UNCHANGED task
    /\ visible[s] = "none" /\ visible' = [visible EXCEPT ![s] = visible'[s]]
    /\ visible'[s] \in {"success", "failure", "cancelled"}
    /\ commits' = Append(commits, s)

Skipped(s) ==
    /\ task[s] = "none" /\ UNCHANGED <<task, commits>>
    /\ visible[s] = "none" /\ visible' = [visible EXCEPT ![s] = "skipped"]

Drawn(s) ==
    /\ phase = "await" /\ UNCHANGED <<pc, phase>>
    /\ barrier # <<>> /\ s = Head(barrier)
    /\ task[s] = "finished" /\ task' = [task EXCEPT ![s] = "committed"]
    /\ visible' = [visible EXCEPT ![s] = visible'[s]]
    /\ commits' = Append(commits, s)

Unmerged ==
    /\ UNCHANGED <<commits, visible>>
    /\ \A s \in Steps : task'[s] = "committed" <=> task[s] = "committed"
    /\ \A s \in Steps : task'[s] = "none" => task[s] = "none"

LEMMA MergeMoves ==
    ASSUME ErrorInv, [Next]_vars
    PROVE  \/ \E s \in Steps : Placed(s) \/ Skipped(s) \/ Drawn(s)
           \/ Unmerged
<1> USE DEF ErrorInv, IInv, TypeOK
<1>0. Len(program) \in Nat
  BY ProgramLength
<1>r. ASSUME Fetching("run") \/ phase = "foreground"
      PROVE  /\ Instruction.id \in Steps /\ Instruction = program[pc]
             /\ pc \in 1..Len(program) /\ IsRun(program, pc)
             /\ visible[Instruction.id] = "none" /\ task[Instruction.id] = "none"
             /\ ~Merging
  <2>1. pc \in 1..Len(program) /\ IsRun(program, pc) /\ Instruction = program[pc] /\ Instruction.id \in Steps
    BY <1>r, AtRun
  <2>2. pc \in pc..Len(program)
    BY <1>0, <2>1
  <2>3. visible[Instruction.id] = "none"
    BY <2>1, <2>2 DEF VerdictInv
  <2>4. task[Instruction.id] = "none"
    BY <1>r, <2>1, <2>2 DEF FreshInv, ControlInv, Fetching
  <2> QED
    BY <1>r, <2>1, <2>3, <2>4 DEF Merging, Fetching
<1>1. CASE SkipStep
  <2>1. Fetching("run") /\ visible' = [visible EXCEPT ![Instruction.id] = "skipped"] /\ UNCHANGED <<task, commits>>
    BY <1>1 DEF SkipStep, supervisorVars
  <2> QED
    BY <2>1, <1>r DEF Skipped
<1>2. CASE RejectStep
  <2>1. Fetching("run") /\ pc' = pc + 1 /\ UNCHANGED <<phase, task>> /\ commits' = Append(commits, Instruction.id)
    BY <1>2 DEF RejectStep, supervisorVars
  <2>2. PICK r \in {"failed", "hard"}, tolerate \in Tolerant[Instruction.id], done \in {FALSE, jobDone} :
           visible' = [visible EXCEPT ![Instruction.id] = Classify(r, "none", done, tolerate)]
    BY <1>2 DEF RejectStep
  <2>3. Classify(r, "none", done, tolerate) \in {"success", "failure", "cancelled"}
    BY DEF Classify
  <2>4. /\ visible' = [visible EXCEPT ![Instruction.id] = visible'[Instruction.id]]
        /\ visible'[Instruction.id] \in {"success", "failure", "cancelled"}
    BY <2>1, <2>2, <2>3, <1>r
  <2>5. phase' = "step"
    BY <2>1 DEF Fetching
  <2> QED
    BY <2>1, <2>4, <2>5, <1>r DEF Placed
<1>3. CASE CommitForeground
  <2>1. /\ phase = "foreground" /\ phase' = "step" /\ pc' = pc + 1 /\ UNCHANGED task
        /\ commits' = Append(commits, Instruction.id)
    BY <1>3 DEF CommitForeground, supervisorVars
  <2>2. PICK tolerate \in Tolerant[Instruction.id] :
           visible' = [visible EXCEPT ![Instruction.id] = Classify(result[Instruction.id], cause[Instruction.id], jobDone, tolerate)]
    BY <1>3 DEF CommitForeground
  <2>3. Classify(result[Instruction.id], cause[Instruction.id], jobDone, tolerate) \in {"success", "failure", "cancelled"}
    BY DEF Classify
  <2>4. /\ visible' = [visible EXCEPT ![Instruction.id] = visible'[Instruction.id]]
        /\ visible'[Instruction.id] \in {"success", "failure", "cancelled"}
    BY <2>1, <2>2, <2>3, <1>r
  <2> QED
    BY <2>1, <2>4, <1>r DEF Placed
<1>4. CASE CommitNext
  <2> DEFINE s == Head(barrier)
  <2>1. phase = "await" /\ UNCHANGED <<pc, phase>> /\ barrier # <<>> /\ s \in Steps
        /\ 1 \in 1..Len(barrier) /\ barrier[1] = s /\ ~Blocks(s)
    BY <1>4 DEF CommitNext
  <2>2. CASE Committable(s)
    <3>1. task[s] = "finished"
      BY <2>1, <2>2 DEF Committable, Blocks, TaskStates
    <3>2. task' = [task EXCEPT ![s] = "committed"] /\ visible' = [visible EXCEPT ![s] = execution[s]]
          /\ commits' = Append(commits, s)
      BY <1>4, <2>2 DEF CommitNext
    <3> QED
      BY <2>1, <3>1, <3>2 DEF Drawn
  <2>3. CASE ~Committable(s)
    BY <1>4, <2>1, <2>3 DEF CommitNext, Unmerged
  <2> QED
    BY <2>2, <2>3
<1>5. CASE Next /\ ~SkipStep /\ ~RejectStep /\ ~CommitForeground /\ ~CommitNext
  <2>1. UNCHANGED <<commits, visible>>
    <3>1. CASE RunForeground \/ StartBackground \/ BeginWait \/ BeginCancel \/ EndBarrier \/ LeaveSteps
      BY <3>1 DEF RunForeground, StartBackground, BeginWait, BeginCancel, EndBarrier, LeaveSteps
    <3>2. CASE Dispatch \/ Unlock \/ CancelJob \/ UNCHANGED vars
      BY <3>2 DEF Dispatch, Unlock, CancelJob, vars, jobVars
    <3>3. ASSUME NEW t \in Steps, Worker(t) \/ StepTimeout(t)
          PROVE  UNCHANGED <<commits, visible>>
      BY <3>3 DEF Worker, StepReturns, ClassifyBackground, FinishBackground, StepTimeout, jobVars
    <3> QED
      BY <1>5, <3>1, <3>2, <3>3 DEF Next, RunJob, Terminated
  <2>2. \A s \in Steps : task'[s] = "committed" <=> task[s] = "committed"
    <3>1. CASE RunForeground \/ BeginWait \/ EndBarrier \/ LeaveSteps \/ Unlock \/ CancelJob \/ UNCHANGED vars
      BY <3>1 DEF RunForeground, BeginWait, EndBarrier, LeaveSteps, Unlock, CancelJob, vars, supervisorVars
    <3>2. CASE StartBackground
      <4>1. Fetching("run") /\ task' = [task EXCEPT ![Instruction.id] = "queued"]
        BY <3>2 DEF StartBackground
      <4> QED
        BY <4>1, <1>r
    <3>3. CASE BeginCancel
      BY <3>3 DEF BeginCancel
    <3>4. CASE Dispatch
      <4>1. task[Head(queue)] = "queued" /\ Head(queue) \in Steps
        BY <3>4 DEF Dispatch, Admissible, QueueInv
      <4> QED
        BY <3>4, <4>1 DEF Dispatch
    <3>5. ASSUME NEW t \in Steps, Worker(t) \/ StepTimeout(t)
          PROVE  \A s \in Steps : task'[s] = "committed" <=> task[s] = "committed"
      <4>1. worker[t] = "classified" => task[t] = "running"
        BY DEF WorkerInv
      <4> QED
        BY <3>5, <4>1 DEF Worker, StepReturns, ClassifyBackground, FinishBackground, StepTimeout, supervisorVars
    <3> QED
      BY <1>5, <3>1, <3>2, <3>3, <3>4, <3>5 DEF Next, RunJob, Terminated
  <2>3. \A s \in Steps : task'[s] = "none" => task[s] = "none"
    BY CommittableStep
  <2> QED
    BY <2>1, <2>2, <2>3 DEF Unmerged
<1>6. CASE UNCHANGED vars
  BY <1>6 DEF vars, jobVars, supervisorVars, Unmerged
<1> QED
  BY <1>1, <1>2, <1>3, <1>4, <1>5, <1>6

\* A task that is started now is after all that were started before.
LEMMA StartOrderStep ==
    ASSUME MergeInv, [Next]_vars
    PROVE  StartOrder'
<1> USE DEF MergeInv, ErrorInv, IInv, TypeOK
<1>0. program' = program /\ Len(program) \in Nat /\ \A s : StartOf(s)' = StartOf(s)
  BY CounterStep, ProgramLength, FirstSame
<1>1. CASE StartBackground
  <2> DEFINE t == Instruction.id
  <2>1. Fetching("run") /\ phase = "step" /\ order' = Append(order, t)
    BY <1>1 DEF StartBackground, Fetching
  <2>2. t \in Steps /\ pc \in 1..Len(program) /\ IsRun(program, pc) /\ Instruction = program[pc]
    BY <2>1, AtRun
  <2>3. StartOf(t) = pc
    BY <2>2, StartIs
  <2>4. ASSUME NEW m \in 1..Len(order)
        PROVE  StartOf(order[m]) < pc
    <3>1. order[m] \in Steps /\ task[order[m]] # "none"
      BY DEF OrderInv
    <3>2. PICK j \in 1..Len(program) : IsRun(program, j) /\ program[j].id = order[m] /\ j < pc
      BY <2>1, <3>1 DEF StartedInv
    <3> QED
      BY <3>2, StartIs
  <2> HIDE DEF t
  <2>5. /\ Len(order') = Len(order) + 1 /\ Len(order) \in Nat
        /\ \A i \in 1..Len(order) : order'[i] = order[i]
        /\ order'[Len(order) + 1] = t
    BY <2>1, <2>2, AppendFacts DEF t
  <2>6. ASSUME NEW m \in 1..Len(order'), NEW n \in 1..Len(order'), m < n,
               NEW s, s = order'[m], NEW u, u = order'[n]
        PROVE  StartOf(s)' < StartOf(u)'
    <3>1. m \in 1..Len(order) /\ s = order[m]
      BY <2>5, <2>6
    <3>2. CASE n = Len(order) + 1
      BY <1>0, <2>3, <2>4, <2>5, <2>6, <3>1, <3>2
    <3>3. CASE n \in 1..Len(order)
      BY <1>0, <2>5, <2>6, <3>1, <3>3 DEF StartOrder
    <3> QED
      BY <2>5, <3>2, <3>3
  <2> QED
    BY <2>6 DEF StartOrder
<1>2. CASE ~StartBackground
  <2>1. UNCHANGED order
    <3>1. CASE SkipStep \/ RejectStep \/ RunForeground \/ CommitForeground \/ BeginWait \/ BeginCancel
               \/ CommitNext \/ EndBarrier \/ LeaveSteps
      BY <3>1 DEF SkipStep, RejectStep, RunForeground, CommitForeground, BeginWait, BeginCancel, CommitNext,
                  EndBarrier, LeaveSteps, supervisorVars
    <3>2. CASE Dispatch \/ Unlock \/ CancelJob \/ UNCHANGED vars
      BY <3>2 DEF Dispatch, Unlock, CancelJob, vars, supervisorVars
    <3>3. ASSUME NEW t \in Steps, Worker(t) \/ StepTimeout(t)
          PROVE  UNCHANGED order
      BY <3>3 DEF Worker, StepReturns, ClassifyBackground, FinishBackground, StepTimeout, supervisorVars
    <3> QED
      BY <1>2, <3>1, <3>2, <3>3 DEF Next, RunJob, Terminated
  <2> QED
    BY <1>0, <2>1 DEF StartOrder
<1> QED
  BY <1>1, <1>2

\* What a barrier has of a task that is not committed belongs to it.
LEMMA AtBarrier ==
    ASSUME ErrorInv, phase = "await", NEW k \in 1..Len(barrier), Committable(barrier[k])
    PROVE  FirstCovers(pc, barrier[k])
<1> USE DEF ErrorInv, IInv, TypeOK
<1> DEFINE s == barrier[k]
<1>1. s \in Steps /\ Covers(pc, s) /\ task[s] # "none"
  BY DEF BarrierInv, Committable
<1>2. PICK j \in 1..Len(program) : IsRun(program, j) /\ program[j].id = s /\ j < pc
  BY <1>1 DEF StartedInv
<1>3. StartOf(s) = j
  BY <1>2, StartIs
<1>4. \A i \in (j + 1)..(pc - 1) : ~Covers(i, s)
  BY <1>1, <1>2 DEF UncoveredInv
<1> QED
  BY <1>1, <1>2, <1>3, <1>4 DEF FirstCovers

\* What is merged has had its effects decided.
LEMMA MergedDecided ==
    ASSUME MergeInv, [Next]_vars, NEW m \in 1..Len(commits), NEW s, s = commits[m]
    PROVE  /\ s \in Steps
           /\ \A i : MergedAt(i, s)' <=> MergedAt(i, s)
<1>1. s \in Steps
  BY DEF MergeInv, ErrorInv, IInv, TypeOK
<1>2. task[s] = "committed" \/ (task[s] = "none" /\ visible[s] # "none")
  BY <1>1 DEF MergeInv, MergedInv, Merged
<1> QED
  BY <1>1, <1>2, MergedStays DEF MergeInv

\* A merge belongs to the instruction the program is at.
LEMMA NewAt ==
    ASSUME MergeInv, [Next]_vars, NEW s \in Steps, Placed(s) \/ Drawn(s), NEW i, i = pc
    PROVE  /\ i \in 1..(Len(program) + 1) /\ MergedAt(i, s)' /\ Past(i)'
           /\ Len(commits') = Len(commits) + 1 /\ Len(commits) \in Nat
           /\ \A m \in 1..Len(commits) : commits'[m] = commits[m]
           /\ commits'[Len(commits) + 1] = s
<1> USE DEF MergeInv, ErrorInv, IInv, TypeOK
<1>0. program' = program /\ Len(program) \in Nat
  BY CounterStep, ProgramLength
<1>1. commits' = Append(commits, s)
  BY DEF Placed, Drawn
<1>2. CASE Placed(s)
  <2>1. StartOf(s)' = i
    BY <1>0, <1>2, StartIs, FirstSame DEF Placed
  <2> QED
    BY <1>1, <1>2, <2>1, AppendFacts DEF Placed, MergedAt, Past
<1>3. CASE Drawn(s)
  <2>1. 1 \in 1..Len(barrier) /\ barrier[1] = s /\ Committable(s)
    BY <1>3 DEF Drawn, Committable
  <2>2. FirstCovers(i, s)
    BY <1>3, <2>1, AtBarrier DEF Drawn
  <2>3. FirstCovers(i, s)'
    BY <1>0, <1>3, <2>2 DEF FirstCovers, Covers, StartOf, Drawn
  <2>4. task'[s] # "none" /\ Past(i)'
    BY <1>3 DEF Drawn, Past, Merging
  <2> QED
    BY <1>1, <2>3, <2>4, AppendFacts DEF MergedAt
<1> QED
  BY <1>2, <1>3

LEMMA MergedStep ==
    ASSUME MergeInv, [Next]_vars
    PROVE  MergedInv'
<1> USE DEF MergeInv, ErrorInv, IInv, TypeOK
<1>0. program' = program /\ Len(program) \in Nat
  BY CounterStep, ProgramLength
<1>1. ASSUME NEW m \in 1..Len(commits), NEW s, s = commits[m]
      PROVE  \E i \in 1..(Len(program) + 1) : MergedAt(i, s)' /\ Past(i)'
  <2>1. PICK i \in 1..(Len(program) + 1) : MergedAt(i, s) /\ Past(i)
    BY <1>1 DEF MergedInv
  <2> QED
    BY <1>1, <2>1, MergedDecided, PastStays
<1>2. ASSUME NEW s \in Steps, Placed(s) \/ Drawn(s)
      PROVE  MergedInv'
  <2>1. /\ \E i \in 1..(Len(program) + 1) : MergedAt(i, s)' /\ Past(i)'
        /\ Len(commits') = Len(commits) + 1 /\ Len(commits) \in Nat
        /\ \A m \in 1..Len(commits) : commits'[m] = commits[m]
        /\ commits'[Len(commits) + 1] = s
    BY <1>2, NewAt
  <2>2. ASSUME NEW m \in 1..Len(commits'), NEW t, t = commits'[m]
        PROVE  \E i \in 1..(Len(program) + 1) : MergedAt(i, t)' /\ Past(i)'
    <3>1. CASE m = Len(commits) + 1
      BY <2>1, <2>2, <3>1
    <3>2. CASE m \in 1..Len(commits)
      BY <1>1, <2>1, <2>2, <3>2
    <3> QED
      BY <2>1, <3>1, <3>2
  <2>3. ASSUME NEW t \in Steps
        PROVE  Merged(t)' <=> Merged(t) \/ t = s
    <3>1. ASSUME Merged(t) PROVE Merged(t)'
      <4>1. PICK m \in 1..Len(commits) : commits[m] = t
        BY <3>1 DEF Merged
      <4>2. m \in 1..Len(commits') /\ commits'[m] = t
        BY <2>1, <4>1
      <4> QED
        BY <4>2 DEF Merged
    <3>2. Merged(s)'
      <4>1. PICK m \in Nat : m = Len(commits) + 1
        BY <2>1
      <4>2. m \in 1..Len(commits') /\ commits'[m] = s
        BY <2>1, <4>1
      <4> QED
        BY <4>2 DEF Merged
    <3>3. ASSUME Merged(t)', t # s PROVE Merged(t)
      <4>1. PICK m \in 1..Len(commits') : commits'[m] = t
        BY <3>3 DEF Merged
      <4>2. m \in 1..Len(commits) /\ commits[m] = t
        BY <2>1, <3>3, <4>1
      <4> QED
        BY <4>2 DEF Merged
    <3> QED
      BY <3>1, <3>2, <3>3
  <2>4. ASSUME NEW t \in Steps
        PROVE  Merged(t)' <=> task'[t] = "committed" \/ (task'[t] = "none" /\ visible'[t] \notin {"none", "skipped"})
    <3>1. CASE t = s
      BY <1>2, <2>3, <3>1 DEF Placed, Drawn
    <3>2. CASE t # s
      <4>1. task'[t] = task[t] /\ visible'[t] = visible[t]
        BY <1>2, <3>2 DEF Placed, Drawn
      <4> QED
        BY <2>3, <3>2, <4>1 DEF MergedInv
    <3> QED
      BY <3>1, <3>2
  <2> QED
    BY <1>0, <2>2, <2>4 DEF MergedInv
<1>3. ASSUME UNCHANGED commits,
             \A s \in Steps : /\ task'[s] = "committed" <=> task[s] = "committed"
                              /\ task'[s] = "none" /\ visible'[s] \notin {"none", "skipped"}
                                 <=> task[s] = "none" /\ visible[s] \notin {"none", "skipped"}
      PROVE  MergedInv'
  <2>1. \A s \in Steps : Merged(s)' <=> Merged(s)
    BY <1>3 DEF Merged
  <2> QED
    BY <1>0, <1>1, <1>3, <2>1 DEF MergedInv
<1>4. ASSUME NEW s \in Steps, Skipped(s)
      PROVE  MergedInv'
  BY <1>3, <1>4 DEF Skipped
<1>5. CASE Unmerged
  <2>1. ASSUME NEW s \in Steps, visible[s] \notin {"none", "skipped"}, task[s] = "none"
        PROVE  task'[s] = "none"
    BY <2>1, MergedStays
  <2> QED
    BY <1>3, <1>5, <2>1 DEF Unmerged
<1> QED
  BY <1>2, <1>4, <1>5, MergeMoves

\* What is merged now comes after all that was merged before.
LEMMA SortedStep ==
    ASSUME MergeInv, [Next]_vars
    PROVE  SortedInv'
<1> USE DEF MergeInv, ErrorInv, IInv, TypeOK
<1>0. program' = program /\ Len(program) \in Nat /\ pc \in 1..(Len(program) + 1)
  BY CounterStep, ProgramLength
<1>1. ASSUME NEW m \in 1..Len(commits), NEW n \in 1..Len(commits), m < n,
             NEW s, s = commits[m], NEW t, t = commits[n]
      PROVE  Precedes(s, t)'
  <2>1. PICK i \in 1..(Len(program) + 1), j \in 1..(Len(program) + 1) :
           MergedAt(i, s) /\ MergedAt(j, t) /\ (i < j \/ (i = j /\ MergedFirst(i, s, t)))
    BY <1>1 DEF SortedInv, Precedes
  <2>2. MergedAt(i, s)' /\ MergedAt(j, t)' /\ (MergedFirst(i, s, t)' <=> MergedFirst(i, s, t))
    BY <1>0, <1>1, <2>1, MergedDecided, FirstSame
  <2> QED
    BY <1>0, <2>1, <2>2 DEF Precedes
<1>2. ASSUME NEW s \in Steps, Placed(s) \/ Drawn(s)
      PROVE  SortedInv'
  <2>p. PICK at \in 1..(Len(program) + 1) : at = pc
    BY <1>0
  <2>1. /\ MergedAt(at, s)'
        /\ Len(commits') = Len(commits) + 1 /\ Len(commits) \in Nat
        /\ \A m \in 1..Len(commits) : commits'[m] = commits[m]
        /\ commits'[Len(commits) + 1] = s
    BY <1>2, <2>p, NewAt
  <2>2. ASSUME NEW m \in 1..Len(commits), NEW t, t = commits[m]
        PROVE  Precedes(t, s)'
    <3>1. PICK i \in 1..(Len(program) + 1) : MergedAt(i, t) /\ Past(i)
      BY <2>2 DEF MergedInv
    <3>2. MergedAt(i, t)'
      BY <2>2, <3>1, MergedDecided
    <3>3. CASE i < pc
      BY <1>0, <2>p, <2>1, <3>2, <3>3 DEF Precedes
    <3>4. CASE i = pc /\ Merging
      <4>1. Drawn(s) /\ phase = "await" /\ 1 \in 1..Len(barrier) /\ barrier[1] = s /\ Committable(s)
        BY <1>2, <3>4 DEF Placed, Drawn, Committable
      <4>2. MergedFirst(pc, t, s)
        BY <2>2, <3>1, <3>4, <4>1 DEF RestInv
      <4>3. MergedFirst(i, t, s)'
        BY <1>0, <3>4, <4>2, FirstSame
      <4> QED
        BY <1>0, <2>p, <2>1, <3>2, <3>4, <4>3 DEF Precedes
    <3> QED
      BY <3>1, <3>3, <3>4 DEF Past
  <2>3. ASSUME NEW m \in 1..Len(commits'), NEW n \in 1..Len(commits'), m < n,
               NEW t, t = commits'[m], NEW u, u = commits'[n]
        PROVE  Precedes(t, u)'
    <3>1. m \in 1..Len(commits) /\ t = commits[m]
      BY <2>1, <2>3
    <3>2. CASE n = Len(commits) + 1
      BY <2>1, <2>2, <2>3, <3>1, <3>2
    <3>3. CASE n \in 1..Len(commits)
      BY <1>1, <2>1, <2>3, <3>1, <3>3
    <3> QED
      BY <2>1, <3>2, <3>3
  <2> QED
    BY <2>3 DEF SortedInv
<1>3. CASE UNCHANGED commits
  BY <1>1, <1>3 DEF SortedInv
<1> QED
  BY <1>2, <1>3, MergeMoves DEF Skipped, Unmerged

\* A barrier is merged in its order, after what it has merged.
LEMMA RestStep ==
    ASSUME MergeInv, [Next]_vars
    PROVE  RestInv'
<1> USE DEF MergeInv, ErrorInv, IInv, TypeOK
<1>0. program' = program /\ Len(program) \in Nat
  BY CounterStep, ProgramLength
<1> SUFFICES ASSUME phase' = "await", NEW at \in 1..(Len(program) + 1), at = pc'
             PROVE  /\ \A k, l \in 1..Len(barrier') : k < l => MergedFirst(at, barrier[k], barrier[l])'
                    /\ \A m \in 1..Len(commits'), k \in 1..Len(barrier') :
                         MergedAt(at, commits[m])' /\ Committable(barrier[k])' => MergedFirst(at, commits[m], barrier[k])'
  <2>1. pc' \in 1..(Len(program) + 1)
    BY <1>0, TypeStep
  <2> QED
    BY <2>1 DEF RestInv
<1>1. \A s \in Steps : Committable(s)' => Committable(s)
  <2>1. ~StartBackground
    BY DEF StartBackground
  <2> QED
    BY <2>1, CommittableStep
<1>2. ASSUME BeginWait \/ BeginCancel
      PROVE  \A m \in 1..Len(commits') : ~MergedAt(at, commits[m])'
  <2> SUFFICES ASSUME NEW m \in 1..Len(commits), NEW s, s = commits[m], MergedAt(at, s)'
               PROVE  FALSE
    BY <1>2 DEF BeginWait, BeginCancel
  <2>1. ~Merging /\ at = pc
    BY <1>2 DEF BeginWait, BeginCancel, Fetching, Merging
  <2>2. MergedAt(at, s)
    BY MergedDecided
  <2>3. PICK i \in 1..(Len(program) + 1) : MergedAt(i, s) /\ i < pc
    BY <2>1 DEF MergedInv, Past
  <2>4. CASE task[s] = "none"
    BY <2>1, <2>2, <2>3, <2>4 DEF MergedAt
  <2>5. CASE task[s] # "none"
    <3>1. i \in (StartOf(s) + 1)..(at - 1) /\ Covers(i, s)
      <4>1. s \in Steps
        BY MergedDecided
      <4>2. PICK j \in 1..Len(program) : IsRun(program, j) /\ program[j].id = s
        BY <2>5, <4>1 DEF StartedInv
      <4>3. StartOf(s) \in Nat
        BY <4>2, StartIs
      <4> QED
        BY <1>0, <2>1, <2>3, <2>5, <4>3 DEF MergedAt, FirstCovers
    <3> QED
      BY <2>2, <2>5, <3>1 DEF MergedAt, FirstCovers
  <2> QED
    BY <2>4, <2>5
<1>3. CASE BeginWait
  <2> SUFFICES ASSUME NEW k \in 1..Len(barrier'), NEW l \in 1..Len(barrier'), k < l,
                      NEW s, s = barrier'[k], NEW t, t = barrier'[l]
               PROVE  MergedFirst(at, s, t)'
    BY <1>2, <1>3
  <2>0. at = pc
    BY <1>3 DEF BeginWait
  <2>1. CASE barrier' = order /\ (pc = Len(program) + 1 \/ program[pc].kind = "wait-all")
    <3>1. StartOf(s) < StartOf(t)
      BY <2>1 DEF StartOrder
    <3>2. MergedFirst(at, s, t)
      BY <1>0, <2>0, <2>1, <3>1 DEF MergedFirst
    <3> QED
      BY <1>0, <3>2, FirstSame
  <2>2. CASE Fetching("wait") /\ barrier' = Instruction.targets
    <3>1. pc \in 1..Len(program) /\ program[pc].kind = "wait" /\ barrier' = program[pc].targets
      BY <1>0, <2>2 DEF Fetching, Instruction
    <3>2. program[pc].targets \in Seq(Steps)
      BY <3>1, InstructionTypes
    <3>3. /\ k \in DOMAIN program[pc].targets /\ program[pc].targets[k] = s
          /\ l \in DOMAIN program[pc].targets /\ program[pc].targets[l] = t
      BY <3>1, <3>2
    <3>4. MergedFirst(at, s, t)
      <4>1. \E a, b \in DOMAIN program[at].targets :
               a < b /\ program[at].targets[a] = s /\ program[at].targets[b] = t
        BY <2>0, <3>3
      <4>2. at <= Len(program) /\ program[at].kind = "wait"
        BY <1>0, <2>0, <3>1
      <4> QED
        BY <4>1, <4>2 DEF MergedFirst
    <3> QED
      BY <1>0, <3>4, FirstSame
  <2> QED
    BY <1>3, <2>1, <2>2 DEF BeginWait, Fetching, Instruction
<1>4. CASE BeginCancel
  <2>1. \A k, l \in 1..Len(barrier') : ~(k < l)
    BY <1>4 DEF BeginCancel
  <2> QED
    BY <1>2, <1>4, <2>1
<1>5. ASSUME UNCHANGED <<phase, pc>>, UNCHANGED barrier \/ (barrier # <<>> /\ barrier' = Tail(barrier)),
             NEW k \in 1..Len(barrier')
      PROVE  /\ barrier'[k] \in Steps /\ barrier'[k] \in {barrier[i] : i \in 1..Len(barrier)}
             /\ \A l \in 1..Len(barrier') : k < l => MergedFirst(at, barrier[k], barrier[l])'
  <2>1. PICK e \in {0, 1} : /\ Len(barrier) = Len(barrier') + e
                            /\ \A i \in 1..Len(barrier') : barrier'[i] = barrier[i + e]
    <3>1. CASE UNCHANGED barrier
      <4>1. Len(barrier) = Len(barrier') + 0 /\ \A i \in 1..Len(barrier') : barrier'[i] = barrier[i + 0]
        BY <3>1
      <4> QED
        BY <4>1
    <3>2. CASE barrier # <<>> /\ barrier' = Tail(barrier)
      <4>1. Len(barrier) = Len(barrier') + 1 /\ \A i \in 1..Len(barrier') : barrier'[i] = barrier[i + 1]
        BY <3>2
      <4> QED
        BY <4>1
    <3> QED
      BY <1>5, <3>1, <3>2
  <2>2. Len(barrier') \in Nat /\ \A i \in 1..Len(barrier') : i + e \in 1..Len(barrier)
    <3>1. Len(barrier) \in Nat
      OBVIOUS
    <3>2. barrier' \in Seq(Steps)
      BY TypeStep
    <3>3. Len(barrier') \in Nat
      BY <3>2
    <3> QED
      BY <2>1, <3>1, <3>3
  <2>3. ASSUME NEW l \in 1..Len(barrier'), k < l, NEW s, s = barrier'[k], NEW t, t = barrier'[l]
        PROVE  MergedFirst(at, s, t)'
    <3>1. s = barrier[k + e] /\ t = barrier[l + e] /\ k + e < l + e
      BY <2>1, <2>2, <2>3, SMTT(30)
    <3>2. MergedFirst(at, s, t)
      BY <1>5, <2>2, <3>1 DEF RestInv
    <3> QED
      BY <1>0, <3>2, FirstSame
  <2>4. k + e \in 1..Len(barrier) /\ barrier'[k] = barrier[k + e] /\ barrier[k + e] \in Steps
    <3>1. k + e \in 1..Len(barrier)
      BY <1>5, <2>2
    <3>2. barrier'[k] = barrier[k + e]
      BY <1>5, <2>1
    <3>3. barrier \in Seq(Steps)
      OBVIOUS
    <3>4. barrier[k + e] \in Steps
      BY <3>1, <3>3, ElementOfSeq
    <3> QED
      BY <3>1, <3>2, <3>4
  <2>5. \A l \in 1..Len(barrier') : k < l => MergedFirst(at, barrier[k], barrier[l])'
    BY <2>3
  <2> QED
    BY <2>4, <2>5
<1>6. CASE UNCHANGED <<phase, pc, barrier, commits>>
  <2>1. ASSUME NEW m \in 1..Len(commits), NEW k \in 1..Len(barrier), NEW s, s = commits[m], NEW t, t = barrier[k],
               MergedAt(at, s)', Committable(t)'
        PROVE  MergedFirst(at, s, t)'
    <3>1. t \in Steps
      BY <2>1
    <3>2. MergedAt(at, s) /\ Committable(t)
      BY <1>1, <2>1, <3>1, MergedDecided
    <3>3. MergedFirst(at, s, t)
      BY <1>6, <2>1, <3>2 DEF RestInv
    <3> QED
      BY <1>0, <3>3, FirstSame
  <2> QED
    BY <1>5, <1>6, <2>1
<1>7. CASE CommitNext
  <2>1. /\ UNCHANGED <<phase, pc>> /\ phase = "await" /\ at = pc
        /\ barrier # <<>> /\ barrier' = Tail(barrier) /\ Head(barrier) \in Steps
    BY <1>7 DEF CommitNext
  <2>2. PICK h \in Steps : h = Head(barrier)
    BY <2>1
  <2>3. \A k \in 1..Len(barrier') : k + 1 \in 1..Len(barrier) /\ barrier'[k] = barrier[k + 1]
    BY <2>1
  <2>4. h = barrier[1] /\ 1 \in 1..Len(barrier)
    BY <2>1, <2>2
  <2>5. ASSUME NEW m \in 1..Len(commits), NEW k \in 1..Len(barrier'), NEW s, s = commits[m], NEW t, t = barrier'[k],
               MergedAt(at, s)', Committable(t)'
        PROVE  MergedFirst(at, s, t)'
    <3>1. t \in Steps
      <4>1. t = barrier[k + 1] /\ k + 1 \in 1..Len(barrier)
        BY <2>3, <2>5
      <4> QED
        BY <4>1
    <3>2. MergedAt(at, s) /\ Committable(t)
      BY <1>1, <2>5, <3>1, MergedDecided
    <3>3. MergedFirst(at, s, t)
      BY <2>1, <2>3, <2>5, <3>2 DEF RestInv
    <3> QED
      BY <1>0, <3>3, FirstSame
  <2>6. ASSUME NEW k \in 1..Len(barrier'), NEW t, t = barrier'[k]
        PROVE  MergedFirst(at, h, t)'
    <3>1. MergedFirst(at, h, t)
      BY <2>1, <2>3, <2>4, <2>6 DEF RestInv
    <3> QED
      BY <1>0, <3>1, FirstSame
  <2>7. CASE Committable(h)
    <3>1. commits' = Append(commits, h)
      BY <1>7, <2>2, <2>7 DEF CommitNext
    <3>2. /\ Len(commits') = Len(commits) + 1 /\ Len(commits) \in Nat
          /\ \A m \in 1..Len(commits) : commits'[m] = commits[m]
          /\ commits'[Len(commits) + 1] = h
      BY <3>1, AppendFacts
    <3>3. ASSUME NEW m \in 1..Len(commits'), NEW k \in 1..Len(barrier'), NEW s, s = commits'[m], NEW t, t = barrier'[k],
                 MergedAt(at, s)', Committable(t)'
          PROVE  MergedFirst(at, s, t)'
      <4>1. CASE m \in 1..Len(commits)
        BY <2>5, <3>2, <3>3, <4>1
      <4>2. CASE m = Len(commits) + 1
        BY <2>6, <3>2, <3>3, <4>2
      <4> QED
        BY <3>2, <4>1, <4>2
    <3> QED
      BY <1>5, <2>1, <3>3
  <2>8. CASE ~Committable(h)
    <3>1. commits' = commits
      BY <1>7, <2>2, <2>8 DEF CommitNext
    <3> QED
      BY <1>5, <2>1, <2>5, <3>1
  <2> QED
    BY <2>7, <2>8
<1>8. BeginWait \/ BeginCancel \/ CommitNext \/ UNCHANGED <<phase, pc, barrier, commits>>
  <2>1. ASSUME NEW t \in Steps, Worker(t) \/ StepTimeout(t)
        PROVE  UNCHANGED <<phase, pc, barrier, commits>>
    BY <2>1 DEF Worker, StepReturns, ClassifyBackground, FinishBackground, StepTimeout, jobVars
  <2>2. ~SkipStep /\ ~RejectStep /\ ~RunForeground /\ ~CommitForeground /\ ~StartBackground
        /\ ~EndBarrier /\ ~LeaveSteps
    BY DEF SkipStep, RejectStep, RunForeground, CommitForeground, StartBackground, EndBarrier, LeaveSteps, Fetching
  <2>3. Dispatch \/ CancelJob \/ UNCHANGED vars => UNCHANGED <<phase, pc, barrier, commits>>
    BY DEF Dispatch, CancelJob, vars, jobVars
  <2>4. Unlock => UNCHANGED <<phase, pc, barrier, commits>>
    BY DEF Unlock
  <2> QED
    BY <2>1, <2>2, <2>3, <2>4 DEF Next, RunJob, Terminated
<1> QED
  BY <1>3, <1>4, <1>6, <1>7, <1>8

LEMMA InitMerge == Init => MergeInv
<1> SUFFICES ASSUME Init PROVE MergeInv
  OBVIOUS
<1>1. StartOrder /\ SortedInv /\ RestInv
  BY DEF Init, StartOrder, SortedInv, RestInv
<1>2. MergedInv
  BY DEF Init, MergedInv, Merged
<1> QED
  BY <1>1, <1>2, InitError DEF MergeInv

LEMMA MergeInductive == MergeInv /\ [Next]_vars => MergeInv'
<1> SUFFICES ASSUME MergeInv, [Next]_vars PROVE MergeInv'
  OBVIOUS
<1>1. ErrorInv'
  BY ErrorInductive DEF MergeInv
<1> QED
  BY <1>1, StartOrderStep, MergedStep, SortedStep, RestStep DEF MergeInv

\* The invariant of the order in which effects are merged.
THEOREM MergeInvariant == Spec => []MergeInv
BY InitMerge, MergeInductive, PTL DEF Spec

\* The effects of steps are merged in an order that the program determines,
\* whatever finishes first: each step's once, where it runs or at the first
\* barrier that covers it (runSteps, commitCompleted).
THEOREM EffectsMergeInOrder == Spec => []DeterministicCommits
<1>1. ASSUME MergeInv PROVE DeterministicCommits
  <2> USE <1>1 DEF MergeInv, ErrorInv, IInv, TypeOK
  <2>0. Len(program) \in Nat /\ DOMAIN commits = 1..Len(commits)
    BY ProgramLength
  <2>1. \A s : s \in Range(commits) <=> Merged(s)
    BY <2>0 DEF Range, Merged
  <2>2. \A m, n \in DOMAIN commits : m < n => Precedes(commits[m], commits[n])
    BY <2>0 DEF SortedInv
  <2>3. Range(commits) \subseteq Effective
    <3>1. \A s : Merged(s) => s \in Steps
      BY DEF Merged
    <3> QED
      BY <2>1, <3>1 DEF MergedInv, Effective
  <2>4. ASSUME NEW s \in Effective, NEW i \in 1..(Len(program) + 1), MergedAt(i, s)
        PROVE  /\ i < pc \/ phase \in {"drained", "posts"} => s \in Range(commits)
               /\ s \in Range(commits) => i < pc \/ (i = pc /\ phase \in {"await", "drained", "posts"})
    <3>1. s \in Steps /\ (task[s] # "none" \/ visible[s] \notin {"none", "skipped"})
      BY DEF Effective
    <3>2. CASE task[s] = "none"
      <4>1. s \in Range(commits)
        BY <2>1, <3>1, <3>2 DEF MergedInv
      <4>2. PICK m \in 1..Len(commits) : commits[m] = s
        BY <2>1, <4>1 DEF Merged
      <4>3. PICK j \in 1..(Len(program) + 1) : MergedAt(j, s) /\ Past(j)
        BY <4>2 DEF MergedInv
      <4>4. i = j
        BY <2>4, <3>2, <4>3 DEF MergedAt
      <4> QED
        BY <4>1, <4>3, <4>4 DEF Past, Merging
    <3>3. CASE task[s] # "none"
      <4>1. PICK j \in 1..Len(program) : IsRun(program, j) /\ program[j].id = s
        BY <3>1, <3>3 DEF StartedInv
      <4>2. StartOf(s) = j
        BY <4>1, StartIs
      <4>3. FirstCovers(i, s)
        BY <2>4, <3>3 DEF MergedAt
      <4>4. ASSUME i < pc \/ phase \in {"drained", "posts"} PROVE s \in Range(commits)
        <5>1. CASE i < pc
          <6>1. i \in (j + 1)..(pc - 1) /\ Covers(i, s)
            BY <2>0, <4>2, <4>3, <5>1 DEF FirstCovers
          <6>2. ~Committable(s)
            BY <3>1, <4>1, <6>1 DEF UncoveredInv
          <6> QED
            BY <2>1, <3>1, <3>3, <6>2 DEF Committable, MergedInv
        <5>2. CASE phase \in {"drained", "posts"}
          BY <2>1, <3>1, <3>3, <5>2 DEF DrainInv, MergedInv
        <5> QED
          BY <4>4, <5>1, <5>2
      <4>5. ASSUME s \in Range(commits) PROVE Past(i)
        <5>1. PICK m \in 1..Len(commits) : commits[m] = s
          BY <2>1, <4>5 DEF Merged
        <5>2. PICK k \in 1..(Len(program) + 1) : MergedAt(k, s) /\ Past(k)
          BY <5>1 DEF MergedInv
        <5>3. FirstCovers(k, s)
          BY <3>3, <5>2 DEF MergedAt
        <5>4. i = k
          BY <2>0, <4>2, <4>3, <5>3 DEF FirstCovers
        <5> QED
          BY <5>2, <5>4
      <4> QED
        BY <4>4, <4>5 DEF Past, Merging
    <3> QED
      BY <3>2, <3>3
  <2> QED
    BY <2>2, <2>3, <2>4 DEF DeterministicCommits
<1> QED
  BY MergeInvariant, <1>1, PTL

-----------------------------------------------------------------------------
(* The step phase implements StepLedger.                                   *)

Settled == {"success", "failure", "cancelled"}

\* A task is seen once it is committed and not before, and a finished one has
\* been judged.
VisibleInv ==
    \A s \in Steps :
        /\ task[s] \in {"queued", "running", "finished"} => visible[s] = "none"
        /\ task[s] = "committed" => visible[s] # "none"
        /\ worker[s] = "classified" \/ task[s] = "finished" => execution[s] \in Settled

\* A step the program has not decided about is not visible.
UnseenInv ==
    \A i \in pc..Len(program) :
        IsRun(program, i) /\ (i = pc => phase # "starting") => visible[program[i].id] = "none"

RInv == IInv /\ VisibleInv /\ UnseenInv

\* What Classify returns, whatever the arguments.
LEMMA ClassifyFacts ==
    ASSUME NEW r, NEW c, NEW done, NEW tolerate
    PROVE  Classify(r, c, done, tolerate) \in Settled
BY DEF Classify, Settled

\* A step is visible exactly when it was judged in place or committed.
LEMMA VisibleStep ==
    ASSUME RInv, [Next]_vars
    PROVE  VisibleInv'
<1>0. /\ task \in [Steps -> TaskStates] /\ worker \in [Steps -> WorkStages]
      /\ execution \in [Steps -> Conclusions] /\ visible \in [Steps -> Conclusions]
      /\ program \in Programs /\ pc \in 1..(Len(program) + 1)
      /\ barrier \in Seq(Steps) /\ queue \in Seq(Steps)
      /\ VisibleInv /\ WorkerInv /\ QueueInv
  BY DEF RInv, IInv, TypeOK
<1>r. ASSUME phase = "step" \/ phase = "foreground", pc <= Len(program), Instruction.kind = "run"
      PROVE  Instruction.id \in Steps /\ task[Instruction.id] = "none"
  <2>1. pc \in 1..Len(program) /\ pc \in pc..Len(program)
    BY <1>0, <1>r, ProgramLength
  <2>2. Instruction.id \in Steps
    BY <1>0, <1>r, <2>1, InstructionTypes DEF Instruction
  <2>3. CASE phase = "foreground"
    BY <2>2, <2>3 DEF RInv, IInv, ControlInv
  <2>4. CASE phase = "step"
    BY <1>r, <2>1, <2>2, <2>4 DEF RInv, IInv, FreshInv, IsRun, Instruction
  <2> QED
    BY <1>r, <2>2, <2>3, <2>4
<1> USE <1>0 DEF VisibleInv
<1>1. CASE SkipStep
  <2>1. Instruction.id \in Steps /\ task[Instruction.id] = "none"
    BY <1>1, <1>r DEF SkipStep, Fetching
  <2>2. /\ UNCHANGED <<task, worker, execution>>
        /\ visible' = [visible EXCEPT ![Instruction.id] = "skipped"]
    BY <1>1 DEF SkipStep, supervisorVars, workerVars
  <2> QED
    BY <2>1, <2>2
<1>2. CASE RejectStep
  <2> DEFINE t == Instruction.id
  <2>1. t \in Steps /\ task[t] = "none"
    BY <1>2, <1>r DEF RejectStep, Fetching
  <2>2. worker[t] # "classified"
    BY <2>1 DEF WorkerInv
  <2>3. PICK r \in {"failed", "hard"}, tolerate \in Tolerant[t], done \in {FALSE, jobDone} :
            /\ execution' = [execution EXCEPT ![t] = Classify(r, "none", done, tolerate)]
            /\ visible' = [visible EXCEPT ![t] = Classify(r, "none", done, tolerate)]
    BY <1>2 DEF RejectStep
  <2>4. UNCHANGED <<task, worker>>
    BY <1>2 DEF RejectStep, supervisorVars
  <2> QED
    BY <2>1, <2>2, <2>3, <2>4
<1>3. CASE CommitForeground
  <2> DEFINE t == Instruction.id
  <2>1. t \in Steps /\ task[t] = "none"
    BY <1>3, <1>r DEF CommitForeground, RInv, IInv, ControlInv
  <2>2. PICK tolerate \in Tolerant[t] :
            LET c == Classify(result[t], cause[t], jobDone, tolerate) IN
            /\ execution' = [execution EXCEPT ![t] = c]
            /\ visible' = [visible EXCEPT ![t] = c]
    BY <1>3 DEF CommitForeground
  <2>3. task' = task /\ worker' = [worker EXCEPT ![t] = "exited"]
    BY <1>3 DEF CommitForeground, supervisorVars
  <2> QED
    BY <2>1, <2>2, <2>3
<1>4. CASE StartBackground
  <2> DEFINE t == Instruction.id
  <2>1. /\ t \in Steps /\ task[t] = "none" /\ pc \in pc..Len(program)
        /\ IsRun(program, pc) /\ phase = "step"
    BY <1>4, <1>r, ProgramLength DEF StartBackground, Fetching, IsRun, Instruction
  <2>2. visible[t] = "none"
    BY <2>1 DEF RInv, UnseenInv, Instruction
  <2>3. task' = [task EXCEPT ![t] = "queued"] /\ UNCHANGED <<worker, visible, execution>>
    BY <1>4 DEF StartBackground
  <2> QED
    BY <2>1, <2>2, <2>3
<1>5. CASE BeginCancel
  <2> DEFINE t == Instruction.target
  <2>1. UNCHANGED <<worker, visible>>
    BY <1>5 DEF BeginCancel
  <2>2. CASE Committable(t) /\ task[t] = "queued"
    <3>1. /\ task' = [task EXCEPT ![t] = "finished"]
          /\ execution' = [execution EXCEPT ![t] = "cancelled"]
      BY <2>2, <1>5 DEF BeginCancel
    <3> QED
      BY <2>1, <2>2, <3>1 DEF Settled
  <2>3. CASE ~(Committable(t) /\ task[t] = "queued")
    <3>1. UNCHANGED <<task, execution>>
      BY <2>3, <1>5 DEF BeginCancel
    <3> QED
      BY <2>1, <3>1
  <2> QED
    BY <2>2, <2>3
<1>6. CASE CommitNext
  <2> DEFINE t == Head(barrier)
  <2>1. t \in Steps /\ UNCHANGED <<worker, execution>>
    BY <1>6 DEF CommitNext, workerVars
  <2>2. CASE Committable(t)
    <3>1. ~Blocks(t)
      BY <1>6 DEF CommitNext
    <3>2. task[t] = "finished"
      BY <2>1, <2>2, <3>1 DEF Committable, Blocks, TaskStates
    <3>3. /\ task' = [task EXCEPT ![t] = "committed"]
          /\ visible' = [visible EXCEPT ![t] = execution[t]]
      BY <2>2, <1>6 DEF CommitNext
    <3> QED
      BY <2>1, <3>2, <3>3 DEF Settled
  <2>3. CASE ~Committable(t)
    <3>1. UNCHANGED <<task, visible>>
      BY <2>3, <1>6 DEF CommitNext
    <3> QED
      BY <2>1, <3>1
  <2> QED
    BY <2>2, <2>3
<1>7. CASE Dispatch
  <2> DEFINE t == Head(queue)
  <2>1. t \in Steps /\ task[t] = "queued" /\ visible' = visible
    BY <1>7 DEF Dispatch, Admissible, QueueInv, jobVars
  <2>2. CASE cause[t] = "none"
    <3>1. /\ task' = [task EXCEPT ![t] = "running"]
          /\ worker' = [worker EXCEPT ![t] = "executing"] /\ execution' = execution
      BY <2>2, <1>7 DEF Dispatch
    <3> QED
      BY <2>1, <3>1
  <2>3. CASE cause[t] # "none"
    <3>1. /\ task' = [task EXCEPT ![t] = "finished"]
          /\ execution' = [execution EXCEPT ![t] = "cancelled"] /\ worker' = worker
      BY <2>3, <1>7 DEF Dispatch
    <3> QED
      BY <2>1, <3>1 DEF Settled
  <2> QED
    BY <2>2, <2>3
<1>8. ASSUME NEW t \in Steps, ClassifyBackground(t)
      PROVE  VisibleInv'
  <2>1. PICK tolerate \in Tolerant[t] :
            execution' = [execution EXCEPT ![t] = Classify(result[t], cause[t], jobDone, tolerate)]
    BY <1>8 DEF ClassifyBackground
  <2>2. UNCHANGED <<task, visible>> /\ worker' = [worker EXCEPT ![t] = "classified"]
    BY <1>8 DEF ClassifyBackground, jobVars, supervisorVars
  <2> QED
    BY <2>1, <2>2, ClassifyFacts
<1>9. ASSUME NEW t \in Steps, FinishBackground(t)
      PROVE  VisibleInv'
  <2>1. worker[t] = "classified" /\ task[t] = "running"
    BY <1>9 DEF FinishBackground, WorkerInv
  <2>2. /\ UNCHANGED <<visible, execution>> /\ worker' = [worker EXCEPT ![t] = "exited"]
        /\ task' = [task EXCEPT ![t] = "finished"]
    BY <1>9 DEF FinishBackground, jobVars
  <2> QED
    BY <2>1, <2>2
<1>10. ASSUME NEW t \in Steps, StepReturns(t) \/ StepTimeout(t)
       PROVE  VisibleInv'
  BY <1>10 DEF StepReturns, StepTimeout, jobVars, supervisorVars
<1>11. CASE RunForeground \/ BeginWait \/ EndBarrier \/ LeaveSteps \/ Unlock \/ CancelJob \/ UNCHANGED vars
  <2>1. UNCHANGED <<task, visible, execution>>
    BY <1>11 DEF RunForeground, BeginWait, EndBarrier, LeaveSteps, Unlock, CancelJob,
                 vars, jobVars, supervisorVars, workerVars
  <2>2. \A s \in Steps : worker'[s] = "classified" => worker[s] = "classified"
    BY <1>11 DEF RunForeground, BeginWait, EndBarrier, LeaveSteps, Unlock, CancelJob,
                 vars, workerVars
  <2> QED
    BY <2>1, <2>2
<1> QED
  BY <1>1, <1>2, <1>3, <1>4, <1>5, <1>6, <1>7, <1>8, <1>9, <1>10, <1>11
     DEF Next, RunJob, Worker, Terminated

\* What becomes visible in a step is the current instruction or a started task.
LEMMA SeenStep ==
    ASSUME RInv, [Next]_vars, NEW s \in Steps, task[s] = "none", visible[s] = "none"
    PROVE  \/ visible'[s] = "none"
           \/ (SkipStep \/ RejectStep \/ CommitForeground) /\ Instruction.id = s
<1> USE DEF RInv, IInv, TypeOK
<1>1. CASE SkipStep \/ RejectStep \/ CommitForeground
  BY <1>1 DEF SkipStep, RejectStep, CommitForeground
<1>2. CASE RunForeground \/ StartBackground \/ BeginWait \/ BeginCancel \/ EndBarrier \/ LeaveSteps
  BY <1>2 DEF RunForeground, StartBackground, BeginWait, BeginCancel, EndBarrier, LeaveSteps
<1>3. CASE CommitNext
  BY <1>3 DEF CommitNext, Committable
<1>4. CASE Dispatch \/ Unlock \/ CancelJob \/ UNCHANGED vars
  BY <1>4 DEF Dispatch, Unlock, CancelJob, vars, jobVars
<1>5. ASSUME NEW t \in Steps, Worker(t) \/ StepTimeout(t)
      PROVE  visible' = visible
  BY <1>5 DEF Worker, StepReturns, ClassifyBackground, FinishBackground, StepTimeout, jobVars
<1> QED
  BY <1>1, <1>2, <1>3, <1>4, <1>5 DEF Next, RunJob, Terminated

\* A step the program has not reached is not visible.
LEMMA UnseenStep ==
    ASSUME RInv, [Next]_vars
    PROVE  UnseenInv'
<1>0. /\ program \in Programs /\ pc \in 1..(Len(program) + 1) /\ IInv
      /\ Len(program) \in Nat
  BY ProgramLength DEF RInv, IInv, TypeOK
<1>1. /\ program' = program /\ (pc' = pc \/ pc' = pc + 1)
      /\ (pc' = pc /\ phase = "starting" => phase' = "starting")
  BY <1>0, CounterStep
<1> SUFFICES ASSUME NEW i \in pc'..Len(program), IsRun(program, i),
                    i = pc' => phase' # "starting"
             PROVE  visible'[program[i].id] = "none"
  BY <1>1 DEF UnseenInv
<1> DEFINE s == program[i].id
<1>2. i \in 1..Len(program) /\ program[i].kind = "run" /\ s \in Steps
  BY <1>0, InstructionTypes DEF IsRun
<1>3. i \in pc..Len(program) /\ (i = pc => phase # "starting")
  BY <1>0, <1>1, <1>2
<1>4. visible[s] = "none"
  BY <1>3 DEF RInv, UnseenInv
<1>5. task[s] = "none"
  <2>1. CASE i = pc /\ phase = "foreground"
    BY <2>1, <1>0 DEF IInv, ControlInv, Instruction
  <2>2. CASE ~(i = pc /\ phase = "foreground")
    BY <2>2, <1>0, <1>3 DEF IInv, FreshInv
  <2> QED
    BY <2>1, <2>2
<1>6. ASSUME SkipStep \/ RejectStep \/ CommitForeground, Instruction.id = s
      PROVE  FALSE
  <2>1. pc' = pc + 1 /\ pc \in 1..Len(program) /\ program[pc].kind = "run"
    <3>1. CASE SkipStep \/ RejectStep
      <4>1. Fetching("run") /\ pc' = pc + 1
        BY <3>1 DEF SkipStep, RejectStep
      <4> QED
        BY <4>1, <1>0 DEF Fetching, Instruction
    <3>2. CASE CommitForeground
      <4>1. phase = "foreground" /\ pc' = pc + 1
        BY <3>2 DEF CommitForeground
      <4>2. pc <= Len(program) /\ Instruction.kind = "run"
        BY <4>1, <1>0 DEF IInv, ControlInv
      <4> QED
        BY <4>1, <4>2, <1>0 DEF Instruction
    <3> QED
      BY <1>6, <3>1, <3>2
  <2>2. i = pc
    BY <2>1, <1>0, <1>2, <1>6, UniqueIds DEF Instruction
  <2> QED
    BY <2>1, <2>2, <1>0
<1> QED
  BY <1>2, <1>4, <1>5, <1>6, SeenStep

\* The invariant the refinement needs.
THEOREM RefinementInvariant == Spec => []RInv
<1>1. Init => RInv
  <2> SUFFICES ASSUME Init PROVE RInv
    OBVIOUS
  <2>1. VisibleInv
    BY DEF Init, VisibleInv
  <2>2. UnseenInv
    BY ProgramLength, InstructionTypes DEF Init, UnseenInv, IsRun
  <2> QED
    BY <2>1, <2>2, InitInvariant DEF RInv
<1>2. RInv /\ [Next]_vars => RInv'
  <2> SUFFICES ASSUME RInv, [Next]_vars PROVE RInv'
    OBVIOUS
  <2>1. IInv'
    BY InductiveStep DEF RInv
  <2> QED
    BY <2>1, VisibleStep, UnseenStep DEF RInv
<1> QED
  BY <1>1, <1>2, PTL DEF Spec

-----------------------------------------------------------------------------
\* A step that concerns one step changes its entry only.
LEMMA EntryUpdate ==
    ASSUME NEW t \in Steps, NEW e, NEW v,
           \A s \in Steps \ {t} : Entry(s)' = Entry(s),
           \A s \in Steps \ {t} : VerdictOf'[s] = VerdictOf[s],
           Entry(t)' = e, VerdictOf'[t] = v
    PROVE  EntryOf' = [EntryOf EXCEPT ![t] = e] /\ VerdictOf' = [VerdictOf EXCEPT ![t] = v]
BY DEF EntryOf, VerdictOf

\* What the ledger sees of a step depends on three values.
Same(s) ==
    /\ visible'[s] = visible[s]
    /\ \/ task'[s] = task[s]
       \/ {task[s], task'[s]} \subseteq {"queued", "running"}
    /\ execution'[s] = execution[s] \/ task'[s] # "finished"

\* A step whose task, verdict and visibility stay has the same entry.
LEMMA SameEntry ==
    ASSUME NEW s \in Steps, Same(s)
    PROVE  Entry(s)' = Entry(s) /\ VerdictOf'[s] = VerdictOf[s]
<1>1. Entry(s)' = Entry(s)
  BY DEF Same, Entry
<1>2. VerdictOf'[s] = VerdictOf[s]
  BY <1>1 DEF Same, Entry, VerdictOf
<1> QED
  BY <1>1, <1>2

\* If no entry changes the ledger stutters.
LEMMA Stutter ==
    ASSUME \A s \in Steps : Same(s), UNCHANGED <<commits, runErr>>, phase # "posts", phase' # "posts"
    PROVE  UNCHANGED Ledger!ledgerVars
<1>1. EntryOf' = EntryOf /\ VerdictOf' = VerdictOf
  BY SameEntry DEF EntryOf, VerdictOf
<1> QED
  BY <1>1 DEF Ledger!ledgerVars

\* supervisor.start submits a step to the ledger.
LEMMA SubmitMaps ==
    ASSUME RInv, StartBackground
    PROVE  Ledger!Next
<1>0. /\ task \in [Steps -> TaskStates] /\ visible \in [Steps -> Conclusions]
      /\ pc \in 1..Len(program) /\ phase = "step" /\ program[pc].kind = "run"
      /\ Instruction.id \in Steps
  BY ProgramLength, InstructionTypes
     DEF RInv, IInv, TypeOK, StartBackground, Fetching, Instruction
<1> PICK t \in Steps : t = Instruction.id
  BY <1>0
<1>1. task[t] = "none" /\ visible[t] = "none"
  BY <1>0, ProgramLength DEF RInv, IInv, TypeOK, FreshInv, UnseenInv, IsRun, Instruction
<1>2. /\ task' = [task EXCEPT ![t] = "queued"] /\ UNCHANGED <<visible, execution, commits, runErr>>
      /\ phase' = "starting"
  BY DEF StartBackground
<1>3. \A s \in Steps \ {t} : Same(s)
  BY <1>0, <1>1, <1>2 DEF Same
<1>4. Entry(t) = "absent" /\ Entry(t)' = "open"
  BY <1>0, <1>1, <1>2 DEF Entry
<1>5. VerdictOf[t] = "none" /\ VerdictOf'[t] = "none"
  BY <1>1, <1>4 DEF VerdictOf
<1>6. EntryOf' = [EntryOf EXCEPT ![t] = "open"] /\ VerdictOf' = [VerdictOf EXCEPT ![t] = "none"]
  BY <1>3, <1>4, <1>5, SameEntry, EntryUpdate
<1>7. VerdictOf' = VerdictOf
  BY <1>5, <1>6 DEF VerdictOf
<1>8. Ledger!Submit(t)
  BY <1>0, <1>2, <1>4, <1>6, <1>7 DEF Ledger!Submit, EntryOf
<1> QED
  BY <1>8 DEF Ledger!Next

\* Finishing a task closes its entry.
LEMMA CloseMaps ==
    ASSUME NEW t \in Steps, task \in [Steps -> TaskStates],
           task[t] \in {"queued", "running"}, visible[t] = "none",
           task' = [task EXCEPT ![t] = "finished"], execution'[t] \in Settled,
           \A s \in Steps \ {t} : execution'[s] = execution[s],
           UNCHANGED <<visible, commits, runErr>>, phase # "posts", phase' # "posts"
    PROVE  Ledger!Next
<1> PICK v \in Settled : v = execution'[t]
  OBVIOUS
<1>1. \A s \in Steps \ {t} : Same(s)
  BY DEF Same
<1>2. Entry(t) = "open" /\ Entry(t)' = "closed"
  BY DEF Entry
<1>3. VerdictOf'[t] = v
  BY <1>2 DEF VerdictOf
<1>4. EntryOf' = [EntryOf EXCEPT ![t] = "closed"] /\ VerdictOf' = [VerdictOf EXCEPT ![t] = v]
  BY <1>1, <1>2, <1>3, SameEntry, EntryUpdate
<1>5. EntryOf[t] = "open"
  BY <1>2 DEF EntryOf
<1>6. Ledger!Close(t)
  BY <1>4, <1>5 DEF Ledger!Close, Settled
<1> QED
  BY <1>6 DEF Ledger!Next

\* A step judged where it stands is recorded.
LEMMA RecordMaps ==
    ASSUME NEW t \in Steps, NEW v \in Settled \cup {"skipped"},
           visible \in [Steps -> Conclusions],
           task[t] = "none", visible[t] = "none", task' = task,
           visible' = [visible EXCEPT ![t] = v],
           \A s \in Steps \ {t} : execution'[s] = execution[s],
           commits' = IF v = "skipped" THEN commits ELSE Append(commits, t),
           runErr' = (runErr \/ v \notin {"success", "skipped"}),
           phase # "posts", phase' # "posts"
    PROVE  Ledger!Next
<1>1. \A s \in Steps \ {t} : Same(s)
  BY DEF Same
<1>2. Entry(t) = "absent" /\ Entry(t)' = "visible"
  BY DEF Entry, Settled
<1>3. VerdictOf'[t] = v
  BY <1>2 DEF VerdictOf
<1>4. EntryOf' = [EntryOf EXCEPT ![t] = "visible"] /\ VerdictOf' = [VerdictOf EXCEPT ![t] = v]
  BY <1>1, <1>2, <1>3, SameEntry, EntryUpdate
<1>5. EntryOf[t] = "absent"
  BY <1>2 DEF EntryOf
<1>6. v \in Ledger!Verdicts \ {"none"}
  BY DEF Ledger!Verdicts, Settled
<1>7. Ledger!Record(t)
  BY <1>4, <1>5, <1>6 DEF Ledger!Record
<1> QED
  BY <1>7 DEF Ledger!Next

\* commitCompleted publishes a closed entry.
LEMMA PublishMaps ==
    ASSUME NEW t \in Steps,
           task \in [Steps -> TaskStates], visible \in [Steps -> Conclusions],
           task[t] = "finished", visible[t] = "none", execution[t] \in Settled,
           task' = [task EXCEPT ![t] = "committed"],
           visible' = [visible EXCEPT ![t] = execution[t]],
           execution' = execution, commits' = Append(commits, t),
           runErr' = (runErr \/ execution[t] \notin Forgiven),
           phase # "posts", phase' # "posts"
    PROVE  Ledger!Next
<1>1. \A s \in Steps \ {t} : Same(s)
  BY DEF Same
<1>2. Entry(t) = "closed" /\ Entry(t)' = "visible"
  BY DEF Entry, Settled
<1> PICK v \in Settled : v = execution[t]
  OBVIOUS
<1>3. VerdictOf[t] = v /\ VerdictOf'[t] = v
  BY <1>2 DEF VerdictOf
<1>4. EntryOf' = [EntryOf EXCEPT ![t] = "visible"] /\ VerdictOf' = [VerdictOf EXCEPT ![t] = v]
  BY <1>1, <1>2, <1>3, SameEntry, EntryUpdate
<1>5. VerdictOf' = VerdictOf
  BY <1>3, <1>4 DEF VerdictOf
<1>6. EntryOf[t] = "closed"
  BY <1>2 DEF EntryOf
<1>7. runErr' \in {runErr \/ v = "failure", runErr \/ v # "success"}
  BY DEF Forgiven, Settled
<1>8. Ledger!Publish(t)
  BY <1>3, <1>4, <1>5, <1>6, <1>7 DEF Ledger!Publish
<1> QED
  BY <1>8 DEF Ledger!Next

\* The end of runSteps seals the ledger.
LEMMA SealMaps ==
    ASSUME RInv, LeaveSteps
    PROVE  Ledger!Next
<1>1. /\ UNCHANGED <<task, visible, execution, commits>>
      /\ phase = "drained" /\ phase' = "posts" /\ runErr' = (runErr \/ jobDone)
  BY DEF LeaveSteps, supervisorVars, workerVars
<1>2. \A s \in Steps : Entry(s)' = Entry(s) /\ VerdictOf'[s] = VerdictOf[s]
  BY <1>1, SameEntry DEF Same
<1>3. EntryOf' = EntryOf /\ VerdictOf' = VerdictOf
  BY <1>2 DEF EntryOf, VerdictOf
<1>4. \A s \in Steps : EntryOf[s] \in {"absent", "visible"}
  BY <1>1 DEF RInv, IInv, DrainInv, VisibleInv, Entry, EntryOf
<1>5. runErr' \in {runErr, TRUE}
  BY <1>1 DEF RInv, IInv, TypeOK
<1>6. Ledger!Seal
  BY <1>1, <1>3, <1>4, <1>5 DEF Ledger!Seal
<1> QED
  BY <1>6 DEF Ledger!Next

\* Every operation of the step phase is a step of the ledger or a stutter.
LEMMA LedgerStep ==
    ASSUME RInv, RInv', [Next]_vars
    PROVE  [Ledger!Next]_Ledger!ledgerVars
<1>0. /\ task \in [Steps -> TaskStates] /\ worker \in [Steps -> WorkStages]
      /\ execution \in [Steps -> Conclusions] /\ visible \in [Steps -> Conclusions]
      /\ program \in Programs /\ pc \in 1..(Len(program) + 1)
      /\ barrier \in Seq(Steps) /\ queue \in Seq(Steps) /\ runErr \in BOOLEAN
      /\ Tolerant \in [Steps -> (SUBSET BOOLEAN) \ {{}}]
  BY TolerantAssumption DEF RInv, IInv, TypeOK
<1>r. ASSUME phase = "step" \/ phase = "foreground", pc <= Len(program), Instruction.kind = "run"
      PROVE  /\ Instruction.id \in Steps
             /\ task[Instruction.id] = "none" /\ visible[Instruction.id] = "none"
  <2>1. pc \in 1..Len(program) /\ pc \in pc..Len(program) /\ IsRun(program, pc)
    BY <1>0, <1>r, ProgramLength DEF IsRun, Instruction
  <2>2. Instruction.id \in Steps
    BY <1>0, <1>r, <2>1, InstructionTypes DEF Instruction
  <2>3. visible[Instruction.id] = "none"
    BY <1>r, <2>1 DEF RInv, UnseenInv, Instruction
  <2>4. CASE phase = "foreground"
    BY <2>2, <2>3, <2>4 DEF RInv, IInv, ControlInv
  <2>5. CASE phase = "step"
    BY <2>1, <2>2, <2>3, <2>5 DEF RInv, IInv, FreshInv, Instruction
  <2> QED
    BY <1>r, <2>4, <2>5
<1>1. CASE SkipStep
  <2>1. /\ Instruction.id \in Steps /\ phase = "step"
        /\ task[Instruction.id] = "none" /\ visible[Instruction.id] = "none"
    BY <1>1, <1>r DEF SkipStep, Fetching
  <2> PICK t \in Steps : t = Instruction.id
    BY <2>1
  <2>2. /\ UNCHANGED <<task, execution, commits, runErr, phase>>
        /\ visible' = [visible EXCEPT ![t] = "skipped"]
    BY <1>1 DEF SkipStep, supervisorVars, workerVars
  <2>3. runErr' = (runErr \/ "skipped" \notin {"success", "skipped"})
    BY <2>2, <1>0, SMTT(30)
  <2>4. Ledger!Next
    BY <1>0, <2>1, <2>2, <2>3, RecordMaps
  <2> QED
    BY <2>4
<1>2. CASE RejectStep
  <2>1. /\ Instruction.id \in Steps /\ phase = "step"
        /\ task[Instruction.id] = "none" /\ visible[Instruction.id] = "none"
    BY <1>2, <1>r DEF RejectStep, Fetching
  <2> PICK t \in Steps : t = Instruction.id
    BY <2>1
  <2>2. PICK r \in {"failed", "hard"}, tolerate \in Tolerant[t], done \in {FALSE, jobDone} :
            LET c == Classify(r, "none", done, tolerate) IN
            /\ execution' = [execution EXCEPT ![t] = c]
            /\ visible' = [visible EXCEPT ![t] = c]
            /\ commits' = Append(commits, t)
            /\ runErr' = (runErr \/ c # "success")
    BY <1>2 DEF RejectStep
  <2> DEFINE v == Classify(r, "none", done, tolerate)
  <2>3. v \in Settled
    BY ClassifyFacts
  <2>4. /\ execution' = [execution EXCEPT ![t] = v] /\ visible' = [visible EXCEPT ![t] = v]
        /\ commits' = Append(commits, t) /\ runErr' = (runErr \/ v # "success")
        /\ UNCHANGED <<task, phase>>
    BY <2>2, <1>2 DEF RejectStep, supervisorVars
  <2>5. PICK u \in Settled : u = v
    BY <2>3
  <2>6. /\ visible' = [visible EXCEPT ![t] = u] /\ runErr' = (runErr \/ u \notin {"success", "skipped"})
        /\ commits' = IF u = "skipped" THEN commits ELSE Append(commits, t)
        /\ \A s \in Steps \ {t} : execution'[s] = execution[s]
    BY <1>0, <2>4, <2>5 DEF Settled
  <2>7. Ledger!Next
    BY <1>0, <2>1, <2>4, <2>6, RecordMaps
  <2> QED
    BY <2>7
<1>3. CASE CommitForeground
  <2>1. /\ Instruction.id \in Steps /\ phase = "foreground" /\ phase' = "step"
        /\ task[Instruction.id] = "none" /\ visible[Instruction.id] = "none"
    BY <1>3, <1>r DEF CommitForeground, RInv, IInv, ControlInv
  <2> PICK t \in Steps : t = Instruction.id
    BY <2>1
  <2>2. PICK tolerate \in Tolerant[t] :
            LET c == Classify(result[t], cause[t], jobDone, tolerate) IN
            /\ execution' = [execution EXCEPT ![t] = c]
            /\ visible' = [visible EXCEPT ![t] = c]
            /\ commits' = Append(commits, t)
            /\ runErr' = (runErr \/ c # "success")
    BY <1>3 DEF CommitForeground
  <2> DEFINE v == Classify(result[t], cause[t], jobDone, tolerate)
  <2>3. v \in Settled
    BY ClassifyFacts
  <2>4. /\ execution' = [execution EXCEPT ![t] = v] /\ visible' = [visible EXCEPT ![t] = v]
        /\ commits' = Append(commits, t) /\ runErr' = (runErr \/ v # "success")
        /\ task' = task
    BY <2>2, <1>3 DEF CommitForeground, supervisorVars
  <2>5. PICK u \in Settled : u = v
    BY <2>3
  <2>6. /\ visible' = [visible EXCEPT ![t] = u] /\ runErr' = (runErr \/ u \notin {"success", "skipped"})
        /\ commits' = IF u = "skipped" THEN commits ELSE Append(commits, t)
        /\ \A s \in Steps \ {t} : execution'[s] = execution[s]
    BY <1>0, <2>4, <2>5 DEF Settled
  <2>7. Ledger!Next
    BY <1>0, <2>1, <2>4, <2>6, RecordMaps
  <2> QED
    BY <2>7
<1>4. CASE StartBackground
  BY <1>4, SubmitMaps
<1>5. CASE BeginCancel
  <2>1. Instruction.target \in Steps /\ phase = "step" /\ phase' = "await"
    BY <1>0, <1>5, InstructionTypes DEF BeginCancel, Fetching, Instruction
  <2> PICK t \in Steps : t = Instruction.target
    BY <2>1
  <2>2. UNCHANGED <<visible, commits, runErr>>
    BY <1>5 DEF BeginCancel
  <2>3. CASE Committable(t) /\ task[t] = "queued"
    <3>1. /\ task' = [task EXCEPT ![t] = "finished"]
          /\ execution' = [execution EXCEPT ![t] = "cancelled"]
      BY <2>3, <1>5 DEF BeginCancel
    <3>2. visible[t] = "none"
      BY <2>3 DEF RInv, VisibleInv
    <3>3. execution'[t] \in Settled /\ \A s \in Steps \ {t} : execution'[s] = execution[s]
      BY <1>0, <3>1 DEF Settled
    <3> QED
      BY <1>0, <2>1, <2>2, <2>3, <3>1, <3>2, <3>3, CloseMaps
  <2>4. CASE ~(Committable(t) /\ task[t] = "queued")
    <3>1. UNCHANGED <<task, execution>>
      BY <2>4, <1>5 DEF BeginCancel
    <3> QED
      BY <2>1, <2>2, <3>1, Stutter DEF Same
  <2> QED
    BY <2>3, <2>4
<1>6. CASE CommitNext
  <2>1. /\ Head(barrier) \in Steps /\ execution' = execution
        /\ phase = "await" /\ phase' = "await"
    BY <1>0, <1>6 DEF CommitNext, workerVars
  <2> PICK t \in Steps : t = Head(barrier)
    BY <2>1
  <2>2. CASE Committable(t)
    <3>1. ~Blocks(t)
      BY <1>0, <1>6 DEF CommitNext
    <3>2. task[t] = "finished"
      BY <1>0, <2>2, <3>1 DEF Committable, Blocks, TaskStates
    <3>3. visible[t] = "none" /\ execution[t] \in Settled
      BY <3>2 DEF RInv, VisibleInv
    <3>4. /\ task' = [task EXCEPT ![t] = "committed"]
          /\ visible' = [visible EXCEPT ![t] = execution[t]]
          /\ commits' = Append(commits, t)
          /\ runErr' = (runErr \/ execution[t] \notin Forgiven)
      BY <2>2, <1>6 DEF CommitNext
    <3>5. Ledger!Next
      BY <1>0, <2>1, <3>2, <3>3, <3>4, PublishMaps
    <3> QED
      BY <3>5
  <2>3. CASE ~Committable(t)
    <3>1. UNCHANGED <<task, visible, commits, runErr>>
      BY <2>3, <1>6 DEF CommitNext
    <3> QED
      BY <2>1, <3>1, Stutter DEF Same
  <2> QED
    BY <2>2, <2>3
<1>7. CASE LeaveSteps
  BY <1>7, SealMaps
<1>8. CASE Dispatch
  <2>1. Head(queue) \in Steps /\ UNCHANGED <<visible, commits, runErr, phase>> /\ lock # "free"
    BY <1>0, <1>8 DEF Dispatch, Admissible, jobVars
  <2> PICK t \in Steps : t = Head(queue)
    BY <2>1
  <2>2. task[t] = "queued" /\ visible[t] = "none"
    <3>1. task[t] = "queued"
      BY <1>0, <1>8 DEF Dispatch, Admissible, RInv, IInv, QueueInv
    <3> QED
      BY <3>1 DEF RInv, VisibleInv
  <2>3. phase # "posts"
    BY <2>2 DEF RInv, IInv, DrainInv
  <2>4. CASE cause[t] = "none"
    <3>1. task' = [task EXCEPT ![t] = "running"] /\ execution' = execution
      BY <2>4, <1>8 DEF Dispatch
    <3>2. \A s \in Steps : Same(s)
      BY <1>0, <2>1, <2>2, <3>1 DEF Same
    <3> QED
      BY <2>1, <2>3, <3>2, Stutter
  <2>5. CASE cause[t] # "none"
    <3>1. /\ task' = [task EXCEPT ![t] = "finished"]
          /\ execution' = [execution EXCEPT ![t] = "cancelled"]
      BY <2>5, <1>8 DEF Dispatch
    <3>2. execution'[t] \in Settled /\ \A s \in Steps \ {t} : execution'[s] = execution[s]
      BY <1>0, <3>1 DEF Settled
    <3> QED
      BY <1>0, <2>1, <2>2, <2>3, <3>1, <3>2, CloseMaps
  <2> QED
    BY <2>4, <2>5
<1>9. ASSUME NEW t \in Steps, FinishBackground(t)
      PROVE  [Ledger!Next]_Ledger!ledgerVars
  <2>1. /\ UNCHANGED <<visible, commits, runErr, phase, execution>>
        /\ task' = [task EXCEPT ![t] = "finished"] /\ worker[t] = "classified"
    BY <1>9 DEF FinishBackground, jobVars
  <2>2. task[t] = "running"
    BY <2>1 DEF RInv, IInv, WorkerInv
  <2>3. visible[t] = "none" /\ execution[t] \in Settled /\ phase # "posts"
    BY <2>1, <2>2 DEF RInv, IInv, VisibleInv, DrainInv
  <2> QED
    BY <1>0, <2>1, <2>2, <2>3, CloseMaps
<1>10. ASSUME NEW t \in Steps, ClassifyBackground(t)
       PROVE  [Ledger!Next]_Ledger!ledgerVars
  <2>1. task[t] = "running"
    BY <1>0, <1>10 DEF ClassifyBackground, RInv, IInv, WorkerInv, TaskStates
  <2>2. /\ UNCHANGED <<task, visible, commits, runErr, phase>>
        /\ \A s \in Steps \ {t} : execution'[s] = execution[s]
    BY <1>0, <1>10 DEF ClassifyBackground, jobVars, supervisorVars
  <2>3. phase # "posts"
    BY <2>1 DEF RInv, IInv, DrainInv
  <2>4. \A s \in Steps : Same(s)
    BY <2>1, <2>2 DEF Same
  <2> QED
    BY <2>2, <2>3, <2>4, Stutter
<1>11. ASSUME UNCHANGED <<task, visible, execution, commits, runErr>>,
              phase = "posts" <=> phase' = "posts"
       PROVE  [Ledger!Next]_Ledger!ledgerVars
  <2>1. \A s \in Steps : Same(s)
    BY <1>11 DEF Same
  <2>2. EntryOf' = EntryOf /\ VerdictOf' = VerdictOf
    BY <2>1, SameEntry DEF EntryOf, VerdictOf
  <2> QED
    BY <1>11, <2>2 DEF Ledger!ledgerVars
<1>12. CASE RunForeground \/ BeginWait \/ EndBarrier \/ Unlock
  <2>1. UNCHANGED <<task, visible, execution, commits, runErr>>
    BY <1>12 DEF RunForeground, BeginWait, EndBarrier, Unlock, supervisorVars, workerVars
  <2>2. phase = "posts" <=> phase' = "posts"
    BY <1>12 DEF RunForeground, BeginWait, EndBarrier, Unlock, Fetching, RInv, IInv, ControlInv
  <2> QED
    BY <2>1, <2>2, <1>11
<1>13. CASE CancelJob \/ UNCHANGED vars
  BY <1>13, <1>11 DEF CancelJob, vars, jobVars, supervisorVars, workerVars
<1>14. ASSUME NEW t \in Steps, StepReturns(t) \/ StepTimeout(t)
       PROVE  [Ledger!Next]_Ledger!ledgerVars
  BY <1>14, <1>11 DEF StepReturns, StepTimeout, jobVars, supervisorVars
<1> QED
  BY <1>1, <1>2, <1>3, <1>4, <1>5, <1>6, <1>7, <1>8, <1>9, <1>10, <1>12, <1>13, <1>14
     DEF Next, RunJob, Worker, Terminated

\* The ledger starts empty.
LEMMA LedgerInit == Init => Ledger!Init
<1> SUFFICES ASSUME Init PROVE Ledger!Init
  OBVIOUS
<1>1. \A s \in Steps : Entry(s) = "absent"
  BY DEF Init, Entry
<1>2. EntryOf = [s \in Steps |-> "absent"] /\ VerdictOf = [s \in Steps |-> "none"]
  BY <1>1 DEF EntryOf, VerdictOf
<1> QED
  BY <1>2 DEF Init, Ledger!Init

\* The step phase, with its queue, its slots, its mutex and its contexts,
\* implements the ledger: runSteps and the supervisor never publish a step that
\* has not ended, never publish one twice, never change a verdict, never forget
\* a failure, and leave nothing open behind.
THEOREM StepsImplementLedger == Spec => ImplementsLedger
<1>1. RInv /\ RInv' /\ [Next]_vars => [Ledger!Next]_Ledger!ledgerVars
  BY LedgerStep
<1> QED
  BY LedgerInit, RefinementInvariant, <1>1, PTL DEF Spec, ImplementsLedger, Ledger!Spec
=============================================================================
