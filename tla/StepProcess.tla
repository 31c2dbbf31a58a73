----------------------------- MODULE StepProcess -----------------------------
(***************************************************************************)
(* The process of a step and its cancellation, on the host and in the job  *)
(* container.  The process leads a process group; it may fork members that *)
(* outlive it, and both may ignore an interrupt and a termination.         *)
(*                                                                         *)
(* On the host (Runner.runCommand) the runner reads the process's output   *)
(* until every writer has gone, and a goroutine terminates the group when  *)
(* the context ends.  In a container (jobContainerBackend.exec) a docker   *)
(* client runs a helper there, which starts the process and publishes its  *)
(* pid in a file; a cancelled runner has a second helper terminate the     *)
(* group.  The two helpers meet through the pid file and a marker, and the *)
(* runner removes both files when it is done.                              *)
(***************************************************************************)
EXTENDS Naturals

CONSTANTS Sites,     \* where processes run: "host", "container"
          Prompt,    \* a container helper gets to publish its pid within
                     \* containerPIDPublicationWait
          MaxProcessFaults \* bound: files and docker commands that fail

ASSUME ProcessAssumption ==
    Sites \subseteq {"host", "container"} /\ Prompt \in BOOLEAN /\ MaxProcessFaults \in Nat

VARIABLES
    site,
    leader,      \* "none", "running" or "over"
    kin,         \* another member of the group runs
    quiet,       \* that member has closed its output
    stopped,     \* the context of the step has ended
    runner,      \* "running", "ending", "stopping" or "returned"
    chaser,      \* who terminates the group: what is next
    helper,      \* the container helper that runs the process
    pidfile, marker,
    reported,    \* the runner returns that it could not terminate the process
    processFaults

group == <<leader, kin, quiet>>
files == <<pidfile, marker>>
processVars == <<site, group, stopped, runner, chaser, helper, files, reported, processFaults>>

ProcessInit ==
    /\ site \in Sites
    /\ leader = (IF site = "host" THEN "running" ELSE "none") /\ kin = FALSE /\ quiet = FALSE
    /\ stopped = FALSE
    /\ runner = "running"
    /\ chaser = IF site = "host" THEN "armed" ELSE "none"
    /\ helper = IF site = "host" THEN "none" ELSE "requested"
    /\ pidfile = FALSE /\ marker = FALSE
    /\ reported = FALSE
    /\ processFaults = 0

Fault == processFaults < MaxProcessFaults /\ processFaults' = processFaults + 1
GroupGone == leader # "running" /\ ~kin

-----------------------------------------------------------------------------
(* The process                                                             *)

Fork ==
    /\ leader = "running" /\ ~kin
    /\ kin' = TRUE /\ quiet' \in BOOLEAN
    /\ UNCHANGED <<site, leader, stopped, runner, chaser, helper, files, reported, processFaults>>

LeaderExits ==
    /\ leader = "running"
    /\ leader' = "over"
    /\ UNCHANGED <<site, kin, quiet, stopped, runner, chaser, helper, files, reported,
                   processFaults>>

KinExits ==
    /\ kin
    /\ kin' = FALSE
    /\ UNCHANGED <<site, leader, quiet, stopped, runner, chaser, helper, files, reported,
                   processFaults>>

CancelStep ==
    /\ ~stopped /\ runner = "running"
    /\ stopped' = TRUE
    /\ UNCHANGED <<site, group, runner, chaser, helper, files, reported, processFaults>>

-----------------------------------------------------------------------------
(* terminateProcessGroupNow                                                *)

\* What a signal leaves of the group.  Members may handle it, or be forked
\* while the group is being signalled; only a kill of the group leaves none.
Signalled(signal) ==
    /\ leader' \in IF signal = "kill" /\ leader = "running" THEN {"over"}
                   ELSE IF leader = "running" THEN {"running", "over"} ELSE {leader}
    /\ kin' \in IF signal = "kill" \/ ~kin THEN {FALSE} ELSE BOOLEAN
    /\ UNCHANGED quiet

\* Mutant: the last signal is one that a process can handle.
NoKill == [interrupt |-> "terminate", terminate |-> "gone"]

Escalation == [interrupt |-> "terminate", terminate |-> "kill", kill |-> "gone"]

\* A signal is followed by a grace in which the group is polled.
SignalGroup ==
    /\ chaser \in DOMAIN Escalation
    /\ Signalled(chaser)
    /\ \/ chaser' = Escalation[chaser]
       \/ leader' # "running" /\ ~kin' /\ chaser' = "gone"
    /\ UNCHANGED <<site, stopped, runner, helper, files, reported, processFaults>>

-----------------------------------------------------------------------------
(* Runner.runCommand                                                       *)

\* terminateProcessGroup: the context ends, or runCommand is finished first.
Chase ==
    /\ site = "host" /\ chaser = "armed" /\ stopped
    /\ chaser' = "interrupt"
    /\ UNCHANGED <<site, group, stopped, runner, helper, files, reported, processFaults>>

\* The process has been waited for and both of its streams have ended.
Drained ==
    /\ site = "host" /\ runner = "running"
    /\ leader = "over" /\ (kin => quiet)
    /\ runner' = "ending"
    /\ UNCHANGED <<site, group, stopped, chaser, helper, files, reported, processFaults>>

FinishCommand ==
    /\ site = "host" /\ runner = "ending" /\ chaser = "armed"
    /\ chaser' = "idle"
    /\ UNCHANGED <<site, group, stopped, runner, helper, files, reported, processFaults>>

RunnerReturns ==
    /\ site = "host" /\ runner = "ending" /\ chaser \in {"idle", "gone"}
    /\ runner' = "returned"
    /\ UNCHANGED <<site, group, stopped, chaser, helper, files, reported, processFaults>>

-----------------------------------------------------------------------------
(* RunContainerProcessHelper "run", started by docker exec                 *)

HelperSteps(from, to) == helper = from /\ helper' = to

HelperStarts ==
    /\ HelperSteps("requested", "checking")
    /\ UNCHANGED <<site, group, stopped, runner, chaser, files, reported, processFaults>>

HelperChecks ==
    /\ \/ marker /\ HelperSteps("checking", "exited") /\ UNCHANGED processFaults
       \/ HelperSteps("checking", "exited") /\ Fault
       \/ ~marker /\ HelperSteps("checking", "spawning") /\ UNCHANGED processFaults
    /\ UNCHANGED <<site, group, stopped, runner, chaser, files, reported>>

HelperSpawns ==
    /\ \/ HelperSteps("spawning", "publishing") /\ leader' = "running" /\ UNCHANGED processFaults
       \/ HelperSteps("spawning", "exited") /\ Fault /\ UNCHANGED leader
    /\ UNCHANGED <<site, kin, quiet, stopped, runner, chaser, files, reported>>

\* If the pid cannot be written the group is killed.
HelperPublishes ==
    /\ \/ HelperSteps("publishing", "rechecking") /\ pidfile' = TRUE /\ UNCHANGED <<group,
                                                                                    processFaults>>
       \/ HelperSteps("publishing", "waiting") /\ Fault /\ Signalled("kill") /\ UNCHANGED pidfile
    /\ UNCHANGED <<site, stopped, runner, chaser, marker, reported>>

\* If it cannot see whether there is a marker it acts as if there were.
HelperRechecks ==
    /\ HelperSteps("rechecking", "waiting")
    /\ \/ marker /\ Signalled("kill") /\ UNCHANGED processFaults
       \/ Signalled("kill") /\ Fault
       \/ ~marker /\ UNCHANGED <<group, processFaults>>
    /\ UNCHANGED <<site, stopped, runner, chaser, files, reported>>

HelperWaits ==
    /\ leader = "over" /\ HelperSteps("waiting", "exited")
    /\ UNCHANGED <<site, group, stopped, runner, chaser, files, reported, processFaults>>

-----------------------------------------------------------------------------
(* jobContainerBackend.exec, and the helper it terminates with             *)

RemoveFiles == pidfile' = FALSE /\ marker' = FALSE

\* The docker client ends with the helper, or fails before it starts one.
ClientDone ==
    /\ site = "container" /\ runner = "running"
    /\ \/ helper = "exited" /\ UNCHANGED <<helper, processFaults>>
       \/ helper = "requested" /\ helper' = "exited" /\ Fault
    /\ runner' = "returned"
    /\ RemoveFiles
    /\ UNCHANGED <<site, group, stopped, chaser, reported>>

Terminate ==
    /\ site = "container" /\ runner = "running" /\ stopped
    /\ runner' = "ending" /\ chaser' = "marking"
    /\ UNCHANGED <<site, group, stopped, helper, files, reported, processFaults>>


Marks == marker' = TRUE

Mark ==
    /\ chaser = "marking"
    /\ \/ Marks /\ chaser' = "polling" /\ UNCHANGED <<reported, processFaults>>
       \/ Fault /\ chaser' = "failed" /\ UNCHANGED <<marker, reported>>
    /\ UNCHANGED <<site, group, stopped, runner, helper, pidfile>>

Unpublished == {"requested", "checking", "spawning", "publishing"}

\* The pid file is polled for containerPIDPublicationWait; without one there is
\* nothing to terminate.
Poll ==
    /\ chaser = "polling"
    /\ \/ pidfile /\ chaser' = "interrupt"
       \/ ~pidfile /\ (Prompt => helper \notin Unpublished) /\ chaser' = "gone"
    /\ UNCHANGED <<site, group, stopped, runner, helper, files, reported, processFaults>>

\* The terminating helper answers, or its docker client does not within its bound.
Terminated ==
    /\ runner = "ending" /\ site = "container"
    /\ \/ chaser = "gone" /\ UNCHANGED <<reported, processFaults>>
       \/ chaser = "failed" /\ reported' = TRUE /\ UNCHANGED processFaults
       \/ Fault /\ reported' = TRUE
    /\ runner' = "stopping"
    /\ UNCHANGED <<site, group, stopped, chaser, helper, files>>

\* The docker client of the process is ended, which does not end the helper it
\* runs in the container, and the files are removed.
StopDocker ==
    /\ runner = "stopping"
    /\ runner' = "returned"
    /\ RemoveFiles
    /\ UNCHANGED <<site, group, stopped, chaser, helper, reported, processFaults>>

ProcessOver == runner = "returned" /\ UNCHANGED processVars

ProcessNext ==
    \/ Fork \/ LeaderExits \/ KinExits \/ CancelStep \/ SignalGroup
    \/ Chase \/ Drained \/ FinishCommand \/ RunnerReturns
    \/ HelperStarts \/ HelperChecks \/ HelperSpawns \/ HelperPublishes \/ HelperRechecks \/ HelperWaits
    \/ ClientDone \/ Terminate \/ Mark \/ Poll \/ Terminated \/ StopDocker
    \/ ProcessOver

ProcessSpec == ProcessInit /\ [][ProcessNext]_processVars

-----------------------------------------------------------------------------
(* Properties                                                              *)

\* Nothing of the process runs, and no helper is about to start it.
Dead == GroupGone /\ helper \notin Unpublished

\* A runner that set out to terminate a cancelled process returns when nothing
\* of its group is left and nothing can start it any more, or reports that it
\* could not (runCommand, exec): a member that outlives its parent, ignores
\* signals or is forked meanwhile notwithstanding, and wherever the helpers are
\* when the cancellation comes.
CancelledProcessesDie ==
    runner = "returned" /\ chaser \notin {"none", "armed", "idle"} /\ ~reported => Dead

\* TestContainerProcessHelperCancelBeforePIDPreventsLateCommandStart: a
\* helper that comes after the cancellation does not start its command.
LateHelperStartsNothing ==
    [][runner = "returned" /\ stopped /\ ~reported
         => ~(leader = "none" /\ leader' = "running")]_processVars
=============================================================================
