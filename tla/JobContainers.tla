---------------------------- MODULE JobContainers ----------------------------
(***************************************************************************)
(* The containers of a job (jobContainerBackend): a network, services, and *)
(* perhaps a container for the steps, with the volumes they mount, all     *)
(* made and removed by docker commands.  A command can fail, and it can    *)
(* fail after it has taken effect; the job can be cancelled while they are *)
(* made, and the time for removing them can run out.  Other jobs of the    *)
(* host use the same volumes.                                              *)
(*                                                                         *)
(* What carries the owner label of the job can be found again by it:       *)
(* containers, the network, and volumes that docker volume create made.    *)
(* A volume that appears when a service is created carries none.           *)
(* Pulling of images with its registry logins, ports and health of         *)
(* services only matter here by failing.                                   *)
(***************************************************************************)
EXTENDS Naturals, Sequences, FiniteSets

CONSTANTS Services,    \* the services in order
          Volume,      \* the named volume each mounts, or nothing
          JobVolumes,  \* the named volumes of the job container, in order
          MaxDockerFaults, \* bound: commands that fail, and the cleanup's deadline
          nothing

jobContainer == "job container"
Ids == {Services[i] : i \in DOMAIN Services} \cup {jobContainer}
Named == ({Volume[s] : s \in Ids \ {jobContainer}} \cup {JobVolumes[i] : i \in DOMAIN JobVolumes})
           \ {nothing}

ASSUME ContainersAssumption ==
    /\ Services \in Seq(DOMAIN Volume) /\ jobContainer \notin DOMAIN Volume
    /\ MaxDockerFaults \in Nat

VARIABLES
    wants,       \* the job runs its steps in a container
    containers,  \* docker: containers with the label
    network,     \* docker: the network exists
    volumes,     \* docker: named volumes
    labels,      \* docker: those of them with the label
    foreign,     \* volumes that others made
    known,       \* services with created set
    container,   \* what b.container names, if containerCreated is set
    existing,    \* existingVolumes
    owned,       \* ownedVolumes
    config,      \* the private docker configuration is on disk
    pc, for,     \* the command that is next, and the service or volume it is for
    interrupted, \* the context of the job has ended
    late,        \* the context of the cleanup has ended
    failed,      \* startJobContainerOrdered returns an error
    dirty,       \* cleanup returns an error
    removed,     \* volumes the cleanup has removed
    dockerFaults

docker == <<containers, network, volumes, labels, foreign>>
backend == <<known, container, existing, owned, config>>
outcome == <<failed, dirty, removed>>
signals == <<wants, interrupted, late>>
dockerVars == <<wants, docker, backend, pc, for, interrupted, late, outcome, dockerFaults>>

Making == {"snapshot", "pull", "network", "create", "reconcile", "track", "run", "prepare",
           "createJob", "startJob"}

ContainersInit ==
    /\ wants \in BOOLEAN
    /\ containers = {} /\ network = FALSE
    /\ volumes \in SUBSET Named /\ labels = {} /\ foreign = volumes
    /\ known = {} /\ container = nothing /\ existing = {} /\ owned = {} /\ config = TRUE
    /\ pc = (IF Services = <<>> THEN "pull" ELSE "snapshot") /\ for = 1
    /\ interrupted = FALSE /\ late = FALSE
    /\ failed = FALSE /\ dirty = FALSE /\ removed = {}
    /\ dockerFaults = 0

-----------------------------------------------------------------------------
(* A docker command (boundedDockerOutput)                                  *)

Interrupted == IF pc \in Making THEN interrupted ELSE late

Succeeds == ~Interrupted /\ UNCHANGED dockerFaults
Fails ==
    \/ Interrupted /\ UNCHANGED dockerFaults
    \/ ~Interrupted /\ dockerFaults < MaxDockerFaults /\ dockerFaults' = dockerFaults + 1

Goto(stage) == pc' = stage /\ for' = 1
Again(stage) == pc' = stage /\ for' = for + 1

\* Start gives up: whatever it made is cleaned up.
Abandon == failed' = TRUE /\ Goto("listVolumes") /\ UNCHANGED <<dirty, removed>>

Mounts(id) == IF id = jobContainer THEN {JobVolumes[i] : i \in DOMAIN JobVolumes}
              ELSE {Volume[id]} \ {nothing}
InUse == UNION {Mounts(id) : id \in containers}

-----------------------------------------------------------------------------
(* startJobContainerOrdered                                                *)

SnapshotVolumes ==
    /\ pc = "snapshot"
    /\ \/ Succeeds /\ existing' = volumes /\ Goto("pull") /\ UNCHANGED outcome
       \/ Fails /\ Abandon /\ UNCHANGED existing
    /\ UNCHANGED <<docker, signals, known, container, owned, config>>

PullImages ==
    /\ pc = "pull"
    /\ \/ Succeeds /\ Goto("network") /\ UNCHANGED outcome
       \/ Fails /\ Abandon
    /\ UNCHANGED <<docker, backend, signals>>

CreateNetwork ==
    /\ pc = "network"
    /\ \/ Succeeds /\ network' = TRUE /\ UNCHANGED outcome
          /\ Goto(IF Services = <<>> THEN "run" ELSE "create")
       \/ Fails /\ network' \in BOOLEAN /\ Abandon
    /\ UNCHANGED <<containers, volumes, labels, foreign, backend, signals>>

\* docker create prints the reference of the container: also where it fails
\* after it made it, sometimes.
CreateService ==
    /\ pc = "create"
    /\ LET s == Services[for]
           Made == containers' = containers \cup {s} /\ volumes' = volumes \cup Mounts(s)
       IN \/ Succeeds /\ Made /\ known' = known \cup {s} /\ pc' = "track" /\ UNCHANGED outcome
          \/ /\ Fails
             /\ \/ Made /\ known' \in {known, known \cup {s}}
                \/ UNCHANGED <<containers, volumes, known>>
             /\ failed' = TRUE /\ pc' = "reconcile"
             /\ UNCHANGED <<dirty, removed>>
    /\ UNCHANGED <<network, labels, foreign, container, existing, owned, config, for, signals>>

ReconcileService ==
    /\ pc = "reconcile"
    /\ \/ Succeeds /\ known' = known \cup (containers \ (known \ {Services[for]}))
       \/ Fails /\ UNCHANGED known
    /\ IF Services[for] \in known' THEN pc' = "track" /\ UNCHANGED <<for, outcome>> ELSE Abandon
    /\ UNCHANGED <<docker, container, existing, owned, config, signals>>

\* Mutant: volumes that were there before the job are taken for its own.
AllMounted(s) == Mounts(s)

\* The volumes of a service that trackServiceVolumes takes for the job's own.
NewVolumes(s) == Mounts(s) \ existing

TrackVolumes ==
    /\ pc = "track"
    /\ \/ /\ Succeeds
          /\ owned' = owned \cup NewVolumes(Services[for])
          /\ IF failed THEN Abandon
                       ELSE /\ IF for = Len(Services) THEN Goto("run") ELSE Again("create")
                            /\ UNCHANGED outcome
       \/ Fails /\ Abandon /\ UNCHANGED owned
    /\ UNCHANGED <<docker, known, container, existing, config, signals>>

\* The services are started, their ports read and their health awaited, which
\* can fail by itself.
RunServices ==
    /\ pc = "run"
    /\ \/ /\ Succeeds /\ UNCHANGED outcome
          /\ Goto(IF ~wants THEN "up" ELSE IF JobVolumes = <<>> THEN "createJob" ELSE "prepare")
       \/ Fails /\ Abandon
       \/ Services # <<>> /\ Abandon /\ UNCHANGED dockerFaults
    /\ UNCHANGED <<docker, backend, signals>>

\* A volume that exists keeps its labels.
PrepareVolume ==
    /\ pc = "prepare"
    /\ LET v == JobVolumes[for]
           Made == /\ volumes' = volumes \cup {v}
                   /\ labels' = IF v \in volumes THEN labels ELSE labels \cup {v}
       IN \/ /\ Succeeds /\ Made /\ UNCHANGED outcome
             /\ IF for = Len(JobVolumes) THEN Goto("createJob") ELSE Again("prepare")
          \/ Fails /\ Abandon /\ (Made \/ UNCHANGED <<volumes, labels>>)
    /\ UNCHANGED <<containers, network, foreign, backend, signals>>

CreateJob ==
    /\ pc = "createJob"
    /\ \/ /\ Succeeds /\ containers' = containers \cup {jobContainer} /\ container' = jobContainer
          /\ Goto("startJob") /\ UNCHANGED outcome
       \/ /\ Fails
          /\ \/ containers' = containers \cup {jobContainer} /\ container' \in {nothing, jobContainer}
             \/ UNCHANGED <<containers, container>>
          /\ failed' = TRUE /\ Goto("reconcileJob") /\ UNCHANGED <<dirty, removed>>
    /\ UNCHANGED <<network, volumes, labels, foreign, known, existing, owned, config, signals>>

\* What carries the label and is no known service is the job container.
Unmatched == containers \ known

FindJob ==
    \/ container # nothing /\ UNCHANGED <<container, dockerFaults>>
    \/ /\ container = nothing /\ Succeeds
       /\ container' = IF Cardinality(Unmatched) = 1 THEN CHOOSE id \in Unmatched : TRUE ELSE nothing
    \/ container = nothing /\ Fails /\ UNCHANGED container

\* With a context of its own, that the cancellation of the job does not end.
ReconcileJob ==
    /\ pc = "reconcileJob"
    /\ FindJob /\ Abandon
    /\ UNCHANGED <<docker, known, existing, owned, config, signals>>

StartJob ==
    /\ pc = "startJob"
    /\ \/ Succeeds /\ Goto("up") /\ UNCHANGED outcome
       \/ Fails /\ Abandon
    /\ UNCHANGED <<docker, backend, signals>>

-----------------------------------------------------------------------------
(* cleanup                                                                 *)

JobEnds ==
    /\ pc = "up"
    /\ Goto("listVolumes")
    /\ UNCHANGED <<docker, backend, signals, outcome, dockerFaults>>

\* Cleanup goes on after an error, and returns it.
Clean  == UNCHANGED <<failed, dirty, removed>>
Report == dirty' = TRUE /\ UNCHANGED <<failed, removed>>

ListVolumes ==
    /\ pc = "listVolumes"
    /\ \/ ~wants /\ UNCHANGED <<owned, dockerFaults>> /\ Clean
       \/ wants /\ Succeeds /\ owned' = owned \cup (labels \cap volumes) /\ Clean
       \/ wants /\ Fails /\ UNCHANGED owned /\ Report
    /\ Goto(IF wants THEN "findJob" ELSE "stop")
    /\ UNCHANGED <<docker, known, container, existing, config, signals>>

FindJobAgain ==
    /\ pc = "findJob"
    /\ FindJob
    /\ IF container = nothing /\ (Cardinality(Unmatched) > 1 \/ dockerFaults' # dockerFaults \/ late)
         THEN Report ELSE Clean
    /\ Goto(IF container' = nothing THEN "stop" ELSE "queryJob")
    /\ UNCHANGED <<docker, known, existing, owned, config, signals>>

QueryJob ==
    /\ pc = "queryJob"
    /\ \/ Succeeds /\ container \notin containers /\ Clean /\ Goto("stop")
       \/ Succeeds /\ container \in containers /\ Clean /\ Goto("removeJob")
       \/ Fails /\ Report /\ Goto("removeJob")
    /\ UNCHANGED <<docker, backend, signals>>

RemoveJob ==
    /\ pc = "removeJob"
    /\ \/ Succeeds /\ containers' = containers \ {container} /\ Clean
       \/ Fails /\ containers' \in {containers, containers \ {container}} /\ Report
    /\ Goto("stop")
    /\ UNCHANGED <<network, volumes, labels, foreign, backend, signals>>

NextService == IF for >= Len(Services) THEN Goto("removeNetwork") ELSE Again("stop")

\* A service that was not seen created is passed over; so is one that a query
\* finds gone.  Else it is queried, stopped and queried again.
StopService ==
    /\ pc = "stop"
    /\ IF for > Len(Services) \/ (for <= Len(Services) /\ Services[for] \notin known)
         THEN NextService /\ Clean /\ UNCHANGED dockerFaults
         ELSE \/ /\ Succeeds /\ Clean
                 /\ IF Services[for] \in containers THEN pc' = "removeService" /\ UNCHANGED for
                                                   ELSE NextService
              \/ Fails /\ Report /\ pc' = "removeService" /\ UNCHANGED for
    /\ UNCHANGED <<docker, backend, signals>>

\* A removal that fails is an error if the container is still there, or if
\* that cannot be found out.
RemoveService ==
    /\ pc = "removeService"
    /\ \/ Succeeds /\ containers' = containers \ {Services[for]} /\ Clean
       \/ /\ Fails
          /\ \/ containers' = containers \ {Services[for]} /\ Clean
             \/ containers' \in {containers, containers \ {Services[for]}} /\ Report
    /\ NextService
    /\ UNCHANGED <<network, volumes, labels, foreign, backend, signals>>

\* A network with containers cannot be removed.
RemoveNetwork ==
    /\ pc = "removeNetwork"
    /\ \/ Succeeds /\ ~network /\ UNCHANGED network /\ Clean
       \/ Succeeds /\ network /\ network' = FALSE /\ Clean
       \/ containers # {} /\ UNCHANGED <<network, dockerFaults>> /\ Report
       \/ Fails /\ network' \in {network, FALSE} /\ Report
    /\ Goto("removeVolumes")
    /\ UNCHANGED <<containers, volumes, labels, foreign, backend, signals>>

\* A volume that a container mounts cannot be removed, be it the container of
\* another job.
RemoveVolumes ==
    /\ pc = "removeVolumes"
    /\ IF owned = {}
         THEN Goto("verify") /\ Clean /\ UNCHANGED <<volumes, dockerFaults>>
         ELSE /\ \E gone \in SUBSET ((owned \cap volumes) \ InUse) :
                   /\ volumes' = volumes \ gone
                   /\ removed' = removed \cup gone
                   /\ \/ Succeeds /\ gone = owned \cap volumes /\ UNCHANGED dirty
                      \/ Fails /\ dirty' = TRUE
                      \/ /\ owned \cap volumes \cap (InUse \cup foreign) # {}
                         /\ ~late /\ dirty' = TRUE /\ UNCHANGED dockerFaults
              /\ UNCHANGED failed
              /\ Goto("verifyVolumes")
    /\ UNCHANGED <<containers, network, labels, foreign, backend, signals>>

VerifyVolumes ==
    /\ pc = "verifyVolumes"
    /\ \/ Succeeds /\ IF owned \cap volumes = {} THEN Clean ELSE Report
       \/ Fails /\ Report
    /\ Goto("verify")
    /\ UNCHANGED <<docker, backend, signals>>


NothingLeft == containers = {} /\ ~network

VerifyRemoved ==
    /\ pc = "verify"
    /\ \/ Succeeds /\ IF NothingLeft THEN Clean ELSE Report
       \/ Fails /\ Report
    /\ Goto("config")
    /\ UNCHANGED <<docker, backend, signals>>

RemoveConfig ==
    /\ pc = "config"
    /\ \/ config' = FALSE /\ Clean /\ UNCHANGED dockerFaults
       \/ dockerFaults < MaxDockerFaults /\ dockerFaults' = dockerFaults + 1 /\ UNCHANGED config /\ Report
    /\ Goto("done")
    /\ UNCHANGED <<docker, known, container, existing, owned, signals>>

-----------------------------------------------------------------------------
InterruptJob ==
    /\ pc \in Making \cup {"reconcileJob", "up"} /\ ~interrupted
    /\ interrupted' = TRUE
    /\ UNCHANGED <<wants, docker, backend, pc, for, late, outcome, dockerFaults>>

Expire ==
    /\ pc \notin Making \cup {"reconcileJob", "up", "done"} /\ ~late
    /\ dockerFaults < MaxDockerFaults /\ dockerFaults' = dockerFaults + 1
    /\ late' = TRUE
    /\ UNCHANGED <<wants, docker, backend, pc, for, interrupted, outcome>>

\* Another job makes a volume.
Others(v) ==
    /\ pc \in Making /\ v \notin volumes
    /\ volumes' = volumes \cup {v} /\ foreign' = foreign \cup {v}
    /\ UNCHANGED <<wants, containers, network, labels, backend, pc, for, interrupted, late,
                   outcome, dockerFaults>>

ContainersOver == pc = "done" /\ UNCHANGED dockerVars

ContainersNext ==
    \/ SnapshotVolumes \/ PullImages \/ CreateNetwork \/ CreateService \/ ReconcileService
    \/ TrackVolumes \/ RunServices \/ PrepareVolume \/ CreateJob \/ ReconcileJob \/ StartJob
    \/ JobEnds \/ ListVolumes \/ FindJobAgain \/ QueryJob \/ RemoveJob \/ StopService
    \/ RemoveService \/ RemoveNetwork \/ RemoveVolumes \/ VerifyVolumes \/ VerifyRemoved \/ RemoveConfig
    \/ InterruptJob \/ Expire
    \/ \E v \in Named : Others(v)
    \/ ContainersOver

ContainersSpec == ContainersInit /\ [][ContainersNext]_dockerVars

-----------------------------------------------------------------------------
(* Properties                                                              *)

Own == volumes \ foreign

\* If cleanup returns no error, nothing of the job is left: no container, no
\* network, no registry login; and no volume, unless the job failed to start
\* and its error says that the volumes of a service could not be inspected.
CleanMeansClean ==
    pc = "done" /\ ~dirty =>
        /\ containers = {} /\ ~network /\ ~config
        /\ labels \cap volumes = {}
        /\ Own # {} => failed

\* Cleanup removes no volume that was there before the job.  One that another
\* job makes meanwhile it removes only if a service of this job mounts it.
ForeignKept ==
    removed \cap foreign \subseteq (UNION {Mounts(s) : s \in Ids \ {jobContainer}}) \ existing

\* cleanup against commands that fail before or after they take effect,
\* cancelled starts, its own deadline and other jobs' volumes: what it leaves
\* behind it reports, and what is not the job's it leaves alone.
CleanupHonest == CleanMeansClean /\ ForeignKept
=============================================================================
