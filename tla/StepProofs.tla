------------------------------- MODULE StepProofs -------------------------------
(* Proofs about what runs in a step: the processes of a command and their   *)
(* termination (StepProcess), the containers of a job and what is left of   *)
(* them (JobContainers), the native checkout (Checkout) and the transfers   *)
(* of artifacts (ArtifactTransfer).  For each, an inductive invariant and   *)
(* the property of its runs that follows from it.                           *)
EXTENDS StepProcess, JobContainers, Checkout, ArtifactTransfer,
        FiniteSetTheorems, SequenceTheorems, TLAPS

-----------------------------------------------------------------------------
(* Processes and their termination (StepProcess).                          *)

Helpers == {"none", "requested", "checking", "spawning", "publishing", "rechecking", "waiting", "exited"}
Chasers == {"none", "armed", "idle", "marking", "polling", "failed", "interrupt", "terminate", "kill", "gone"}

ProcessTypeOK ==
    /\ site \in {"host", "container"}
    /\ leader \in {"none", "running", "over"} /\ kin \in BOOLEAN
    /\ runner \in {"running", "ending", "stopping", "returned"}
    /\ chaser \in Chasers /\ helper \in Helpers
    /\ pidfile \in BOOLEAN /\ reported \in BOOLEAN

\* On the host there is no helper, and the runner returns when who terminates
\* the group is idle or done.
HostEnds ==
    site = "host" =>
        /\ helper = "none" /\ ~reported
        /\ chaser \in {"armed", "idle", "interrupt", "terminate", "kill", "gone"}
        /\ runner \in {"running", "ending", "returned"}
        /\ runner = "returned" => chaser \in {"idle", "gone"}
        /\ runner = "running" => chaser # "idle"

\* In a container nobody terminates the group before the runner sets out to,
\* and a runner that has stopped waiting for it has its answer or reports.
ContainerEnds ==
    site = "container" =>
        /\ helper # "none"
        /\ chaser \notin {"armed", "idle"}
        /\ runner = "running" => chaser = "none"
        /\ runner \in {"ending", "stopping"} => chaser # "none"
        /\ runner \in {"stopping", "returned"} => chaser \in {"none", "gone"} \/ reported

\* A process is there only from the helper that starts it; what the helper did
\* not publish it killed, as long as the file is not removed.
HelperHonest ==
    /\ helper \in {"requested", "checking", "spawning"} => leader = "none" /\ ~kin
    /\ pidfile => helper \in {"rechecking", "waiting", "exited"}
    /\ site = "container" /\ runner # "returned" /\ ~pidfile => helper # "rechecking"
    /\ site = "container" /\ runner # "returned" /\ ~pidfile /\ helper \in {"waiting", "exited"} => GroupGone

\* Who signals the group found the pid of a process that is started no more.
Chased ==
    /\ chaser \in {"interrupt", "terminate", "kill"} => helper \notin Unpublished
    /\ chaser = "gone" => reported \/ Dead

ProcessInv == ProcessTypeOK /\ HostEnds /\ ContainerEnds /\ HelperHonest /\ Chased

LEMMA ProcessInitInv == ProcessInit => ProcessInv
BY ProcessAssumption
DEF ProcessInit, ProcessInv, ProcessTypeOK, HostEnds, ContainerEnds, HelperHonest, Chased, Helpers,
    Chasers, GroupGone

\* A signal starts nothing, and a kill leaves nothing.
LEMMA SignalledFacts ==
  ASSUME ProcessTypeOK, NEW signal, Signalled(signal)
  PROVE  /\ leader' \in {"none", "running", "over"} /\ kin' \in BOOLEAN
         /\ leader' = "none" <=> leader = "none"
         /\ leader' = "running" => leader = "running"
         /\ kin' => kin
         /\ signal = "kill" => leader' # "running" /\ ~kin'
BY DEF Signalled, ProcessTypeOK

LEMMA GroupSteps ==
  ASSUME ProcessInv, Fork \/ LeaderExits \/ KinExits \/ CancelStep \/ SignalGroup
  PROVE  ProcessInv'
<1>1. CASE Fork
  BY <1>1
  DEF Fork, ProcessInv, ProcessTypeOK, HostEnds, ContainerEnds, HelperHonest, Chased, GroupGone, Dead, files
<1>2. CASE LeaderExits
  BY <1>2
  DEF LeaderExits, ProcessInv, ProcessTypeOK, HostEnds, ContainerEnds, HelperHonest, Chased, GroupGone,
      Dead, files
<1>3. CASE KinExits
  BY <1>3
  DEF KinExits, ProcessInv, ProcessTypeOK, HostEnds, ContainerEnds, HelperHonest, Chased, GroupGone,
      Dead, files
<1>4. CASE CancelStep
  BY <1>4
  DEF CancelStep, ProcessInv, ProcessTypeOK, HostEnds, ContainerEnds, HelperHonest, Chased, GroupGone,
      Dead, files, group
<1>5. CASE SignalGroup
  <2>1. /\ chaser \in {"interrupt", "terminate", "kill"} /\ Signalled(chaser)
        /\ UNCHANGED <<site, runner, helper, pidfile, reported>>
        /\ chaser' \in {"terminate", "kill", "gone"}
        /\ chaser' = "gone" => chaser = "kill" \/ (leader' # "running" /\ ~kin')
    BY <1>5 DEF SignalGroup, Escalation, files
  <2>2. /\ leader' \in {"none", "running", "over"} /\ kin' \in BOOLEAN
        /\ leader' = "none" <=> leader = "none"
        /\ leader' = "running" => leader = "running"
        /\ kin' => kin
        /\ chaser = "kill" => leader' # "running" /\ ~kin'
    BY <2>1, SignalledFacts DEF ProcessInv
  <2>. QED
    BY <2>1, <2>2
    DEF ProcessInv, ProcessTypeOK, HostEnds, ContainerEnds, HelperHonest, Chased, Chasers, GroupGone, Dead
<1>. QED  BY <1>1, <1>2, <1>3, <1>4, <1>5

LEMMA CommandSteps ==
  ASSUME ProcessInv, Chase \/ Drained \/ FinishCommand \/ RunnerReturns
  PROVE  ProcessInv'
BY DEF Chase, Drained, FinishCommand, RunnerReturns, ProcessInv, ProcessTypeOK, HostEnds, ContainerEnds,
       HelperHonest, Chased, Chasers, GroupGone, Dead, Unpublished, files, group

LEMMA HelperStep ==
  ASSUME ProcessInv,
         \/ HelperStarts \/ HelperChecks \/ HelperSpawns \/ HelperPublishes \/ HelperRechecks \/ HelperWaits
  PROVE  ProcessInv'
<1> USE DEF ProcessInv, ProcessTypeOK, HostEnds, ContainerEnds, HelperHonest, Chased, Helpers, GroupGone,
            Dead, Unpublished, HelperSteps, files, group
<1>1. CASE HelperStarts  BY <1>1 DEF HelperStarts
<1>2. CASE HelperChecks  BY <1>2 DEF HelperChecks
<1>3. CASE HelperSpawns  BY <1>3 DEF HelperSpawns
<1>4. CASE HelperPublishes  BY <1>4, SignalledFacts DEF HelperPublishes
<1>5. CASE HelperRechecks  BY <1>5, SignalledFacts DEF HelperRechecks
<1>6. CASE HelperWaits  BY <1>6 DEF HelperWaits
<1>. QED  BY <1>1, <1>2, <1>3, <1>4, <1>5, <1>6

LEMMA ExecSteps ==
  ASSUME ProcessInv, Prompt, ClientDone \/ Terminate \/ Mark \/ Poll \/ Terminated \/ StopDocker
  PROVE  ProcessInv'
<1> USE DEF ProcessInv, ProcessTypeOK, HostEnds, ContainerEnds, HelperHonest, Chased, Helpers, Chasers,
            GroupGone, Dead, Unpublished, RemoveFiles, files, group
<1>1. CASE ClientDone  BY <1>1 DEF ClientDone
<1>2. CASE Terminate  BY <1>2 DEF Terminate
<1>3. CASE Mark  BY <1>3 DEF Mark
<1>4. CASE Poll  BY <1>4 DEF Poll
<1>5. CASE Terminated  BY <1>5, ZenonT(40) DEF Terminated
<1>6. CASE StopDocker  BY <1>6 DEF StopDocker
<1>. QED  BY <1>1, <1>2, <1>3, <1>4, <1>5, <1>6

LEMMA ProcessStep == Prompt /\ ProcessInv /\ [ProcessNext]_processVars => ProcessInv'
<1> SUFFICES ASSUME Prompt, ProcessInv, [ProcessNext]_processVars PROVE ProcessInv'
  OBVIOUS
<1>1. CASE UNCHANGED processVars
  BY <1>1
  DEF processVars, group, files, ProcessInv, ProcessTypeOK, HostEnds, ContainerEnds, HelperHonest, Chased,
      GroupGone, Dead
<1>. QED
  BY <1>1, GroupSteps, CommandSteps, HelperStep, ExecSteps DEF ProcessNext, ProcessOver

\* Wherever a step runs, and however often files and docker commands fail.
THEOREM ProcessInvariant == Prompt => (ProcessSpec => []ProcessInv)
<1> SUFFICES ASSUME Prompt PROVE ProcessSpec => []ProcessInv
  OBVIOUS
<1>1. ProcessInv /\ [ProcessNext]_processVars => ProcessInv'  BY ProcessStep
<1>. QED  BY <1>1, ProcessInitInv, PTL DEF ProcessSpec

\* A runner that terminated a process returns without an error only when
\* nothing of it runs and nothing can start it, given that a helper in the
\* container gets to publish its pid in time.
THEOREM NothingSurvives == Prompt => (ProcessSpec => []CancelledProcessesDie)
<1> SUFFICES ASSUME Prompt PROVE ProcessSpec => []CancelledProcessesDie
  OBVIOUS
<1>1. ProcessInv => CancelledProcessesDie
  BY DEF ProcessInv, ProcessTypeOK, HostEnds, ContainerEnds, Chased, Dead, CancelledProcessesDie
<1>2. ProcessSpec => []ProcessInv  BY ProcessInvariant
<1>. QED  BY <1>1, <1>2, PTL

-----------------------------------------------------------------------------
(* Containers and volumes of a job (JobContainers).                        *)

\* Where cleanup stands, once the volumes with the label have been listed.
Listed == {"findJob", "queryJob", "removeJob", "stop", "removeService", "removeNetwork", "removeVolumes"}
Removed == {"verifyVolumes", "verify", "config", "done"}
Servicing == {"create", "reconcile", "track"}

ServiceVolumes == UNION {Mounts(s) : s \in Ids \ {jobContainer}}

ContainersTypeOK ==
    /\ pc \in Making \cup {"up", "reconcileJob", "listVolumes"} \cup Listed \cup Removed
    /\ for \in Nat
    /\ pc \in Servicing => for \in DOMAIN Services
    /\ failed \in BOOLEAN /\ dirty \in BOOLEAN /\ wants \in BOOLEAN

\* Volumes are there until cleanup, and a label says that the job made it.
VolumesKnown ==
    /\ pc = "snapshot" => volumes \subseteq foreign
    /\ existing \subseteq foreign /\ labels \cap foreign = {}
    /\ pc \in Making \cup {"up", "reconcileJob", "listVolumes"} => foreign \subseteq volumes /\ labels \subseteq volumes
    /\ pc \in {"prepare", "createJob", "reconcileJob", "startJob"} => wants
    /\ ~wants => labels = {}

\* What the job takes for its own, a service mounts, or it has the label.
OwnedFairly ==
    /\ pc = "snapshot" => owned = {}
    /\ pc \in Making \cup {"up", "reconcileJob", "listVolumes"} =>
         owned \subseteq ServiceVolumes \ existing /\ removed = {}
    /\ owned \cap foreign \subseteq ServiceVolumes \ existing
    /\ removed \subseteq owned

\* A job that has not failed to start knows what volumes it made: of services,
\* those that it has tracked, and what has the label, once that is listed.
OwnKnown ==
    /\ ~failed => Own \subseteq owned \cup labels \cup (IF pc = "track" THEN Mounts(Services[for]) ELSE {})
    /\ pc = "reconcile" => failed
    /\ ~dirty /\ pc \in Listed \cup Removed => labels \cap volumes \subseteq owned
    /\ ~dirty /\ pc \in Removed => owned \cap volumes = {}

\* What the last look found, and what was left of the configuration.
LookedAt ==
    /\ ~dirty /\ pc \in {"config", "done"} => NothingLeft
    /\ ~dirty /\ pc = "done" => ~config

ContainersInv == ContainersTypeOK /\ VolumesKnown /\ OwnedFairly /\ OwnKnown /\ LookedAt

LEMMA ContainersInitInv == ContainersInit => ContainersInv
<1> SUFFICES ASSUME ContainersInit PROVE ContainersInv
  OBVIOUS
<1> USE DEF ContainersInit
<1>1. ContainersTypeOK  BY DEF ContainersTypeOK, Making, Servicing
<1>2. VolumesKnown  BY DEF VolumesKnown
<1>3. OwnedFairly  BY DEF OwnedFairly
<1>4. OwnKnown  BY DEF OwnKnown, Own, Listed, Removed
<1>5. LookedAt  BY DEF LookedAt
<1>. QED  BY <1>1, <1>2, <1>3, <1>4, <1>5 DEF ContainersInv

LEMMA ServiceMounts ==
  ASSUME NEW i \in DOMAIN Services
  PROVE  Mounts(Services[i]) \subseteq ServiceVolumes /\ i \in 1 .. Len(Services) /\ Len(Services) \in Nat
<1>1. Services[i] \in DOMAIN Volume  BY ContainersAssumption
<1>2. Services[i] \in Ids \ {jobContainer}  BY <1>1, ContainersAssumption DEF Ids
<1>3. i \in 1 .. Len(Services) /\ Len(Services) \in Nat  BY ContainersAssumption
<1>. QED  BY <1>2, <1>3 DEF ServiceVolumes

LEMMA MakingSteps ==
  ASSUME ContainersInv,
         \/ SnapshotVolumes \/ PullImages \/ CreateNetwork \/ CreateService \/ ReconcileService
         \/ TrackVolumes \/ RunServices \/ PrepareVolume \/ CreateJob \/ ReconcileJob \/ StartJob
         \/ JobEnds
  PROVE  ContainersInv'
<1>1. CASE SnapshotVolumes
  <2> USE DEF SnapshotVolumes, Abandon, Goto, Again, Making, docker, backend, outcome, signals
  <2>1. ContainersTypeOK'
    <3>1. failed' \in BOOLEAN  BY <1>1 DEF ContainersInv, ContainersTypeOK
    <3>2. dirty' \in BOOLEAN  BY <1>1 DEF ContainersInv, ContainersTypeOK
    <3>3. wants' = wants  BY <1>1
    <3>4. pc' \in {"pull", "listVolumes"} /\ for' \in Nat  BY <1>1 DEF ContainersInv, ContainersTypeOK
    <3>. QED  BY <3>1, <3>2, <3>3, <3>4 DEF ContainersInv, ContainersTypeOK, Servicing, Listed, Removed
  <2>2. VolumesKnown'  BY <1>1 DEF ContainersInv, ContainersTypeOK, VolumesKnown
  <2>3. OwnedFairly'  BY <1>1 DEF ContainersInv, ContainersTypeOK, VolumesKnown, OwnedFairly, Servicing
  <2>4. OwnKnown'  BY <1>1 DEF ContainersInv, ContainersTypeOK, VolumesKnown, OwnKnown, Own, Listed, Removed
  <2>5. LookedAt'  BY <1>1 DEF ContainersInv, ContainersTypeOK, LookedAt, NothingLeft
  <2>. QED  BY <2>1, <2>2, <2>3, <2>4, <2>5 DEF ContainersInv
<1>2. CASE PullImages
  <2> USE DEF PullImages, Abandon, Goto, Again, Making, docker, backend, outcome, signals
  <2>1. ContainersTypeOK'
    <3>1. failed' \in BOOLEAN  BY <1>2 DEF ContainersInv, ContainersTypeOK
    <3>2. dirty' \in BOOLEAN  BY <1>2 DEF ContainersInv, ContainersTypeOK
    <3>3. wants' = wants  BY <1>2
    <3>4. pc' \in {"network", "listVolumes"} /\ for' \in Nat  BY <1>2 DEF ContainersInv, ContainersTypeOK
    <3>. QED  BY <3>1, <3>2, <3>3, <3>4 DEF ContainersInv, ContainersTypeOK, Servicing, Listed, Removed
  <2>2. VolumesKnown'  BY <1>2 DEF ContainersInv, ContainersTypeOK, VolumesKnown
  <2>3. OwnedFairly'  BY <1>2 DEF ContainersInv, ContainersTypeOK, VolumesKnown, OwnedFairly, Servicing
  <2>4. OwnKnown'  BY <1>2 DEF ContainersInv, ContainersTypeOK, VolumesKnown, OwnKnown, Own, Listed, Removed
  <2>5. LookedAt'  BY <1>2 DEF ContainersInv, ContainersTypeOK, LookedAt, NothingLeft
  <2>. QED  BY <2>1, <2>2, <2>3, <2>4, <2>5 DEF ContainersInv
<1>3. CASE CreateNetwork
  <2>0. Services # <<>> => 1 \in DOMAIN Services  BY ContainersAssumption
  <2> USE DEF CreateNetwork, Abandon, Goto, Again, Making, docker, backend, outcome, signals
  <2>1. ContainersTypeOK'
    <3>1. failed' \in BOOLEAN  BY <1>3 DEF ContainersInv, ContainersTypeOK
    <3>2. dirty' \in BOOLEAN  BY <1>3 DEF ContainersInv, ContainersTypeOK
    <3>3. wants' = wants  BY <1>3
    <3>4. pc' \in {"create", "run", "listVolumes"} /\ for' \in Nat  BY <1>3 DEF ContainersInv, ContainersTypeOK
    <3>5. pc' \in Servicing => for' \in DOMAIN Services
      BY <1>3, <2>0, ContainersAssumption DEF ContainersInv, ContainersTypeOK, Servicing
    <3>. QED  BY <3>1, <3>2, <3>3, <3>4, <3>5 DEF ContainersInv, ContainersTypeOK, Servicing, Listed, Removed
  <2>2. VolumesKnown'  BY <1>3, <2>0 DEF ContainersInv, ContainersTypeOK, VolumesKnown
  <2>3. OwnedFairly'  BY <1>3, <2>0 DEF ContainersInv, ContainersTypeOK, VolumesKnown, OwnedFairly, Servicing
  <2>4. OwnKnown'  BY <1>3, <2>0 DEF ContainersInv, ContainersTypeOK, VolumesKnown, OwnKnown, Own, Listed, Removed
  <2>5. LookedAt'  BY <1>3, <2>0 DEF ContainersInv, ContainersTypeOK, LookedAt, NothingLeft
  <2>. QED  BY <2>1, <2>2, <2>3, <2>4, <2>5 DEF ContainersInv
<1>4. CASE CreateService
  BY <1>4, ServiceMounts
  DEF CreateService, ContainersInv, ContainersTypeOK, VolumesKnown, OwnedFairly, OwnKnown, LookedAt, Making, Listed,
      Removed, Servicing, Abandon, Clean, Report, Goto, Again, docker, backend, outcome, signals, Own
<1>5. CASE ReconcileService
  <2> USE DEF ReconcileService, Abandon, Goto, Again, Making, docker, backend, outcome, signals
  <2>1. ContainersTypeOK'
    <3>1. failed' \in BOOLEAN  BY <1>5 DEF ContainersInv, ContainersTypeOK
    <3>2. dirty' \in BOOLEAN  BY <1>5 DEF ContainersInv, ContainersTypeOK
    <3>3. wants' = wants  BY <1>5
    <3>4. pc' \in {"track", "listVolumes"} /\ for' \in Nat  BY <1>5 DEF ContainersInv, ContainersTypeOK
    <3>5. pc' \in Servicing => for' \in DOMAIN Services
      BY <1>5, ContainersAssumption DEF ContainersInv, ContainersTypeOK, Servicing
    <3>. QED  BY <3>1, <3>2, <3>3, <3>4, <3>5 DEF ContainersInv, ContainersTypeOK, Servicing, Listed, Removed
  <2>2. VolumesKnown'  BY <1>5 DEF ContainersInv, ContainersTypeOK, VolumesKnown
  <2>3. OwnedFairly'  BY <1>5 DEF ContainersInv, ContainersTypeOK, VolumesKnown, OwnedFairly, Servicing
  <2>4. OwnKnown'  BY <1>5 DEF ContainersInv, ContainersTypeOK, VolumesKnown, OwnKnown, Own, Listed, Removed
  <2>5. LookedAt'  BY <1>5 DEF ContainersInv, ContainersTypeOK, LookedAt, NothingLeft
  <2>. QED  BY <2>1, <2>2, <2>3, <2>4, <2>5 DEF ContainersInv
<1>6. CASE TrackVolumes
  <2> USE DEF TrackVolumes, Abandon, Goto, Again, Making, docker, backend, outcome, signals, NewVolumes
  <2>1. ContainersTypeOK'
    <3>1. failed' \in BOOLEAN  BY <1>6 DEF ContainersInv, ContainersTypeOK
    <3>2. dirty' \in BOOLEAN  BY <1>6 DEF ContainersInv, ContainersTypeOK
    <3>3. wants' = wants  BY <1>6
    <3>4. pc' \in {"run", "create", "listVolumes"} /\ for' \in Nat  BY <1>6 DEF ContainersInv, ContainersTypeOK
    <3>5. pc' \in Servicing => for' \in DOMAIN Services
      BY <1>6, ServiceMounts, ContainersAssumption DEF ContainersInv, ContainersTypeOK, Servicing
    <3>. QED  BY <3>1, <3>2, <3>3, <3>4, <3>5 DEF ContainersInv, ContainersTypeOK, Servicing, Listed, Removed
  <2>2. VolumesKnown'  BY <1>6, ServiceMounts DEF ContainersInv, ContainersTypeOK, VolumesKnown
  <2>3. OwnedFairly'  BY <1>6, ServiceMounts DEF ContainersInv, ContainersTypeOK, VolumesKnown, OwnedFairly, Servicing
  <2>4. OwnKnown'  BY <1>6, ServiceMounts DEF ContainersInv, ContainersTypeOK, VolumesKnown, OwnKnown, Own, Listed, Removed
  <2>5. LookedAt'  BY <1>6, ServiceMounts DEF ContainersInv, ContainersTypeOK, LookedAt, NothingLeft
  <2>. QED  BY <2>1, <2>2, <2>3, <2>4, <2>5 DEF ContainersInv
<1>7. CASE RunServices
  <2> USE DEF RunServices, Abandon, Goto, Again, Making, docker, backend, outcome, signals
  <2>1. ContainersTypeOK'
    <3>1. failed' \in BOOLEAN  BY <1>7 DEF ContainersInv, ContainersTypeOK
    <3>2. dirty' \in BOOLEAN  BY <1>7 DEF ContainersInv, ContainersTypeOK
    <3>3. wants' = wants  BY <1>7
    <3>4. pc' \in {"up", "createJob", "prepare", "listVolumes"} /\ for' \in Nat  BY <1>7 DEF ContainersInv, ContainersTypeOK
    <3>. QED  BY <3>1, <3>2, <3>3, <3>4 DEF ContainersInv, ContainersTypeOK, Servicing, Listed, Removed
  <2>2. VolumesKnown'  BY <1>7 DEF ContainersInv, ContainersTypeOK, VolumesKnown
  <2>3. OwnedFairly'  BY <1>7 DEF ContainersInv, ContainersTypeOK, VolumesKnown, OwnedFairly, Servicing
  <2>4. OwnKnown'  BY <1>7 DEF ContainersInv, ContainersTypeOK, VolumesKnown, OwnKnown, Own, Listed, Removed
  <2>5. LookedAt'  BY <1>7 DEF ContainersInv, ContainersTypeOK, LookedAt, NothingLeft
  <2>. QED  BY <2>1, <2>2, <2>3, <2>4, <2>5 DEF ContainersInv
<1>8. CASE PrepareVolume
  <2> USE DEF PrepareVolume, Abandon, Goto, Again, Making, docker, backend, outcome, signals
  <2>1. ContainersTypeOK'
    <3>1. failed' \in BOOLEAN  BY <1>8 DEF ContainersInv, ContainersTypeOK
    <3>2. dirty' \in BOOLEAN  BY <1>8 DEF ContainersInv, ContainersTypeOK
    <3>3. wants' = wants  BY <1>8
    <3>4. pc' \in {"createJob", "prepare", "listVolumes"} /\ for' \in Nat  BY <1>8 DEF ContainersInv, ContainersTypeOK
    <3>. QED  BY <3>1, <3>2, <3>3, <3>4 DEF ContainersInv, ContainersTypeOK, Servicing, Listed, Removed
  <2>2. VolumesKnown'  BY <1>8 DEF ContainersInv, ContainersTypeOK, VolumesKnown
  <2>3. OwnedFairly'  BY <1>8 DEF ContainersInv, ContainersTypeOK, VolumesKnown, OwnedFairly, Servicing
  <2>4. OwnKnown'  BY <1>8 DEF ContainersInv, ContainersTypeOK, VolumesKnown, OwnKnown, Own, Listed, Removed
  <2>5. LookedAt'  BY <1>8 DEF ContainersInv, ContainersTypeOK, LookedAt, NothingLeft
  <2>. QED  BY <2>1, <2>2, <2>3, <2>4, <2>5 DEF ContainersInv
<1>9. CASE CreateJob
  <2> USE DEF CreateJob, Abandon, Goto, Again, Making, docker, backend, outcome, signals
  <2>1. ContainersTypeOK'
    <3>1. failed' \in BOOLEAN  BY <1>9 DEF ContainersInv, ContainersTypeOK
    <3>2. dirty' \in BOOLEAN  BY <1>9 DEF ContainersInv, ContainersTypeOK
    <3>3. wants' = wants  BY <1>9
    <3>4. pc' \in {"startJob", "reconcileJob"} /\ for' \in Nat  BY <1>9 DEF ContainersInv, ContainersTypeOK
    <3>. QED  BY <3>1, <3>2, <3>3, <3>4 DEF ContainersInv, ContainersTypeOK, Servicing, Listed, Removed
  <2>2. VolumesKnown'  BY <1>9 DEF ContainersInv, ContainersTypeOK, VolumesKnown
  <2>3. OwnedFairly'  BY <1>9 DEF ContainersInv, ContainersTypeOK, VolumesKnown, OwnedFairly, Servicing
  <2>4. OwnKnown'  BY <1>9 DEF ContainersInv, ContainersTypeOK, VolumesKnown, OwnKnown, Own, Listed, Removed
  <2>5. LookedAt'  BY <1>9 DEF ContainersInv, ContainersTypeOK, LookedAt, NothingLeft
  <2>. QED  BY <2>1, <2>2, <2>3, <2>4, <2>5 DEF ContainersInv
<1>10. CASE ReconcileJob
  BY <1>10
  DEF ReconcileJob, FindJob, ContainersInv, ContainersTypeOK, VolumesKnown, OwnedFairly, OwnKnown, LookedAt, Making, Listed,
      Removed, Servicing, Abandon, Clean, Report, Goto, Again, docker, backend, outcome, signals, Own
<1>11. CASE StartJob
  <2> USE DEF StartJob, Abandon, Goto, Again, Making, docker, backend, outcome, signals
  <2>1. ContainersTypeOK'
    <3>1. failed' \in BOOLEAN  BY <1>11 DEF ContainersInv, ContainersTypeOK
    <3>2. dirty' \in BOOLEAN  BY <1>11 DEF ContainersInv, ContainersTypeOK
    <3>3. wants' = wants  BY <1>11
    <3>4. pc' \in {"up", "listVolumes"} /\ for' \in Nat  BY <1>11 DEF ContainersInv, ContainersTypeOK
    <3>. QED  BY <3>1, <3>2, <3>3, <3>4 DEF ContainersInv, ContainersTypeOK, Servicing, Listed, Removed
  <2>2. VolumesKnown'  BY <1>11 DEF ContainersInv, ContainersTypeOK, VolumesKnown
  <2>3. OwnedFairly'  BY <1>11 DEF ContainersInv, ContainersTypeOK, VolumesKnown, OwnedFairly, Servicing
  <2>4. OwnKnown'  BY <1>11 DEF ContainersInv, ContainersTypeOK, VolumesKnown, OwnKnown, Own, Listed, Removed
  <2>5. LookedAt'  BY <1>11 DEF ContainersInv, ContainersTypeOK, LookedAt, NothingLeft
  <2>. QED  BY <2>1, <2>2, <2>3, <2>4, <2>5 DEF ContainersInv
<1>12. CASE JobEnds
  BY <1>12
  DEF JobEnds, ContainersInv, ContainersTypeOK, VolumesKnown, OwnedFairly, OwnKnown, LookedAt, Making, Listed,
      Removed, Servicing, Abandon, Clean, Report, Goto, Again, docker, backend, outcome, signals, Own
<1>. QED  BY <1>1, <1>2, <1>3, <1>4, <1>5, <1>6, <1>7, <1>8, <1>9, <1>10, <1>11, <1>12

LEMMA CleanupSteps ==
  ASSUME ContainersInv,
         \/ ListVolumes \/ FindJobAgain \/ QueryJob \/ RemoveJob \/ StopService \/ RemoveService
         \/ RemoveNetwork \/ RemoveVolumes \/ VerifyVolumes \/ VerifyRemoved \/ RemoveConfig
  PROVE  ContainersInv'
<1>1. CASE ListVolumes
  BY <1>1
  DEF ListVolumes, ContainersInv, ContainersTypeOK, VolumesKnown, OwnedFairly, OwnKnown, LookedAt, Making, Listed,
      Removed, Servicing, Abandon, Clean, Report, Goto, Again, docker, backend, outcome, signals, Own
<1>2. CASE FindJobAgain
  BY <1>2
  DEF FindJobAgain, FindJob, ContainersInv, ContainersTypeOK, VolumesKnown, OwnedFairly, OwnKnown, LookedAt, Making, Listed,
      Removed, Servicing, Abandon, Clean, Report, Goto, Again, docker, backend, outcome, signals, Own
<1>3. CASE QueryJob
  <2> USE DEF QueryJob, Clean, Report, Goto, Again, Making, docker, backend, outcome, signals
  <2>1. ContainersTypeOK'
    <3>1. failed' \in BOOLEAN  BY <1>3 DEF ContainersInv, ContainersTypeOK
    <3>2. dirty' \in BOOLEAN  BY <1>3 DEF ContainersInv, ContainersTypeOK
    <3>3. wants' = wants  BY <1>3
    <3>4. pc' \in {"stop", "removeJob"} /\ for' \in Nat  BY <1>3 DEF ContainersInv, ContainersTypeOK
    <3>. QED  BY <3>1, <3>2, <3>3, <3>4 DEF ContainersInv, ContainersTypeOK, Servicing, Listed, Removed
  <2>2. VolumesKnown'  BY <1>3 DEF ContainersInv, ContainersTypeOK, VolumesKnown
  <2>3. OwnedFairly'  BY <1>3 DEF ContainersInv, ContainersTypeOK, VolumesKnown, OwnedFairly, Servicing
  <2>4. OwnKnown'  BY <1>3 DEF ContainersInv, ContainersTypeOK, VolumesKnown, OwnKnown, Own, Listed, Removed
  <2>5. LookedAt'  BY <1>3 DEF ContainersInv, ContainersTypeOK, LookedAt, NothingLeft
  <2>. QED  BY <2>1, <2>2, <2>3, <2>4, <2>5 DEF ContainersInv
<1>4. CASE RemoveJob
  BY <1>4
  DEF RemoveJob, ContainersInv, ContainersTypeOK, VolumesKnown, OwnedFairly, OwnKnown, LookedAt, Making, Listed,
      Removed, Servicing, Abandon, Clean, Report, Goto, Again, docker, backend, outcome, signals, Own
<1>5. CASE StopService
  <2> USE DEF StopService, Clean, Report, Goto, Again, Making, docker, backend, outcome, signals, NextService
  <2>1. ContainersTypeOK'
    <3>1. failed' \in BOOLEAN  BY <1>5 DEF ContainersInv, ContainersTypeOK
    <3>2. dirty' \in BOOLEAN  BY <1>5 DEF ContainersInv, ContainersTypeOK
    <3>3. wants' = wants  BY <1>5
    <3>4. pc' \in {"removeNetwork", "stop", "removeService"} /\ for' \in Nat  BY <1>5 DEF ContainersInv, ContainersTypeOK
    <3>. QED  BY <3>1, <3>2, <3>3, <3>4 DEF ContainersInv, ContainersTypeOK, Servicing, Listed, Removed
  <2>2. VolumesKnown'  BY <1>5 DEF ContainersInv, ContainersTypeOK, VolumesKnown
  <2>3. OwnedFairly'  BY <1>5 DEF ContainersInv, ContainersTypeOK, VolumesKnown, OwnedFairly, Servicing
  <2>4. OwnKnown'  BY <1>5 DEF ContainersInv, ContainersTypeOK, VolumesKnown, OwnKnown, Own, Listed, Removed
  <2>5. LookedAt'  BY <1>5 DEF ContainersInv, ContainersTypeOK, LookedAt, NothingLeft
  <2>. QED  BY <2>1, <2>2, <2>3, <2>4, <2>5 DEF ContainersInv
<1>6. CASE RemoveService
  <2> USE DEF RemoveService, Clean, Report, Goto, Again, Making, docker, backend, outcome, signals, NextService
  <2>1. ContainersTypeOK'
    <3>1. failed' \in BOOLEAN  BY <1>6 DEF ContainersInv, ContainersTypeOK
    <3>2. dirty' \in BOOLEAN  BY <1>6 DEF ContainersInv, ContainersTypeOK
    <3>3. wants' = wants  BY <1>6
    <3>4. pc' \in {"removeNetwork", "stop"} /\ for' \in Nat  BY <1>6 DEF ContainersInv, ContainersTypeOK
    <3>. QED  BY <3>1, <3>2, <3>3, <3>4 DEF ContainersInv, ContainersTypeOK, Servicing, Listed, Removed
  <2>2. VolumesKnown'  BY <1>6 DEF ContainersInv, ContainersTypeOK, VolumesKnown
  <2>3. OwnedFairly'  BY <1>6 DEF ContainersInv, ContainersTypeOK, VolumesKnown, OwnedFairly, Servicing
  <2>4. OwnKnown'  BY <1>6 DEF ContainersInv, ContainersTypeOK, VolumesKnown, OwnKnown, Own, Listed, Removed
  <2>5. LookedAt'  BY <1>6 DEF ContainersInv, ContainersTypeOK, LookedAt, NothingLeft
  <2>. QED  BY <2>1, <2>2, <2>3, <2>4, <2>5 DEF ContainersInv
<1>7. CASE RemoveNetwork
  BY <1>7
  DEF RemoveNetwork, ContainersInv, ContainersTypeOK, VolumesKnown, OwnedFairly, OwnKnown, LookedAt, Making, Listed,
      Removed, Servicing, Abandon, Clean, Report, Goto, Again, docker, backend, outcome, signals, Own
<1>8. CASE RemoveVolumes
  <2> USE DEF RemoveVolumes, Clean, Report, Goto, Again, Making, docker, backend, outcome, signals
  <2>1. ContainersTypeOK'
    <3>1. failed' \in BOOLEAN  BY <1>8 DEF ContainersInv, ContainersTypeOK
    <3>2. dirty' \in BOOLEAN  BY <1>8 DEF ContainersInv, ContainersTypeOK
    <3>3. wants' = wants  BY <1>8
    <3>4. pc' \in {"verify", "verifyVolumes"} /\ for' \in Nat  BY <1>8 DEF ContainersInv, ContainersTypeOK
    <3>. QED  BY <3>1, <3>2, <3>3, <3>4 DEF ContainersInv, ContainersTypeOK, Servicing, Listed, Removed
  <2>2. VolumesKnown'  BY <1>8 DEF ContainersInv, ContainersTypeOK, VolumesKnown
  <2>3. OwnedFairly'  BY <1>8 DEF ContainersInv, ContainersTypeOK, VolumesKnown, OwnedFairly, Servicing
  <2>4. OwnKnown'  BY <1>8 DEF ContainersInv, ContainersTypeOK, VolumesKnown, OwnKnown, Own, Listed, Removed
  <2>5. LookedAt'  BY <1>8 DEF ContainersInv, ContainersTypeOK, LookedAt, NothingLeft
  <2>. QED  BY <2>1, <2>2, <2>3, <2>4, <2>5 DEF ContainersInv
<1>9. CASE VerifyVolumes
  BY <1>9
  DEF VerifyVolumes, ContainersInv, ContainersTypeOK, VolumesKnown, OwnedFairly, OwnKnown, LookedAt, Making, Listed,
      Removed, Servicing, Abandon, Clean, Report, Goto, Again, docker, backend, outcome, signals, Own
<1>10. CASE VerifyRemoved
  BY <1>10
  DEF VerifyRemoved, NothingLeft, ContainersInv, ContainersTypeOK, VolumesKnown, OwnedFairly, OwnKnown, LookedAt, Making, Listed,
      Removed, Servicing, Abandon, Clean, Report, Goto, Again, docker, backend, outcome, signals, Own
<1>11. CASE RemoveConfig
  BY <1>11
  DEF RemoveConfig, NothingLeft, ContainersInv, ContainersTypeOK, VolumesKnown, OwnedFairly, OwnKnown, LookedAt, Making, Listed,
      Removed, Servicing, Abandon, Clean, Report, Goto, Again, docker, backend, outcome, signals, Own
<1>. QED  BY <1>1, <1>2, <1>3, <1>4, <1>5, <1>6, <1>7, <1>8, <1>9, <1>10, <1>11

LEMMA ContainersStep == ContainersInv /\ [ContainersNext]_dockerVars => ContainersInv'
<1> SUFFICES ASSUME ContainersInv, [ContainersNext]_dockerVars PROVE ContainersInv'
  OBVIOUS
<1> USE DEF ContainersInv, ContainersTypeOK, VolumesKnown, OwnedFairly, OwnKnown, LookedAt, Making, Listed,
            Removed, Servicing, docker, backend, outcome, signals, Own, NothingLeft
<1>1. CASE InterruptJob  BY <1>1 DEF InterruptJob
<1>2. CASE Expire  BY <1>2 DEF Expire
<1>3. ASSUME NEW v \in Named, Others(v) PROVE ContainersInv'  BY <1>3 DEF Others
<1>4. CASE UNCHANGED dockerVars  BY <1>4 DEF dockerVars
<1>. QED
  BY <1>1, <1>2, <1>3, <1>4, MakingSteps, CleanupSteps DEF ContainersNext, ContainersOver

\* Whatever docker commands fail, before or after they take effect, whenever
\* the job is cancelled and whatever volumes other jobs make.
THEOREM ContainersInvariant == ContainersSpec => []ContainersInv
BY ContainersInitInv, ContainersStep, PTL DEF ContainersSpec

LEMMA InvariantIsHonest == ContainersInv => CleanupHonest
<1> SUFFICES ASSUME ContainersInv PROVE CleanupHonest
  OBVIOUS
<1>1. CleanMeansClean
  <2> SUFFICES ASSUME pc = "done", ~dirty
               PROVE  /\ containers = {} /\ ~network /\ ~config
                      /\ labels \cap volumes = {}
                      /\ Own # {} => failed
    BY DEF CleanMeansClean
  <2>1. containers = {} /\ ~network /\ ~config  BY DEF ContainersInv, LookedAt, NothingLeft
  <2>2. labels \cap volumes \subseteq owned /\ owned \cap volumes = {}
    BY DEF ContainersInv, OwnKnown, Removed
  <2>3. ~failed => Own \subseteq owned \cup labels  BY DEF ContainersInv, OwnKnown
  <2>. QED  BY <2>1, <2>2, <2>3 DEF Own
<1>2. ForeignKept
  <2>1. removed \cap foreign \subseteq ServiceVolumes \ existing  BY DEF ContainersInv, OwnedFairly
  <2>. QED  BY <2>1 DEF ForeignKept, ServiceVolumes
<1>. QED  BY <1>1, <1>2 DEF CleanupHonest

\* A cleanup that reports nothing has left nothing of the job, and none has
\* removed a volume that was there before it.
THEOREM CleanupIsHonest == ContainersSpec => []CleanupHonest
BY ContainersInvariant, InvariantIsHonest, PTL

-----------------------------------------------------------------------------
(* Checkouts (Checkout).                                                   *)

\* A checkout from the command after the remote is added, from its fetch, and
\* from its git checkout.
Checked == {"sync", "update", "status", "verify", "done"}
Fetched == Checked \cup {"fetch lfs", "sparse", "checkout"}
Taken   == Fetched \cup {"install", "fetch"}
Ended   == {"done", "failed"}

\* A commit that the checkout may leave.
Right(c, commit) == IF IsBranch(In(c)) THEN commit \in tips[c] ELSE commit = Selected(In(c))

\* What a checkout has done to its directory r when its next command is next.
Fits(c, next, r) ==
    LET s == In(c)
    IN /\ next \in Taken => r.origin = TRUE
       /\ next \in Fetched => (r.partial <=> Filter(s)) /\ Right(c, r.at[FetchTarget(s)])
       /\ next \in {"sparse", "checkout"} /\ s.lfs => r.large \/ s.sparse # "no"
       /\ next \in Checked \cup {"checkout"} => (r.sparse <=> s.sparse # "no")
       /\ next \in Checked => Right(c, r.head)
       /\ next = "status" => r.modules \in {s.submodules, "some"}
       /\ next \in {"verify", "done"} /\ s.submodules # "no" => r.modules = s.submodules

Progress(c) == Fits(c, doing[c], repo[At(c)])

\* What it says of it, and what it knows of the branch.
Reported(c) ==
    /\ output[c] = IF doing[c] = "done" /\ HasOutputs(In(c).release)
                     THEN [ref |-> RefOutput(In(c)), commit |-> repo[At(c)].head] ELSE NoOutput
    /\ doing[c] # "validate" => c \in running
    /\ c \in running /\ doing[c] \notin Ended => tip \in tips[c]

\* A directory belongs to the checkout that added the remote.
Apart == \A c, e \in Checkouts : c # e /\ doing[c] \in Taken /\ doing[e] \in Taken => At(c) # At(e)

IsRepo(r) ==
    /\ r = [made |-> r.made, origin |-> r.origin, has |-> r.has, at |-> r.at, partial |-> r.partial,
            large |-> r.large, sparse |-> r.sparse, head |-> r.head, modules |-> r.modules]
    /\ r.partial \in BOOLEAN /\ r.large \in BOOLEAN /\ r.sparse \in BOOLEAN

CheckoutTypeOK ==
    /\ job \in CheckoutJobs
    /\ doing = [c \in Checkouts |-> doing[c]]
    /\ repo = [p \in Places |-> repo[p]] /\ \A p \in Places : IsRepo(repo[p])
    /\ tips = [c \in Checkouts |-> tips[c]]
    /\ output = [c \in Checkouts |-> output[c]]

CheckoutInv ==
    /\ CheckoutTypeOK /\ Apart /\ given = needed
    /\ \A c \in Checkouts : Progress(c) /\ Reported(c)

\* Two states of a directory that differ at most in whether it is made.
Same(r, q) ==
    /\ r.origin = q.origin /\ r.at = q.at /\ r.partial = q.partial /\ r.large = q.large
    /\ r.sparse = q.sparse /\ r.head = q.head /\ r.modules = q.modules

LEMMA CheckoutInitInv == CheckoutInit => CheckoutInv
<1> SUFFICES ASSUME CheckoutInit PROVE CheckoutInv
  OBVIOUS
<1>1. /\ job \in CheckoutJobs /\ given = {} /\ needed = {} /\ running = {}
      /\ repo = [p \in Places |-> NoRepo] /\ doing = [c \in Checkouts |-> "validate"]
      /\ tips = [c \in Checkouts |-> {}] /\ output = [c \in Checkouts |-> NoOutput]
  BY DEF CheckoutInit
<1>2. CheckoutTypeOK  BY <1>1 DEF CheckoutTypeOK, IsRepo, NoRepo
<1>3. \A c \in Checkouts : doing[c] = "validate" /\ output[c] = NoOutput  BY <1>1
<1>4. Apart  BY <1>3 DEF Apart, Taken, Fetched, Checked
<1>5. \A c \in Checkouts : Progress(c)  BY <1>3 DEF Progress, Fits, Taken, Fetched, Checked
<1>6. \A c \in Checkouts : Reported(c)  BY <1>1, <1>3 DEF Reported
<1>. QED  BY <1>1, <1>2, <1>4, <1>5, <1>6 DEF CheckoutInv

\* A step of one checkout, in its directory.
Advances(c, next) ==
    /\ job' = job /\ tip' = tip /\ running \subseteq running' /\ running' \subseteq running \cup {c}
    /\ doing' = [doing EXCEPT ![c] = next]
    /\ \A p \in Places : p # At(c) => repo'[p] = repo[p]
    /\ \A e \in Checkouts : e # c => tips'[e] = tips[e] /\ output'[e] = output[e]
    /\ \/ Same(repo'[At(c)], repo[At(c)])
       \/ doing[c] \in Taken
       \/ doing[c] = "remote" /\ repo[At(c)].origin # TRUE
    /\ next \in Taken => doing[c] \in Taken \/ (doing[c] = "remote" /\ repo[At(c)].origin # TRUE)

LEMMA CheckoutFacts ==
  ASSUME CheckoutInv, NEW c \in Checkouts
  PROVE  /\ At(c) \in Places /\ In(c).ref # "origin" /\ IsRepo(repo[At(c)])
         /\ \A next : doing' = [doing EXCEPT ![c] = next] => doing'[c] = next
         /\ \A next : doing' = [doing EXCEPT ![c] = next] => \A e \in Checkouts : e # c => doing'[e] = doing[e]
         /\ \A next : doing' = [doing EXCEPT ![c] = next] => doing' = [e \in Checkouts |-> doing'[e]]
<1>1. job \in CheckoutJobs /\ doing = [e \in Checkouts |-> doing[e]]  BY DEF CheckoutInv, CheckoutTypeOK
<1>2. At(c) \in Places /\ In(c).ref # "origin"
  BY <1>1, CheckoutAssumption DEF At, In, Checkouts
<1>3. IsRepo(repo[At(c)])  BY <1>2 DEF CheckoutInv, CheckoutTypeOK
<1>. QED  BY <1>1, <1>2, <1>3

LEMMA OthersKeep ==
  ASSUME CheckoutInv, NEW c \in Checkouts, NEW next, Advances(c, next)
  PROVE  Apart' /\ \A e \in Checkouts : e # c => Progress(e)' /\ Reported(e)'
<1>1. /\ \A e \in Checkouts : In(e)' = In(e) /\ At(e)' = At(e) /\ At(e) \in Places
      /\ Checkouts' = Checkouts /\ doing'[c] = next
      /\ \A e \in Checkouts : e # c => doing'[e] = doing[e]
  BY CheckoutFacts DEF Advances, In, At, Checkouts
<1>2. ASSUME NEW e \in Checkouts, e # c, doing[e] \in Taken, next \in Taken PROVE At(e) # At(c)
  <2>1. CASE doing[c] \in Taken  BY <1>2, <2>1 DEF CheckoutInv, Apart
  <2>2. CASE repo[At(c)].origin # TRUE
    <3>1. repo[At(e)].origin = TRUE  BY <1>2 DEF CheckoutInv, Progress, Fits
    <3>. QED  BY <2>2, <3>1
  <2>. QED  BY <1>2, <2>1, <2>2 DEF Advances
<1>3. Apart'
  BY <1>1, <1>2 DEF Apart, CheckoutInv
<1>4. ASSUME NEW e \in Checkouts, e # c, doing[e] \in Taken PROVE Same(repo'[At(e)], repo[At(e)])
  <2>1. CASE At(e) # At(c)  BY <1>1, <2>1 DEF Advances, Same
  <2>2. CASE At(e) = At(c)
    <3>1. doing[c] \notin Taken  BY <1>4, <2>2 DEF CheckoutInv, Apart
    <3>2. repo[At(e)].origin = TRUE  BY <1>4 DEF CheckoutInv, Progress, Fits
    <3>. QED  BY <2>2, <3>1, <3>2 DEF Advances
  <2>. QED  BY <2>1, <2>2
<1>5. ASSUME NEW e \in Checkouts, e # c PROVE Progress(e)' /\ Reported(e)'
  <2>1. Progress(e) /\ Reported(e)  BY DEF CheckoutInv
  <2>2. doing'[e] = doing[e] /\ tips'[e] = tips[e] /\ output'[e] = output[e] /\ In(e)' = In(e) /\ At(e)' = At(e)
    BY <1>1, <1>5 DEF Advances
  <2>3. tip' = tip /\ (e \in running' <=> e \in running)  BY <1>5 DEF Advances
  <2>4. CASE doing[e] \notin Taken
    <3>1. Progress(e)'  BY <2>2, <2>4 DEF Progress, Fits, Taken, Fetched, Checked
    <3>2. Reported(e)'  BY <2>1, <2>2, <2>3, <2>4 DEF Reported, Taken, Fetched, Checked
    <3>. QED  BY <3>1, <3>2
  <2>5. CASE doing[e] \in Taken
    <3>1. Same(repo'[At(e)], repo[At(e)])  BY <1>4, <1>5, <2>5
    <3>2. \A x : Right(e, x)' <=> Right(e, x)  BY <2>2 DEF Right
    <3>3. Progress(e)'  BY <2>1, <2>2, <3>1, <3>2 DEF Progress, Fits, Same
    <3>4. Reported(e)'  BY <2>1, <2>2, <2>3, <3>1 DEF Reported, Same
    <3>. QED  BY <3>3, <3>4
  <2>. QED  BY <2>4, <2>5
<1>. QED  BY <1>3, <1>5

LEMMA Combined ==
  ASSUME CheckoutInv, NEW c \in Checkouts, NEW next, Advances(c, next),
         repo' = [p \in Places |-> repo'[p]], IsRepo(repo'[At(c)]),
         tips' = [e \in Checkouts |-> tips'[e]], output' = [e \in Checkouts |-> output'[e]],
         given' = needed', Progress(c)', Reported(c)'
  PROVE  CheckoutInv'
<1>1. job' = job /\ Checkouts' = Checkouts  BY DEF Advances, Checkouts
<1>2. doing' = [e \in Checkouts |-> doing'[e]]  BY CheckoutFacts DEF Advances
<1>3. \A p \in Places : IsRepo(repo'[p])  BY DEF Advances, CheckoutInv, CheckoutTypeOK
<1>4. CheckoutTypeOK'  BY <1>1, <1>2, <1>3 DEF CheckoutTypeOK, CheckoutInv, IsRepo
<1>5. Apart' /\ \A e \in Checkouts : e # c => Progress(e)' /\ Reported(e)'  BY OthersKeep
<1>. QED  BY <1>1, <1>4, <1>5 DEF CheckoutInv

\* A command that turns the directory into r.
LEMMA Advanced ==
  ASSUME CheckoutInv, NEW c \in Checkouts, NEW next, NEW r,
         doing[c] \notin Ended \cup {"validate"}, next # "done",
         job' = job, running' = running, tip' = tip, tips' = tips, output' = output, given' = needed',
         doing' = [doing EXCEPT ![c] = next], repo' = [repo EXCEPT ![At(c)] = r],
         IsRepo(r), Fits(c, next, r),
         Same(r, repo[At(c)]) \/ doing[c] \in Taken \/ (doing[c] = "remote" /\ repo[At(c)].origin # TRUE),
         next \in Taken => doing[c] \in Taken \/ (doing[c] = "remote" /\ repo[At(c)].origin # TRUE)
  PROVE  CheckoutInv'
<1>1. At(c) \in Places /\ doing'[c] = next  BY CheckoutFacts
<1>2. repo = [p \in Places |-> repo[p]] /\ tips = [e \in Checkouts |-> tips[e]] /\ output = [e \in Checkouts |-> output[e]]
  BY DEF CheckoutInv, CheckoutTypeOK
<1>3. repo'[At(c)] = r /\ repo' = [p \in Places |-> repo'[p]] /\ \A p \in Places : p # At(c) => repo'[p] = repo[p]
  BY <1>1, <1>2
<1>4. Advances(c, next)  BY <1>3 DEF Advances
<1>5. At(c)' = At(c) /\ In(c)' = In(c)  BY DEF At, In
<1>6. Progress(c)'
  <2>1. doing'[c] = next /\ repo'[At(c)'] = r  BY <1>1, <1>3, <1>5
  <2>2. Fits(c, doing'[c], repo'[At(c)'])  BY <2>1
  <2>3. \A x : Right(c, x)' <=> Right(c, x)  BY <1>5 DEF Right
  <2>. QED  BY <2>2, <2>3, <1>5 DEF Progress, Fits
<1>7. Reported(c)'
  <2>1. Reported(c)  BY DEF CheckoutInv
  <2>2. output[c] = NoOutput /\ c \in running /\ tip \in tips[c]  BY <2>1 DEF Reported, Ended
  <2>. QED  BY <2>2, <1>1 DEF Reported
<1>. QED  BY <1>2, <1>3, <1>4, <1>6, <1>7, Combined

LEMMA Failed ==
  ASSUME CheckoutInv, NEW c \in Checkouts, doing[c] \notin Ended \cup {"validate"},
         UNCHANGED <<job, running, tip, tips, output, repo>>, given' = needed', Continue(c, "failed")
  PROVE  CheckoutInv'
<1>1. IsRepo(repo[At(c)])  BY CheckoutFacts
<1>2. repo' = [repo EXCEPT ![At(c)] = repo[At(c)]]  BY DEF CheckoutInv, CheckoutTypeOK
<1>3. Fits(c, "failed", repo[At(c)])  BY DEF Fits, Taken, Fetched, Checked
<1>4. Same(repo[At(c)], repo[At(c)])  BY DEF Same
<1>5. "failed" \notin Taken  BY DEF Taken, Fetched, Checked
<1>. QED  BY <1>1, <1>2, <1>3, <1>4, <1>5, Advanced DEF Continue

\* A command has the credential exactly when it reaches the provider, so
\* what remains of the step is what it does.
LEMMA CommandFacts ==
  ASSUME CheckoutInv, NEW c \in Checkouts, NEW name, NEW with \in BOOLEAN, NEW reaches \in BOOLEAN,
         name \notin Ended \cup {"validate"}, Command(c, name, with, reaches), with <=> reaches
  PROVE  /\ doing[c] = name /\ doing[c] \notin Ended \cup {"validate"} /\ given' = needed'
         /\ UNCHANGED <<job, running, tip, tips, output>>
BY DEF Command, CheckoutInv

LEMMA CommandFails ==
  ASSUME CheckoutInv, NEW c \in Checkouts, doing[c] \notin Ended \cup {"validate"}, given' = needed',
         UNCHANGED <<job, running, tip, tips, output>>, Breaks(c) \/ FailsAt(c)
  PROVE  CheckoutInv'
BY Failed DEF Breaks, FailsAt, Files

\* A directory in which a command has changed something.
LEMMA RepoChange ==
  ASSUME NEW r, IsRepo(r), NEW x
  PROVE  /\ [r EXCEPT !.made = x] = [made |-> x, origin |-> r.origin, has |-> r.has, at |-> r.at, partial |-> r.partial, large |-> r.large, sparse |-> r.sparse, head |-> r.head, modules |-> r.modules]
         /\ [r EXCEPT !.origin = x] = [made |-> r.made, origin |-> x, has |-> r.has, at |-> r.at, partial |-> r.partial, large |-> r.large, sparse |-> r.sparse, head |-> r.head, modules |-> r.modules]
         /\ [r EXCEPT !.at = x] = [made |-> r.made, origin |-> r.origin, has |-> r.has, at |-> x, partial |-> r.partial, large |-> r.large, sparse |-> r.sparse, head |-> r.head, modules |-> r.modules]
         /\ [r EXCEPT !.partial = x] = [made |-> r.made, origin |-> r.origin, has |-> r.has, at |-> r.at, partial |-> x, large |-> r.large, sparse |-> r.sparse, head |-> r.head, modules |-> r.modules]
         /\ [r EXCEPT !.large = x] = [made |-> r.made, origin |-> r.origin, has |-> r.has, at |-> r.at, partial |-> r.partial, large |-> x, sparse |-> r.sparse, head |-> r.head, modules |-> r.modules]
         /\ [r EXCEPT !.sparse = x] = [made |-> r.made, origin |-> r.origin, has |-> r.has, at |-> r.at, partial |-> r.partial, large |-> r.large, sparse |-> x, head |-> r.head, modules |-> r.modules]
         /\ [r EXCEPT !.head = x] = [made |-> r.made, origin |-> r.origin, has |-> r.has, at |-> r.at, partial |-> r.partial, large |-> r.large, sparse |-> r.sparse, head |-> x, modules |-> r.modules]
         /\ [r EXCEPT !.modules = x] = [made |-> r.made, origin |-> r.origin, has |-> r.has, at |-> r.at, partial |-> r.partial, large |-> r.large, sparse |-> r.sparse, head |-> r.head, modules |-> x]
<1>1. r = [made |-> r.made, origin |-> r.origin, has |-> r.has, at |-> r.at, partial |-> r.partial, large |-> r.large, sparse |-> r.sparse, head |-> r.head, modules |-> r.modules]
  BY DEF IsRepo
<1>. QED  BY <1>1

LEMMA InitGitStep == ASSUME CheckoutInv, NEW c \in Checkouts, InitGit(c) PROVE CheckoutInv'
<1>1. doing[c] = "init" /\ doing[c] \notin Ended \cup {"validate"} /\ given' = needed' /\ UNCHANGED <<job, running, tip, tips, output>>
  BY CommandFacts DEF InitGit, Ended
<1>2. CASE Breaks(c)  BY <1>1, <1>2, CommandFails
<1>3. ASSUME Does(c, [repo[At(c)] EXCEPT !.made = TRUE], "remote") PROVE CheckoutInv'
  <2> DEFINE r == repo[At(c)]
             q == [r EXCEPT !.made = TRUE]
  <2>1. IsRepo(r)  BY CheckoutFacts
  <2>2. q = [made |-> TRUE, origin |-> r.origin, has |-> r.has, at |-> r.at, partial |-> r.partial, large |-> r.large, sparse |-> r.sparse, head |-> r.head, modules |-> r.modules]
    BY <2>1, RepoChange
  <2> HIDE DEF q
  <2>5. IsRepo(q) /\ Same(q, r)  BY <2>1, <2>2 DEF IsRepo, Same
  <2>3. Fits(c, "remote", q)  BY DEF Fits, Taken, Fetched, Checked
  <2>4. "remote" \notin Taken  BY DEF Taken, Fetched, Checked
  <2>. QED  BY <1>1, <1>3, <2>5, <2>3, <2>4, Advanced DEF Does, Continue, q
<1>. QED  BY <1>2, <1>3 DEF InitGit

LEMMA AddRemoteStep == ASSUME CheckoutInv, NEW c \in Checkouts, AddRemote(c) PROVE CheckoutInv'
<1>1. doing[c] = "remote" /\ doing[c] \notin Ended \cup {"validate"} /\ given' = needed' /\ UNCHANGED <<job, running, tip, tips, output>>
  BY CommandFacts DEF AddRemote, Ended
<1>2. CASE Breaks(c) \/ FailsAt(c)  BY <1>1, <1>2, CommandFails
<1> DEFINE next == IF In(c).lfs THEN "install" ELSE "fetch"
<1>3. ASSUME repo[At(c)].origin # TRUE, Does(c, [repo[At(c)] EXCEPT !.origin = TRUE], next) PROVE CheckoutInv'
  <2> DEFINE r == repo[At(c)]
             q == [r EXCEPT !.origin = TRUE]
  <2>1. IsRepo(r)  BY CheckoutFacts
  <2>5. q = [made |-> r.made, origin |-> TRUE, has |-> r.has, at |-> r.at, partial |-> r.partial, large |-> r.large, sparse |-> r.sparse, head |-> r.head, modules |-> r.modules]
    BY <2>1, RepoChange
  <2> HIDE DEF q
  <2>2. IsRepo(q) /\ q.origin = TRUE  BY <2>1, <2>5 DEF IsRepo
  <2>3. next \in {"install", "fetch"}  OBVIOUS
  <2>4. Fits(c, next, q)  BY <2>2, <2>3 DEF Fits, Taken, Fetched, Checked
  <2> HIDE DEF next
  <2>. QED  BY <1>1, <1>3, <2>2, <2>3, <2>4, Advanced DEF Does, Continue, q
<1>. QED  BY <1>2, <1>3 DEF AddRemote

LEMMA InstallLFSStep == ASSUME CheckoutInv, NEW c \in Checkouts, InstallLFS(c) PROVE CheckoutInv'
<1>1. doing[c] = "install" /\ doing[c] \notin Ended \cup {"validate"} /\ given' = needed' /\ UNCHANGED <<job, running, tip, tips, output>>
  BY CommandFacts DEF InstallLFS, Ended
<1>2. CASE Breaks(c)  BY <1>1, <1>2, CommandFails
<1>3. ASSUME Does(c, repo[At(c)], "fetch") PROVE CheckoutInv'
  <2>1. IsRepo(repo[At(c)])  BY CheckoutFacts
  <2>2. doing[c] \in Taken  BY <1>1 DEF Taken
  <2>3. Fits(c, "fetch", repo[At(c)])
    BY <2>2 DEF CheckoutInv, Progress, Fits, Taken, Fetched, Checked
  <2>. QED  BY <1>1, <1>3, <2>1, <2>2, <2>3, Advanced DEF Does, Continue
<1>. QED  BY <1>2, <1>3 DEF InstallLFS

LEMMA FetchRefsStep == ASSUME CheckoutInv, NEW c \in Checkouts, FetchRefs(c) PROVE CheckoutInv'
<1>1. doing[c] = "fetch" /\ doing[c] \notin Ended \cup {"validate"} /\ given' = needed' /\ UNCHANGED <<job, running, tip, tips, output>>
  BY CommandFacts DEF FetchRefs, Ended
<1>2. CASE Breaks(c)  BY <1>1, <1>2, CommandFails
<1> DEFINE s == In(c)
           names == {FetchTarget(s)} \cup (IF Depth(s) = "0" THEN {"origin"} ELSE {})
           refs == [n \in names |-> IF n = "origin" THEN tip ELSE n]
           r == repo[At(c)]
           q == [r EXCEPT !.at = refs, !.partial = Filter(s)]
           next == IF s.lfs /\ s.sparse = "no" THEN "fetch lfs" ELSE "sparse"
<1>3. ASSUME Does(c, q, next) PROVE CheckoutInv'
  <2>1. IsRepo(r) /\ s.ref # "origin"  BY CheckoutFacts
  <2>2. doing[c] \in Taken /\ r.origin = TRUE
    BY <1>1 DEF CheckoutInv, Progress, Fits, Taken
  <2>3. Right(c, refs[FetchTarget(s)])
    <3>1. CASE IsBranch(s)
      <4>1. refs[FetchTarget(s)] = tip  BY <3>1 DEF FetchTarget
      <4>2. tip \in tips[c]  BY <1>1 DEF CheckoutInv, Reported, Ended
      <4>. QED  BY <3>1, <4>1, <4>2 DEF Right
    <3>2. CASE ~IsBranch(s)
      <4>1. FetchTarget(s) = Selected(s)  BY <3>2 DEF FetchTarget
      <4>2. Selected(s) # "origin"  BY <2>1, CheckoutAssumption DEF Selected
      <4>3. refs[FetchTarget(s)] = Selected(s)  BY <4>1, <4>2
      <4>. QED  BY <3>2, <4>3 DEF Right
    <3>. QED  BY <3>1, <3>2
  <2>4. Filter(s) \in BOOLEAN  BY DEF Filter
  <2> HIDE DEF refs
  <2>5. q = [made |-> r.made, origin |-> r.origin, has |-> r.has, at |-> refs, partial |-> Filter(s),
             large |-> r.large, sparse |-> r.sparse, head |-> r.head, modules |-> r.modules]
    <3> DEFINE f == Filter(s)
               m == [r EXCEPT !.at = refs]
    <3>1. IsRepo(r)  BY <2>1
    <3> HIDE DEF r, f
    <3>2. m = [made |-> r.made, origin |-> r.origin, has |-> r.has, at |-> refs, partial |-> r.partial,
             large |-> r.large, sparse |-> r.sparse, head |-> r.head, modules |-> r.modules]
      BY <3>1, RepoChange
    <3>3. q = [m EXCEPT !.partial = f]  BY DEF f
    <3> HIDE DEF m, q
    <3>4. [m EXCEPT !.partial = f] = [made |-> m.made, origin |-> m.origin, has |-> m.has, at |-> m.at, partial |-> f,
             large |-> m.large, sparse |-> m.sparse, head |-> m.head, modules |-> m.modules]
      BY <3>2
    <3>. QED  BY <3>2, <3>3, <3>4 DEF f
  <2> HIDE DEF q
  <2>6. IsRepo(q) /\ q.origin = TRUE /\ q.at = refs /\ (q.partial <=> Filter(s))  BY <2>1, <2>2, <2>4, <2>5 DEF IsRepo
  <2>7. next \in {"fetch lfs", "sparse"} /\ (next = "sparse" /\ s.lfs => s.sparse # "no")  OBVIOUS
  <2> HIDE DEF next
  <2>8. Fits(c, next, q)  BY <2>3, <2>6, <2>7 DEF Fits, Taken, Fetched, Checked
  <2>. QED  BY <1>1, <1>3, <2>2, <2>6, <2>7, <2>8, Advanced DEF Does, Continue
<1>. QED  BY <1>2, <1>3 DEF FetchRefs

LEMMA FetchLFSStep == ASSUME CheckoutInv, NEW c \in Checkouts, FetchLFS(c) PROVE CheckoutInv'
<1>1. doing[c] = "fetch lfs" /\ doing[c] \notin Ended \cup {"validate"} /\ given' = needed' /\ UNCHANGED <<job, running, tip, tips, output>>
  BY CommandFacts DEF FetchLFS, Ended
<1>2. CASE Breaks(c)  BY <1>1, <1>2, CommandFails
<1>3. ASSUME Does(c, [repo[At(c)] EXCEPT !.large = TRUE], "sparse") PROVE CheckoutInv'
  <2> DEFINE r == repo[At(c)]
             q == [r EXCEPT !.large = TRUE]
  <2>1. IsRepo(r) /\ Progress(c) /\ doing[c] \in Fetched /\ doing[c] \in Taken
    BY <1>1, CheckoutFacts DEF CheckoutInv, Taken, Fetched
  <2>2. q = [made |-> r.made, origin |-> r.origin, has |-> r.has, at |-> r.at, partial |-> r.partial,
             large |-> TRUE, sparse |-> r.sparse, head |-> r.head, modules |-> r.modules]
    BY <2>1, RepoChange
  <2> HIDE DEF q
  <2>3. IsRepo(q) /\ q.large = TRUE /\ q.origin = r.origin /\ q.at = r.at /\ q.partial = r.partial
    BY <2>1, <2>2 DEF IsRepo
  <2>4. Fits(c, "sparse", q)  BY <2>1, <2>3 DEF Progress, Fits, Taken, Fetched, Checked
  <2>. QED  BY <1>1, <1>3, <2>1, <2>3, <2>4, Advanced DEF Does, Continue, q
<1>. QED  BY <1>2, <1>3 DEF FetchLFS

LEMMA ConfigureSparseStep == ASSUME CheckoutInv, NEW c \in Checkouts, ConfigureSparse(c) PROVE CheckoutInv'
<1>1. doing[c] = "sparse" /\ doing[c] \notin Ended \cup {"validate"} /\ given' = needed' /\ UNCHANGED <<job, running, tip, tips, output>>
  BY CommandFacts DEF ConfigureSparse, Ended
<1>2. CASE Breaks(c)  BY <1>1, <1>2, CommandFails
<1>3. ASSUME Does(c, [repo[At(c)] EXCEPT !.sparse = In(c).sparse # "no"], "checkout") PROVE CheckoutInv'
  <2> DEFINE r == repo[At(c)]
             q == [r EXCEPT !.sparse = In(c).sparse # "no"]
  <2>1. IsRepo(r) /\ Progress(c) /\ doing[c] \in Fetched /\ doing[c] \in Taken
    BY <1>1, CheckoutFacts DEF CheckoutInv, Taken, Fetched
  <2>2. q = [made |-> r.made, origin |-> r.origin, has |-> r.has, at |-> r.at, partial |-> r.partial,
             large |-> r.large, sparse |-> (In(c).sparse # "no"), head |-> r.head, modules |-> r.modules]
    BY <2>1 DEF IsRepo
  <2> HIDE DEF q
  <2>3. IsRepo(q) /\ q.large = r.large /\ q.origin = r.origin /\ q.at = r.at /\ q.partial = r.partial
        /\ (q.sparse <=> In(c).sparse # "no")
    BY <2>1, <2>2 DEF IsRepo
  <2>4. Fits(c, "checkout", q)  BY <1>1, <2>1, <2>3 DEF Progress, Fits, Taken, Fetched, Checked
  <2>. QED  BY <1>1, <1>3, <2>1, <2>3, <2>4, Advanced DEF Does, Continue, q
<1>. QED  BY <1>2, <1>3 DEF ConfigureSparse

\* What a filter has left out is fetched with the credential.
LEMMA CheckoutStep == ASSUME CheckoutInv, NEW c \in Checkouts, Checkout(c) PROVE CheckoutInv'
<1> DEFINE s == In(c)
           r == repo[At(c)]
           reaches == r.partial \/ (s.lfs /\ ~r.large)
           x == r.at[FetchTarget(s)]
           q == [r EXCEPT !.head = x]
           next == IF s.submodules = "no" THEN "verify" ELSE "sync"
<1>1. doing[c] = "checkout" /\ IsRepo(r) /\ Progress(c) /\ At(c) \in Places
  BY CheckoutFacts DEF Checkout, Command, CheckoutInv
<1>2. (FilterNeedsProvider(s) <=> reaches) /\ FilterNeedsProvider(s) \in BOOLEAN /\ reaches \in BOOLEAN
  <2>1. (r.partial <=> Filter(s)) /\ (s.lfs => r.large \/ s.sparse # "no")
    BY <1>1 DEF Progress, Fits, Fetched
  <2>. QED  BY <2>1 DEF FilterNeedsProvider, Filter
<1>3. doing[c] \notin Ended \cup {"validate"} /\ given' = needed' /\ UNCHANGED <<job, running, tip, tips, output>>
  <2>1. Command(c, "checkout", FilterNeedsProvider(s), reaches)  BY DEF Checkout
  <2> HIDE DEF reaches
  <2>. QED  BY <2>1, <1>2, CommandFacts DEF Ended
<1>4. CASE Breaks(c) \/ FailsAt(c)  BY <1>3, <1>4, CommandFails
<1>5. ASSUME repo' = [repo EXCEPT ![At(c)].head = x], Continue(c, next) PROVE CheckoutInv'
  <2>1. repo' = [repo EXCEPT ![At(c)] = q]  BY <1>5
  <2>2. doing[c] \in Fetched /\ doing[c] \in Taken  BY <1>1 DEF Taken, Fetched
  <2>3. Right(c, x)  BY <1>1, <2>2 DEF Progress, Fits
  <2> HIDE DEF x
  <2>4. q = [made |-> r.made, origin |-> r.origin, has |-> r.has, at |-> r.at, partial |-> r.partial,
             large |-> r.large, sparse |-> r.sparse, head |-> x, modules |-> r.modules]
    BY <1>1, RepoChange
  <2> HIDE DEF q
  <2>5. /\ IsRepo(q) /\ q.large = r.large /\ q.origin = r.origin /\ q.at = r.at /\ q.partial = r.partial
        /\ q.sparse = r.sparse /\ q.head = x
    BY <1>1, <2>4 DEF IsRepo
  <2>6. next \in {"sync", "verify"} /\ (next = "verify" => s.submodules = "no")  OBVIOUS
  <2> HIDE DEF next
  <2>7. Fits(c, next, q)  BY <1>1, <2>2, <2>3, <2>5, <2>6 DEF Progress, Fits, Taken, Fetched, Checked
  <2>. QED  BY <1>3, <1>5, <2>1, <2>2, <2>5, <2>6, <2>7, Advanced DEF Continue
<1>. QED  BY <1>4, <1>5 DEF Checkout

LEMMA SyncStep == ASSUME CheckoutInv, NEW c \in Checkouts, Sync(c) PROVE CheckoutInv'
<1>1. doing[c] = "sync" /\ doing[c] \notin Ended \cup {"validate"} /\ given' = needed' /\ UNCHANGED <<job, running, tip, tips, output>>
  BY CommandFacts DEF Sync, Ended
<1>2. CASE Breaks(c)  BY <1>1, <1>2, CommandFails
<1>3. ASSUME Does(c, repo[At(c)], "update") PROVE CheckoutInv'
  <2>1. IsRepo(repo[At(c)])  BY CheckoutFacts
  <2>2. doing[c] \in Taken  BY <1>1 DEF Taken, Fetched, Checked
  <2>3. Fits(c, "update", repo[At(c)])
    BY <1>1, <2>2 DEF CheckoutInv, Progress, Fits, Taken, Fetched, Checked
  <2>. QED  BY <1>1, <1>3, <2>1, <2>2, <2>3, Advanced DEF Does, Continue
<1>. QED  BY <1>2, <1>3 DEF Sync

LEMMA UpdateStep == ASSUME CheckoutInv, NEW c \in Checkouts, Update(c) PROVE CheckoutInv'
<1>1. doing[c] = "update" /\ doing[c] \notin Ended \cup {"validate"} /\ given' = needed' /\ UNCHANGED <<job, running, tip, tips, output>>
  BY CommandFacts DEF Update, Ended
<1>2. CASE Breaks(c)  BY <1>1, <1>2, CommandFails
<1>3. ASSUME NEW m \in {In(c).submodules, "some"}, Does(c, [repo[At(c)] EXCEPT !.modules = m], "status") PROVE CheckoutInv'
  <2> DEFINE r == repo[At(c)]
             q == [r EXCEPT !.modules = m]
  <2>1. IsRepo(r) /\ Progress(c) /\ doing[c] \in Checked /\ doing[c] \in Fetched /\ doing[c] \in Taken
    BY <1>1, CheckoutFacts DEF CheckoutInv, Taken, Fetched, Checked
  <2>2. q = [made |-> r.made, origin |-> r.origin, has |-> r.has, at |-> r.at, partial |-> r.partial,
             large |-> r.large, sparse |-> r.sparse, head |-> r.head, modules |-> m]
    BY <2>1, RepoChange
  <2> HIDE DEF q
  <2>3. /\ IsRepo(q) /\ q.large = r.large /\ q.origin = r.origin /\ q.at = r.at /\ q.partial = r.partial
        /\ q.sparse = r.sparse /\ q.head = r.head /\ q.modules = m
    BY <2>1, <2>2 DEF IsRepo
  <2>4. Fits(c, "status", q)  BY <2>1, <2>3 DEF Progress, Fits, Taken, Fetched, Checked
  <2>. QED  BY <1>1, <1>3, <2>1, <2>3, <2>4, Advanced DEF Does, Continue, q
<1>. QED  BY <1>2, <1>3 DEF Update

LEMMA StatusStep == ASSUME CheckoutInv, NEW c \in Checkouts, Status(c) PROVE CheckoutInv'
<1>1. doing[c] = "status" /\ doing[c] \notin Ended \cup {"validate"} /\ given' = needed' /\ UNCHANGED <<job, running, tip, tips, output>>
  BY CommandFacts DEF Status, Ended
<1>2. CASE Breaks(c) \/ FailsAt(c)  BY <1>1, <1>2, CommandFails
<1>3. ASSUME repo[At(c)].modules # "some", Does(c, repo[At(c)], "verify") PROVE CheckoutInv'
  <2>1. IsRepo(repo[At(c)])  BY CheckoutFacts
  <2>2. doing[c] \in Taken  BY <1>1 DEF Taken, Fetched, Checked
  <2>3. Fits(c, "verify", repo[At(c)])
    BY <1>1, <1>3, <2>2 DEF CheckoutInv, Progress, Fits, Taken, Fetched, Checked
  <2>. QED  BY <1>1, <1>3, <2>1, <2>2, <2>3, Advanced DEF Does, Continue
<1>. QED  BY <1>2, <1>3 DEF Status

\* A step that looks at the workspace only, before git.
LEMMA BeforeGit ==
  ASSUME CheckoutInv, NEW c \in Checkouts, doing[c] \in {"inspect", "make"}, NEW next \in {"make", "init", "failed"},
         UNCHANGED <<job, running, repo, tip, tips, given, needed, output>>, Continue(c, next)
  PROVE  CheckoutInv'
<1>1. IsRepo(repo[At(c)]) /\ Same(repo[At(c)], repo[At(c)])  BY CheckoutFacts DEF Same
<1>2. repo' = [repo EXCEPT ![At(c)] = repo[At(c)]]  BY DEF CheckoutInv, CheckoutTypeOK
<1>3. Fits(c, next, repo[At(c)]) /\ next \notin Taken /\ next # "done"  BY DEF Fits, Taken, Fetched, Checked
<1>4. given' = needed'  BY DEF CheckoutInv
<1>. QED  BY <1>1, <1>2, <1>3, <1>4, Advanced DEF Continue, Ended

LEMMA InspectStep == ASSUME CheckoutInv, NEW c \in Checkouts, Inspect(c) PROVE CheckoutInv'
<1>1. PICK next \in {"make", "init", "failed"} : Continue(c, next)  BY DEF Inspect
<1>. QED  BY <1>1, BeforeGit DEF Inspect, Files, Provider, Rest

LEMMA MakeStep == ASSUME CheckoutInv, NEW c \in Checkouts, Make(c) PROVE CheckoutInv'
<1>1. PICK next \in {"make", "init", "failed"} : Continue(c, next)  BY DEF Make
<1>. QED  BY <1>1, BeforeGit DEF Make, Provider, Rest

LEMMA StartStep == ASSUME CheckoutInv, NEW c \in Checkouts, Start(c) PROVE CheckoutInv'
<1>1. PICK next \in {"inspect", "failed"} : Continue(c, next)  BY DEF Start
<1>2. /\ doing[c] = "validate" /\ running' = running \cup {c} /\ tips' = [tips EXCEPT ![c] = {tip}]
      /\ UNCHANGED <<job, repo, tip, given, needed, output>>
  BY DEF Start, Files
<1>3. doing'[c] = next /\ At(c) \in Places /\ IsRepo(repo[At(c)])  BY <1>1, CheckoutFacts DEF Continue
<1>4. tips = [e \in Checkouts |-> tips[e]] /\ output = [e \in Checkouts |-> output[e]] /\ repo = [p \in Places |-> repo[p]]
  BY DEF CheckoutInv, CheckoutTypeOK
<1>5. tips'[c] = {tip} /\ tips' = [e \in Checkouts |-> tips'[e]] /\ \A e \in Checkouts : e # c => tips'[e] = tips[e]
  BY <1>2, <1>4
<1>6. next \notin Taken  BY DEF Taken, Fetched, Checked
<1>7. Advances(c, next)  BY <1>1, <1>2, <1>5, <1>6 DEF Advances, Same, Continue
<1>8. At(c)' = At(c) /\ In(c)' = In(c)  BY <1>2 DEF At, In
<1>9. Progress(c)'
  <2>1. doing'[c] \notin Taken  BY <1>3, <1>6
  <2>2. doing'[c] \in {"inspect", "failed"}  BY <1>3
  <2>. QED  BY <2>1, <2>2 DEF Progress, Fits, Taken, Fetched, Checked
<1>10. Reported(c)'
  <2>1. output[c] = NoOutput  BY <1>2 DEF CheckoutInv, Reported
  <2>. QED  BY <1>2, <1>3, <1>5, <2>1 DEF Reported
<1>11. IsRepo(repo'[At(c)]) /\ given' = needed'  BY <1>2, <1>3 DEF CheckoutInv
<1>. QED  BY <1>2, <1>4, <1>5, <1>7, <1>9, <1>10, <1>11, Combined

LEMMA VerifyStep == ASSUME CheckoutInv, NEW c \in Checkouts, Verify(c) PROVE CheckoutInv'
<1> DEFINE s == In(c)
           head == repo[At(c)].head
           said == [ref |-> RefOutput(s), commit |-> head]
<1>1. PICK next \in {"done", "failed"} :
        /\ Continue(c, next)
        /\ output' = IF next = "done" /\ HasOutputs(s.release) THEN [output EXCEPT ![c] = said] ELSE output
  BY DEF Verify
<1>2. doing[c] = "verify" /\ UNCHANGED <<job, running, repo, tip, tips, given, needed>>
  BY DEF Verify, Files, Provider
<1>3. doing'[c] = next /\ At(c) \in Places /\ IsRepo(repo[At(c)])  BY <1>1, CheckoutFacts DEF Continue
<1>4. tips = [e \in Checkouts |-> tips[e]] /\ output = [e \in Checkouts |-> output[e]] /\ repo = [p \in Places |-> repo[p]]
  BY DEF CheckoutInv, CheckoutTypeOK
<1>5. output[c] = NoOutput /\ c \in running  BY <1>2 DEF CheckoutInv, Reported
<1>6. /\ output'[c] = IF next = "done" /\ HasOutputs(s.release) THEN said ELSE NoOutput
      /\ output' = [e \in Checkouts |-> output'[e]] /\ \A e \in Checkouts : e # c => output'[e] = output[e]
  BY <1>1, <1>4, <1>5
<1>7. doing[c] \in Taken  BY <1>2 DEF Taken, Fetched, Checked
<1>8. Advances(c, next)  BY <1>1, <1>2, <1>6, <1>7 DEF Advances, Continue
<1>9. At(c)' = At(c) /\ In(c)' = In(c)  BY <1>2 DEF At, In
<1>10. Progress(c)'
  <2>1. Fits(c, "verify", repo[At(c)])  BY <1>2 DEF CheckoutInv, Progress
  <2>2. Fits(c, next, repo[At(c)])  BY <2>1 DEF Fits, Taken, Fetched, Checked
  <2>3. doing'[c] = next /\ repo'[At(c)'] = repo[At(c)]  BY <1>2, <1>3, <1>9
  <2>4. Fits(c, doing'[c], repo'[At(c)'])  BY <2>2, <2>3
  <2>5. \A x : Right(c, x)' <=> Right(c, x)  BY <1>2, <1>9 DEF Right
  <2>. QED  BY <2>4, <2>5, <1>9 DEF Progress, Fits
<1>11. Reported(c)'  BY <1>2, <1>3, <1>5, <1>6, <1>9 DEF Reported, Ended
<1>12. IsRepo(repo'[At(c)]) /\ given' = needed'  BY <1>2, <1>3 DEF CheckoutInv
<1>. QED  BY <1>2, <1>4, <1>6, <1>8, <1>10, <1>11, <1>12, Combined

LEMMA PushStep == ASSUME CheckoutInv, Push PROVE CheckoutInv'
<1>1. UNCHANGED <<job, running, repo, doing, given, needed, output>>  BY DEF Push, Files
<1>2. /\ tips' = [c \in Checkouts |-> tips'[c]]
      /\ \A c \in Checkouts : tips[c] \subseteq tips'[c] /\ (c \in running /\ doing[c] \notin Ended => tip' \in tips'[c])
  BY DEF Push, Ended
<1>3. Checkouts' = Checkouts /\ \A c \in Checkouts : In(c)' = In(c) /\ At(c)' = At(c)  BY <1>1 DEF Checkouts, In, At
<1>4. CheckoutTypeOK'  BY <1>1, <1>2, <1>3 DEF CheckoutInv, CheckoutTypeOK, IsRepo
<1>5. Apart'  BY <1>1, <1>3 DEF CheckoutInv, Apart
<1>6. ASSUME NEW c \in Checkouts PROVE Progress(c)' /\ Reported(c)'
  <2>1. \A x : Right(c, x) => Right(c, x)'  BY <1>2, <1>3 DEF Right
  <2>2. Progress(c)'  BY <1>1, <1>3, <2>1 DEF CheckoutInv, Progress, Fits
  <2>3. Reported(c)'  BY <1>1, <1>2, <1>3 DEF CheckoutInv, Reported
  <2>. QED  BY <2>2, <2>3
<1>. QED  BY <1>1, <1>3, <1>4, <1>5, <1>6 DEF CheckoutInv

LEMMA UntouchedStep ==
  ASSUME CheckoutInv, UNCHANGED <<job, running, repo, doing, tip, tips, given, needed, output>>
  PROVE  CheckoutInv'
<1>1. Checkouts' = Checkouts /\ \A c \in Checkouts : In(c)' = In(c) /\ At(c)' = At(c)  BY DEF Checkouts, In, At
<1>2. CheckoutTypeOK'  BY <1>1 DEF CheckoutInv, CheckoutTypeOK, IsRepo
<1>3. Apart'  BY <1>1 DEF CheckoutInv, Apart
<1>4. ASSUME NEW c \in Checkouts PROVE Progress(c)' /\ Reported(c)'
  <2>1. \A x : Right(c, x) <=> Right(c, x)'  BY <1>1 DEF Right
  <2>2. Progress(c)'  BY <1>1, <2>1 DEF CheckoutInv, Progress, Fits
  <2>3. Reported(c)'  BY <1>1 DEF CheckoutInv, Reported
  <2>. QED  BY <2>2, <2>3
<1>. QED  BY <1>1, <1>2, <1>3, <1>4 DEF CheckoutInv

LEMMA CheckoutStepInv == CheckoutInv /\ [CheckoutNext]_checkoutVars => CheckoutInv'
<1> SUFFICES ASSUME CheckoutInv, [CheckoutNext]_checkoutVars PROVE CheckoutInv'
  OBVIOUS
<1>1. ASSUME NEW c \in Checkouts,
             \/ Start(c) \/ Inspect(c) \/ Make(c) \/ InitGit(c) \/ AddRemote(c) \/ InstallLFS(c) \/ FetchRefs(c)
             \/ FetchLFS(c) \/ ConfigureSparse(c) \/ Checkout(c) \/ Sync(c) \/ Update(c) \/ Status(c) \/ Verify(c)
      PROVE  CheckoutInv'
  BY <1>1, StartStep, InspectStep, MakeStep, InitGitStep, AddRemoteStep, InstallLFSStep, FetchRefsStep,
     FetchLFSStep, ConfigureSparseStep, CheckoutStep, SyncStep, UpdateStep, StatusStep, VerifyStep
<1>2. CASE Push  BY <1>2, PushStep
<1>3. CASE Leave  BY <1>3, UntouchedStep DEF Leave, Provider
<1>4. CASE UNCHANGED checkoutVars  BY <1>4, UntouchedStep DEF checkoutVars
<1>. QED  BY <1>1, <1>2, <1>3, <1>4 DEF CheckoutNext

\* For every set of checkouts, in the foreground and the background, with any
\* inputs, whatever commands fail, wherever the branch moves and whatever
\* files other steps leave.
THEOREM CheckoutInvariant == CheckoutSpec => []CheckoutInv
BY CheckoutInitInv, CheckoutStepInv, PTL DEF CheckoutSpec

LEMMA InvariantIsExact == CheckoutInv => CheckoutExact
<1> SUFFICES ASSUME CheckoutInv PROVE CheckoutExact
  OBVIOUS
<1>1. given = needed  BY DEF CheckoutInv
<1>2. ASSUME NEW c \in Checkouts, doing[c] # "done" PROVE output[c] = NoOutput
  BY <1>2 DEF CheckoutInv, Reported
<1>3. ASSUME NEW c \in Checkouts, doing[c] = "done"
      PROVE  /\ \A e \in Checkouts \ {c} : At(e) = At(c) => doing[e] # "done"
             /\ Right(c, repo[At(c)].head)
             /\ repo[At(c)].sparse <=> In(c).sparse # "no"
             /\ In(c).submodules # "no" => repo[At(c)].modules = In(c).submodules
             /\ output[c] = IF HasOutputs(In(c).release)
                              THEN [ref |-> RefOutput(In(c)), commit |-> repo[At(c)].head] ELSE NoOutput
  <2>1. "done" \in Taken /\ "done" \in Checked  BY DEF Taken, Fetched, Checked
  <2>2. Progress(c) /\ Reported(c)  BY DEF CheckoutInv
  <2>3. \A e \in Checkouts \ {c} : At(e) = At(c) => doing[e] # "done"  BY <1>3, <2>1 DEF CheckoutInv, Apart
  <2>4. /\ Right(c, repo[At(c)].head) /\ (repo[At(c)].sparse <=> In(c).sparse # "no")
        /\ In(c).submodules # "no" => repo[At(c)].modules = In(c).submodules
    BY <1>3, <2>1, <2>2 DEF Progress, Fits
  <2>. QED  BY <1>3, <2>2, <2>3, <2>4 DEF Reported
<1>4. \A c \in Checkouts : repo[At(c)].sparse \in BOOLEAN  BY CheckoutFacts DEF IsRepo
<1>. QED  BY <1>1, <1>2, <1>3, <1>4 DEF CheckoutExact, Right

\* Every checkout that succeeds leaves what was asked for in a directory of
\* its own, every one that fails says nothing, and the credential of the job
\* is with the commands that need it, and no other.
THEOREM CheckoutsExact == CheckoutSpec => []CheckoutExact
BY CheckoutInvariant, InvariantIsExact, PTL

-----------------------------------------------------------------------------
(* Transfers of artifacts.                                                 *)

\* What an upload goes through once it knows its files, and what a download
\* does once it knows its artifacts.
Packing == {"archive", "open", "read", "stored"}
Installing == {"install", "placed", "done"}
UploadStages == Packing \cup {"start", "collect", "done", "failed"}
DownloadStages == Installing \cup {"start", "fetch", "failed"}

FilesOf(t) == {p \in DOMAIN t : t[p].kind = "file"}

TransferTypeOK ==
    /\ transfer \in Transfers
    /\ IsFiniteSet(FilesOf(tree)) /\ Target \in DOMAIN tree /\ Contents(tree) \subseteq had
    /\ at \in [Steps -> UploadStages \cup DownloadStages]
    /\ DOMAIN work = Steps
    /\ work = [s \in Steps |-> [files |-> work[s].files, archive |-> work[s].archive,
                                todo |-> work[s].todo, members |-> work[s].members]]
    /\ results \in Seq(Range(results))

\* A name is held by one step, until it fails or from its artifact on.
InResult(s) == \E i \in DOMAIN results : results[i].producer = s
HoldsName(s) == Uploading(s) /\ (at[s] \in Packing \cup {"collect"} \/ InResult(s))
Folding(s) == Lower[Request(s).name]

NamesHeld ==
    /\ reserved = {Folding(s) : s \in {t \in Steps : HoldsName(t)}}
    /\ \A s, t \in Steps : HoldsName(s) /\ HoldsName(t) /\ Folding(s) = Folding(t) => s = t
    /\ IsFiniteSet(reserved) /\ Cardinality(reserved) <= MaxArtifacts

\* The files of an upload go by different names into the archive, and what is
\* in it is of them.
FilesGathered(s) ==
    LET chosen == work[s].files
        archive == work[s].archive
    IN  /\ IsFiniteSet(chosen)
        /\ \A f, e \in chosen : f.name = e.name => f = e
        /\ \A f \in chosen : f.path \in DOMAIN tree
        /\ DOMAIN archive \subseteq {f.name : f \in chosen}
        /\ \A f \in chosen : f.name \in DOMAIN archive => <<f.info.id, archive[f.name]>> \in had

Upcoming(s) == CHOOSE f \in Unarchived(s) : TRUE

UploadSound(s) ==
    /\ at[s] \in UploadStages
    /\ at[s] \in {"start", "collect"} => work[s].archive = <<>>
    /\ at[s] \in Packing \/ InResult(s) => FilesGathered(s)
    /\ at[s] \in {"open", "read"} => Unarchived(s) # {}
    /\ at[s] = "read" => work[s].todo # {} /\ \A n \in work[s].todo : <<Upcoming(s).info.id, n.content>> \in had
    /\ at[s] = "stored" \/ InResult(s) => Unarchived(s) = {} /\ Artifact(s) \in stored
    /\ InResult(s) => at[s] = "done"

\* Every artifact of the result is of a step of its own.
ResultsSound ==
    /\ \A i \in DOMAIN results :
         LET s == results[i].producer IN s \in Steps /\ Uploading(s) /\ results[i] = Artifact(s)
    /\ \A i, j \in DOMAIN results : results[i].producer = results[j].producer => i = j

\* Members are of the last artifact that has them, of those fetched so far.
Gathered(s) == Matched(s) \ work[s].todo
MemberOf(s, n, i) ==
    /\ i \in Gathered(s) /\ n \in DOMAIN Needs[i].archive
    /\ \A j \in Gathered(s) : n \in DOMAIN Needs[j].archive => j <= i
    /\ work[s].members[n] = Needs[i].archive[n]
MembersFetched(s) ==
    /\ work[s].todo \subseteq Matched(s)
    /\ \A i \in Gathered(s), j \in work[s].todo : i < j
    /\ \A i \in Gathered(s) : DOMAIN Needs[i].archive \subseteq DOMAIN work[s].members
    /\ \A n \in DOMAIN work[s].members : \E i \in Gathered(s) : MemberOf(s, n, i)
Installed(s, n) == << <<s>> \o n, work[s].members[n]>> \in had
MembersInstalled(s) ==
    /\ work[s].todo = {}
    /\ \A f \in work[s].files : f.name \in DOMAIN work[s].members
    /\ \A n \in DOMAIN work[s].members : (\E f \in work[s].files : f.name = n) \/ Installed(s, n)

DownloadSound(s) ==
    /\ at[s] \in DownloadStages
    /\ at[s] = "start" => work[s].members = <<>>
    /\ at[s] \in Installing \cup {"fetch"} => MembersFetched(s)
    /\ at[s] \in Installing => MembersInstalled(s)
    /\ at[s] = "placed" => work[s].files # {}
    /\ at[s] = "done" => work[s].files = {}

TransferInv ==
    /\ TransferTypeOK /\ NamesHeld /\ ResultsSound
    /\ \A s \in Steps : IF Uploading(s) THEN UploadSound(s) ELSE DownloadSound(s)

-----------------------------------------------------------------------------
(* What is selected and archived.                                          *)

\* The files of a selection that is not refused are of the tree, finitely
\* many, and differ in their names.
LEMMA SelectionFacts ==
    ASSUME NEW t, NEW u, IsFiniteSet(FilesOf(t)), ~Collected(t, u).refused
    PROVE  LET chosen == Collected(t, u).files
           IN  /\ IsFiniteSet(chosen)
               /\ \A f \in chosen : f.path \in DOMAIN t
               /\ \A f, e \in chosen : f.name = e.name => f = e
<1> DEFINE roots == {i \in DOMAIN u.roots : u.hidden \/ ~IsHidden(u.roots[i].path)}
           found(i) == SelectedFiles(t, u.roots[i], u.hidden)
           chosen == UNION {found(i) : i \in roots}
           base == LongestCommonPrefix({Base(t, u.roots[i]) : i \in {j \in roots : found(j) # {}}})
           Of(p) == [path |-> p, name |-> Below(base, p), info |-> t[p]]
           entries == {Of(p) : p \in chosen}
<1>1. Collected(t, u).files = entries
  BY DEF Collected
<1>2. \A p, q \in chosen : p # q => Folded(Below(base, p)) # Folded(Below(base, q))
  BY DEF Collected
<1>3. chosen \subseteq FilesOf(t)
  BY DEF SelectedFiles, Visible, FilesOf
<1> HIDE DEF base, chosen
<1>4. \A f \in entries : f.path \in chosen /\ f = Of(f.path) /\ f.name = Below(base, f.path)
  OBVIOUS
<1> HIDE DEF entries, Of
<1>5. \A f, e \in entries : f.name = e.name => f = e
  <2> SUFFICES ASSUME NEW f \in entries, NEW e \in entries, f.name = e.name PROVE f = e
    OBVIOUS
  <2>1. f.path = e.path
    BY <1>2, <1>4
  <2> QED
    BY <2>1, <1>4
<1>6. IsFiniteSet(entries)
  <2> DEFINE pathOf == [f \in entries |-> f.path]
  <2>1. pathOf \in [entries -> FilesOf(t)] /\ \A f, e \in entries : pathOf[f] = pathOf[e] => f = e
    BY <1>3, <1>4
  <2>2. pathOf \in Injection(entries, FilesOf(t))
    BY <2>1 DEF Injection, IsInjective
  <2> HIDE DEF pathOf
  <2> QED
    BY <2>2, FS_Injection
<1>7. chosen \subseteq DOMAIN t
  BY <1>3 DEF FilesOf
<1> QED
  BY <1>1, <1>4, <1>5, <1>6, <1>7

\* As many names as files.
LEMMA NamesCounted ==
    ASSUME NEW chosen, IsFiniteSet(chosen), \A f, e \in chosen : f.name = e.name => f = e
    PROVE  Cardinality({f.name : f \in chosen}) = Cardinality(chosen)
<1> DEFINE names == {f.name : f \in chosen}
           named == [f \in chosen |-> f.name]
<1>1. named \in [chosen -> names] /\ \A f, e \in chosen : named[f] = named[e] => f = e
  OBVIOUS
<1>2. \A n \in names : \E f \in chosen : named[f] = n
  OBVIOUS
<1>3. named \in Injection(chosen, names) /\ named \in Surjection(chosen, names)
  <2> HIDE DEF names, named
  <2> QED
    BY <1>1, <1>2 DEF Injection, IsInjective, Surjection
<1>4. ExistsBijection(chosen, names)
  <2> HIDE DEF names, named
  <2> QED
    BY <1>3 DEF ExistsBijection, Bijection
<1> QED
  BY <1>4, FS_Bijection

LEMMA Recorded ==
    ASSUME TransferTypeOK, NEW p \in DOMAIN tree, tree[p].kind = "file"
    PROVE  <<tree[p].id, tree[p].content>> \in had
<1>1. tree[p] \in {m \in Range(tree) : m.kind = "file"}
  BY DEF Range
<1>2. <<tree[p].id, tree[p].content>> \in Contents(tree)
  BY <1>1 DEF Contents
<1> QED
  BY <1>2 DEF TransferTypeOK

-----------------------------------------------------------------------------
(* What one step of the job leaves of the others.                          *)

Stages == UploadStages \cup DownloadStages

Entry(w) == w = [files |-> w.files, archive |-> w.archive, todo |-> w.todo, members |-> w.members]

\* What is there remains, and the request stays.
Remains ==
    /\ transfer' = transfer /\ had \subseteq had' /\ stored \subseteq stored'
    /\ DOMAIN tree \subseteq DOMAIN tree'

\* A step that does nothing remains sound.
LEMMA Undisturbed ==
    ASSUME TransferInv, Remains, NEW s \in Steps, at'[s] = at[s], work'[s] = work[s],
           InResult(s)' <=> InResult(s)
    PROVE  (IF Uploading(s) THEN UploadSound(s) ELSE DownloadSound(s))'
<1>1. Request(s)' = Request(s) /\ Uploading(s)' = Uploading(s)
  BY DEF Remains, Request, Uploading
<1>2. CASE Uploading(s)
  <2>1. UploadSound(s)
    BY <1>2 DEF TransferInv
  <2>2. Unarchived(s)' = Unarchived(s) /\ Artifact(s)' = Artifact(s)
    BY <1>1 DEF Unarchived, Artifact
  <2>3. Upcoming(s)' = Upcoming(s)
    BY <2>2 DEF Upcoming
  <2>4. FilesGathered(s) => FilesGathered(s)'
    BY DEF FilesGathered, Remains
  <2>5. UploadSound(s)'
    BY <2>1, <2>2, <2>3, <2>4 DEF UploadSound, Remains
  <2> QED
    BY <1>1, <1>2, <2>5
<1>3. CASE ~Uploading(s)
  <2>1. DownloadSound(s)
    BY <1>3 DEF TransferInv
  <2>2. Matched(s)' = Matched(s) /\ Needs' = Needs
    BY <1>1 DEF Matched, Needs, Remains
  <2>3. Gathered(s)' = Gathered(s)
    BY <2>2 DEF Gathered
  <2>4. MembersFetched(s) => MembersFetched(s)'
    BY <2>2, <2>3 DEF MembersFetched, MemberOf
  <2>5. MembersInstalled(s) => MembersInstalled(s)'
    BY DEF MembersInstalled, Installed, Remains
  <2>6. DownloadSound(s)'
    BY <2>1, <2>4, <2>5 DEF DownloadSound
  <2> QED
    BY <1>1, <1>3, <2>6
<1> QED
  BY <1>2, <1>3

LEMMA DoneInResult ==
    ASSUME TransferInv, NEW s \in Steps, InResult(s)
    PROVE  Uploading(s) /\ at[s] = "done"
<1>1. Uploading(s)
  BY DEF TransferInv, ResultsSound, InResult
<1> QED
  BY <1>1 DEF TransferInv, UploadSound

\* The names held, of a step that holds its own as before, gives it up, or
\* takes one that nobody holds.
OthersHold(s) == \A t \in Steps \ {s} : HoldsName(t)' <=> HoldsName(t)

LEMMA NamesStay ==
    ASSUME TransferInv, transfer' = transfer, NEW s \in Steps, OthersHold(s),
           HoldsName(s)' <=> HoldsName(s), reserved' = reserved
    PROVE  NamesHeld'
<1>1. Steps' = Steps /\ \A t \in Steps : Folding(t)' = Folding(t) /\ (HoldsName(t)' <=> HoldsName(t))
  BY DEF Steps, Folding, Request, OthersHold
<1> QED
  BY <1>1 DEF TransferInv, NamesHeld

LEMMA NameFreed ==
    ASSUME TransferInv, transfer' = transfer, NEW s \in Steps, OthersHold(s),
           HoldsName(s), ~HoldsName(s)', reserved' = reserved \ {Folding(s)}
    PROVE  NamesHeld'
<1>1. Steps' = Steps /\ \A t \in Steps : Folding(t)' = Folding(t)
  BY DEF Steps, Folding, Request
<1>2. \A t \in Steps : HoldsName(t)' <=> HoldsName(t) /\ t # s
  BY DEF OthersHold
<1>3. \A t, u \in Steps : HoldsName(t) /\ HoldsName(u) /\ Folding(t) = Folding(u) => t = u
  BY DEF TransferInv, NamesHeld
<1>4. reserved = {Folding(t) : t \in {u \in Steps : HoldsName(u)}}
  BY DEF TransferInv, NamesHeld
<1>5. reserved' = {Folding(t) : t \in {u \in Steps : HoldsName(u) /\ u # s}}
  BY <1>3, <1>4
<1>6. reserved' = {Folding(t) : t \in {u \in Steps : HoldsName(u)}}'
  BY <1>1, <1>2, <1>5
<1>7. IsFiniteSet(reserved') /\ Cardinality(reserved') <= MaxArtifacts
  <2>1. IsFiniteSet(reserved) /\ Cardinality(reserved) <= MaxArtifacts
    BY DEF TransferInv, NamesHeld
  <2>2. IsFiniteSet(reserved') /\ Cardinality(reserved') <= Cardinality(reserved)
    BY <2>1, FS_Subset
  <2>3. Cardinality(reserved) \in Nat /\ Cardinality(reserved') \in Nat
    BY <2>1, <2>2, FS_CardinalityType
  <2> QED
    BY <2>1, <2>2, <2>3, TransfersAssumption
<1>8. \A t, u \in Steps' : HoldsName(t)' /\ HoldsName(u)' /\ Folding(t)' = Folding(u)' => t = u
  BY <1>1, <1>2, <1>3
<1> QED
  BY <1>6, <1>7, <1>8 DEF NamesHeld

LEMMA NameTaken ==
    ASSUME TransferInv, transfer' = transfer, NEW s \in Steps, OthersHold(s),
           ~HoldsName(s), HoldsName(s)', reserved' = reserved \cup {Folding(s)},
           Folding(s) \notin reserved, Cardinality(reserved) # MaxArtifacts
    PROVE  NamesHeld'
<1>1. Steps' = Steps /\ \A t \in Steps : Folding(t)' = Folding(t)
  BY DEF Steps, Folding, Request
<1>2. \A t \in Steps : HoldsName(t)' <=> HoldsName(t) \/ t = s
  BY DEF OthersHold
<1>3. \A t, u \in Steps : HoldsName(t) /\ HoldsName(u) /\ Folding(t) = Folding(u) => t = u
  BY DEF TransferInv, NamesHeld
<1>4. reserved = {Folding(t) : t \in {u \in Steps : HoldsName(u)}}
  BY DEF TransferInv, NamesHeld
<1>5. reserved' = {Folding(t) : t \in {u \in Steps : HoldsName(u) \/ u = s}}
  BY <1>4
<1>6. reserved' = {Folding(t) : t \in {u \in Steps : HoldsName(u)}}'
  BY <1>1, <1>2, <1>5
<1>7. IsFiniteSet(reserved') /\ Cardinality(reserved') <= MaxArtifacts
  <2>1. IsFiniteSet(reserved) /\ Cardinality(reserved) <= MaxArtifacts
    BY DEF TransferInv, NamesHeld
  <2>2. IsFiniteSet(reserved') /\ Cardinality(reserved') = Cardinality(reserved) + 1
    BY <2>1, FS_AddElement
  <2>3. Cardinality(reserved) \in Nat
    BY <2>1, FS_CardinalityType
  <2> QED
    BY <2>1, <2>2, <2>3, TransfersAssumption
<1>8. \A t \in Steps : HoldsName(t) => Folding(t) # Folding(s)
  BY <1>4
<1>9. \A t, u \in Steps' : HoldsName(t)' /\ HoldsName(u)' /\ Folding(t)' = Folding(u)' => t = u
  BY <1>1, <1>2, <1>3, <1>8
<1> QED
  BY <1>6, <1>7, <1>9 DEF NamesHeld

\* A step of the job without an artifact in the result moves.
Moves(s, stage, w) ==
    /\ transfer' = transfer /\ results' = results
    /\ at' = [at EXCEPT ![s] = stage] /\ work' = [work EXCEPT ![s] = w]

TreeStays ==
    /\ Remains /\ IsFiniteSet(FilesOf(tree')) /\ Contents(tree') \subseteq had'

LEMMA MoveFacts ==
    ASSUME TransferInv, NEW s \in Steps, ~InResult(s), NEW stage \in Stages, NEW w, Entry(w),
           Moves(s, stage, w)
    PROVE  /\ Steps' = Steps /\ Request(s)' = Request(s) /\ (Uploading(s)' <=> Uploading(s))
           /\ at'[s] = stage /\ work'[s] = w
           /\ \A t \in Steps \ {s} : at'[t] = at[t] /\ work'[t] = work[t]
           /\ \A t \in Steps : InResult(t)' <=> InResult(t)
           /\ OthersHold(s)
           /\ at' \in [Steps -> Stages]
           /\ work' = [t \in Steps |-> [files |-> work'[t].files, archive |-> work'[t].archive,
                                        todo |-> work'[t].todo, members |-> work'[t].members]]
<1>1. Steps' = Steps /\ \A t \in Steps : Request(t)' = Request(t) /\ (Uploading(t)' <=> Uploading(t))
  BY DEF Steps, Request, Uploading, Moves
<1>2. at \in [Steps -> Stages] /\ DOMAIN work = Steps
  BY DEF TransferInv, TransferTypeOK, Stages
<1>3. at'[s] = stage /\ work'[s] = w
  BY <1>2 DEF Moves
<1>4. \A t \in Steps \ {s} : at'[t] = at[t] /\ work'[t] = work[t]
  BY <1>2 DEF Moves
<1>5. \A t \in Steps : InResult(t)' <=> InResult(t)
  BY DEF InResult, Moves
<1>6. OthersHold(s)
  BY <1>1, <1>4, <1>5 DEF OthersHold, HoldsName
<1>7. at' \in [Steps -> Stages]
  BY <1>2 DEF Moves
<1>8. work' = [t \in Steps |-> [files |-> work'[t].files, archive |-> work'[t].archive,
                                todo |-> work'[t].todo, members |-> work'[t].members]]
  <2>1. work' = [t \in Steps |-> work'[t]]
    BY <1>2 DEF Moves
  <2>2. \A t \in Steps : Entry(work[t])
    BY DEF TransferInv, TransferTypeOK, Entry
  <2>3. \A t \in Steps : Entry(work'[t])
    BY <1>3, <1>4, <2>2
  <2> QED
    BY <2>1, <2>3 DEF Entry
<1> QED
  BY <1>1, <1>3, <1>4, <1>5, <1>6, <1>7, <1>8

LEMMA Moved ==
    ASSUME TransferInv, NEW s \in Steps, ~InResult(s), NEW stage \in Stages, NEW w, Entry(w),
           Moves(s, stage, w), TreeStays, NamesHeld',
           (IF Uploading(s) THEN UploadSound(s) ELSE DownloadSound(s))'
    PROVE  TransferInv'
<1> DEFINE Sound(t) == IF Uploading(t) THEN UploadSound(t) ELSE DownloadSound(t)
<1>1. /\ Steps' = Steps
      /\ \A t \in Steps \ {s} : at'[t] = at[t] /\ work'[t] = work[t]
      /\ \A t \in Steps : InResult(t)' <=> InResult(t)
      /\ at' \in [Steps -> Stages]
      /\ work' = [t \in Steps |-> [files |-> work'[t].files, archive |-> work'[t].archive,
                                   todo |-> work'[t].todo, members |-> work'[t].members]]
  BY MoveFacts
<1>2. TransferTypeOK'
  <2>1. transfer' \in Transfers
    BY DEF Moves, TransferInv, TransferTypeOK
  <2>2. IsFiniteSet(FilesOf(tree')) /\ Target \in DOMAIN tree' /\ Contents(tree)' \subseteq had'
    BY DEF TreeStays, Remains, Contents, FilesOf, TransferInv, TransferTypeOK
  <2>3. DOMAIN work' = Steps'
    BY <1>1
  <2>4. results' \in Seq(Range(results'))
    BY DEF Moves, TransferInv, TransferTypeOK
  <2> QED
    BY <1>1, <2>1, <2>2, <2>3, <2>4 DEF TransferTypeOK, Stages
<1>3. ResultsSound'
  <2>1. ResultsSound
    BY DEF TransferInv
  <2>2. \A i \in DOMAIN results : results[i].producer # s
    BY DEF InResult
  <2>3. \A t \in Steps \ {s} : Artifact(t)' = Artifact(t) /\ (Uploading(t)' <=> Uploading(t))
    BY <1>1 DEF Artifact, Request, Uploading, Moves
  <2> QED
    BY <1>1, <2>1, <2>2, <2>3 DEF ResultsSound, Moves
<1>4. \A t \in Steps' : Sound(t)'
  <2> SUFFICES ASSUME NEW t \in Steps PROVE Sound(t)'
    BY <1>1
  <2>1. CASE t = s
    BY <2>1
  <2>2. CASE t # s
    BY <1>1, <2>2, Undisturbed DEF TreeStays
  <2> QED
    BY <2>1, <2>2
<1> QED
  BY <1>2, <1>3, <1>4 DEF TransferInv

-----------------------------------------------------------------------------
(* The steps of the job.                                                   *)

LEMMA EntryKept ==
    ASSUME TransferInv, NEW s \in Steps
    PROVE  /\ Entry(work[s]) /\ work = [work EXCEPT ![s] = work[s]]
           /\ at = [at EXCEPT ![s] = at[s]] /\ at[s] \in Stages
<1>1. work = [t \in Steps |-> [files |-> work[t].files, archive |-> work[t].archive,
                               todo |-> work[t].todo, members |-> work[t].members]]
  BY DEF TransferInv, TransferTypeOK
<1>2. Entry(work[s])
  BY <1>1 DEF Entry
<1>3. work = [work EXCEPT ![s] = work[s]]
  BY <1>1
<1>4. at \in [Steps -> Stages]
  BY DEF TransferInv, TransferTypeOK, Stages
<1> QED
  BY <1>2, <1>3, <1>4

LEMMA TreeUnchanged ==
    ASSUME TransferInv, transfer' = transfer, UNCHANGED <<tree, had>>, stored \subseteq stored'
    PROVE  TreeStays
BY DEF TransferInv, TransferTypeOK, TreeStays, Remains, Contents, FilesOf

LEMMA FailUploadStep ==
    ASSUME TransferInv, NEW s \in Steps, Uploading(s), ~Over(s), transfer' = transfer,
           FailUpload(s, at[s] # "start")
    PROVE  TransferInv'
<1>1. ~InResult(s)
  BY DoneInResult DEF Over
<1>2. Moves(s, "failed", work[s])
  BY EntryKept DEF Moves, FailUpload, Enter
<1>3. TreeStays
  BY TreeUnchanged DEF FailUpload, TreeKept
<1>4. Entry(work[s]) /\ "failed" \in Stages
  BY EntryKept DEF Stages, UploadStages
<1>5. /\ at'[s] = "failed" /\ OthersHold(s) /\ ~InResult(s)'
      /\ (Uploading(s)' <=> Uploading(s))
  BY <1>1, <1>2, <1>4, MoveFacts
<1>6. UploadSound(s)
  BY DEF TransferInv
<1>7. ~HoldsName(s)'
  BY <1>5 DEF HoldsName, Packing
<1>8. NamesHeld'
  <2>1. CASE at[s] = "start"
    <3>1. ~HoldsName(s)
      BY <1>1, <2>1 DEF HoldsName, Packing
    <3>2. reserved' = reserved
      BY <2>1 DEF FailUpload, Released
    <3> QED
      BY <1>5, <1>7, <3>1, <3>2, NamesStay
  <2>2. CASE at[s] # "start"
    <3>1. HoldsName(s)
      BY <1>6, <2>2 DEF HoldsName, UploadSound, UploadStages, Over
    <3>2. reserved' = reserved \ {Folding(s)}
      BY <2>2 DEF FailUpload, Released, Folding
    <3> QED
      BY <1>5, <1>7, <3>1, <3>2, NameFreed
  <2> QED
    BY <2>1, <2>2
<1>9. UploadSound(s)'
  BY <1>5 DEF UploadSound, UploadStages, Packing
<1> QED
  BY <1>1, <1>2, <1>3, <1>4, <1>5, <1>8, <1>9, Moved

LEMMA FailDownloadStep ==
    ASSUME TransferInv, NEW s \in Steps, ~Uploading(s), transfer' = transfer, FailDownload(s)
    PROVE  TransferInv'
<1>1. ~InResult(s)
  BY DoneInResult
<1>2. Moves(s, "failed", work[s])
  BY EntryKept DEF Moves, FailDownload, Enter
<1>3. TreeStays
  BY TreeUnchanged DEF FailDownload, TreeKept
<1>4. Entry(work[s]) /\ "failed" \in Stages
  BY EntryKept DEF Stages, UploadStages
<1>5. at'[s] = "failed" /\ OthersHold(s) /\ (Uploading(s)' <=> Uploading(s))
  BY <1>1, <1>2, <1>4, MoveFacts
<1>6. ~HoldsName(s) /\ ~HoldsName(s)'
  BY <1>5 DEF HoldsName
<1>7. NamesHeld'
  BY <1>5, <1>6, NamesStay DEF FailDownload
<1>8. DownloadSound(s)'
  BY <1>5 DEF DownloadSound, DownloadStages, Installing
<1> QED
  BY <1>1, <1>2, <1>3, <1>4, <1>5, <1>7, <1>8, Moved

\* A step that goes on and has of the files what was there or what it has put
\* there.
LEMMA UploadMove ==
    ASSUME TransferInv, NEW s \in Steps, Uploading(s), ~Over(s), at[s] # "start", NEW stage \in Packing,
           NEW w, Entry(w), Moves(s, stage, w), UNCHANGED <<tree, had>>, stored \subseteq stored',
           reserved' = reserved, UploadSound(s)'
    PROVE  TransferInv'
<1>1. ~InResult(s)
  BY DoneInResult DEF Over
<1>2. TreeStays
  BY TreeUnchanged DEF Moves
<1>3. stage \in Stages
  BY DEF Stages, UploadStages
<1>4. /\ at'[s] = stage /\ OthersHold(s) /\ ~InResult(s)'
      /\ (Uploading(s)' <=> Uploading(s))
  BY <1>1, <1>3, MoveFacts
<1>5. UploadSound(s)
  BY DEF TransferInv
<1>6. HoldsName(s) /\ HoldsName(s)'
  BY <1>4, <1>5 DEF HoldsName, UploadSound, UploadStages, Over
<1>7. NamesHeld'
  BY <1>4, <1>6, NamesStay DEF Moves
<1> QED
  BY <1>1, <1>2, <1>3, <1>4, <1>7, Moved

LEMMA DownloadMove ==
    ASSUME TransferInv, NEW s \in Steps, ~Uploading(s), NEW stage \in DownloadStages,
           NEW w, Entry(w), Moves(s, stage, w), TreeStays, reserved' = reserved,
           DownloadSound(s)'
    PROVE  TransferInv'
<1>1. ~InResult(s)
  BY DoneInResult
<1>2. stage \in Stages
  BY DEF Stages
<1>3. OthersHold(s) /\ (Uploading(s)' <=> Uploading(s))
  BY <1>1, <1>2, MoveFacts
<1>4. ~HoldsName(s) /\ ~HoldsName(s)'
  BY <1>3 DEF HoldsName
<1>5. NamesHeld'
  BY <1>3, <1>4, NamesStay DEF Moves
<1> QED
  BY <1>1, <1>2, <1>3, <1>5, Moved

LEMMA FilesChanged ==
    ASSUME TransferInv, NEW s \in Steps, NEW chosen, work' = [work EXCEPT ![s].files = chosen]
    PROVE  LET w == [files |-> chosen, archive |-> work[s].archive, todo |-> work[s].todo, members |-> work[s].members]
           IN  Entry(w) /\ work' = [work EXCEPT ![s] = w]
<1> DEFINE w == [files |-> chosen, archive |-> work[s].archive, todo |-> work[s].todo, members |-> work[s].members]
<1>1. Entry(w)
  BY DEF Entry
<1>2. [work[s] EXCEPT !.files = chosen] = w
  <2>1. work[s] = [files |-> work[s].files, archive |-> work[s].archive, todo |-> work[s].todo, members |-> work[s].members]
    BY EntryKept DEF Entry
  <2> QED
    BY <2>1
<1>3. work' = [work EXCEPT ![s] = [work[s] EXCEPT !.files = chosen]]
  OBVIOUS
<1> HIDE DEF w
<1>4. work' = [work EXCEPT ![s] = w]
  BY <1>2, <1>3
<1> QED
  BY <1>1, <1>4 DEF w

LEMMA WhoMoves ==
    ASSUME TransferInv, NEW s \in Steps
    PROVE  /\ at[s] \in {"collect", "archive", "open", "read", "stored"} => Uploading(s)
           /\ at[s] \in {"fetch", "install", "placed"} => ~Uploading(s)
BY DEF TransferInv, UploadSound, DownloadSound, UploadStages, DownloadStages, Packing, Installing

LEMMA ReserveStep ==
    ASSUME TransferInv, NEW s \in Steps, Reserve(s)
    PROVE  TransferInv'
<1>1. /\ at[s] = "start" /\ Uploading(s) /\ transfer' = transfer /\ ~Over(s)
  BY DEF Reserve, Running, Unnoticed, Over
<1>2. CASE FailUpload(s, FALSE)
  BY <1>1, <1>2, FailUploadStep
<1>3. CASE ~FailUpload(s, FALSE)
  <2>1. /\ Folding(s) \notin reserved /\ Cardinality(reserved) # MaxArtifacts
        /\ reserved' = reserved \cup {Folding(s)}
        /\ Enter(s, "collect") /\ UNCHANGED <<work, stored, results, tree, had>>
    BY <1>3 DEF Reserve, Folding, TreeKept
  <2>2. ~InResult(s)
    BY <1>1, DoneInResult
  <2>3. Moves(s, "collect", work[s])
    BY <1>1, <2>1, EntryKept DEF Moves, Enter
  <2>4. TreeStays
    BY <1>1, <2>1, TreeUnchanged
  <2>5. Entry(work[s]) /\ "collect" \in Stages
    BY EntryKept DEF Stages, UploadStages
  <2>6. /\ at'[s] = "collect" /\ OthersHold(s) /\ ~InResult(s)' /\ (Uploading(s)' <=> Uploading(s))
    BY <2>2, <2>3, <2>5, MoveFacts
  <2>7. ~HoldsName(s) /\ HoldsName(s)'
    BY <1>1, <2>2, <2>6 DEF HoldsName, Packing
  <2>8. NamesHeld'
    BY <1>1, <2>1, <2>6, <2>7, NameTaken
  <2>9. UploadSound(s)'
    <3>1. work[s].archive = <<>>
      BY <1>1 DEF TransferInv, UploadSound
    <3> QED
      BY <2>1, <2>6, <3>1 DEF UploadSound, UploadStages, Packing
  <2> QED
    BY <1>1, <2>2, <2>3, <2>4, <2>5, <2>6, <2>8, <2>9, Moved
<1> QED
  BY <1>2, <1>3

LEMMA CollectStep ==
    ASSUME TransferInv, NEW s \in Steps, Collect(s)
    PROVE  TransferInv'
<1> DEFINE c == Collected(tree, Request(s))
<1>1. /\ at[s] = "collect" /\ Uploading(s) /\ transfer' = transfer /\ ~Over(s)
  BY WhoMoves DEF Collect, Running, Unnoticed, Over
<1>2. CASE FailUpload(s, TRUE)
  BY <1>1, <1>2, FailUploadStep
<1>3. CASE /\ Enter(s, "done") /\ reserved' = Released(s, TRUE)
           /\ UNCHANGED <<work, stored, results>> /\ TreeKept
  <2>1. ~InResult(s)
    BY <1>1, DoneInResult
  <2>2. Moves(s, "done", work[s])
    BY <1>1, <1>3, EntryKept DEF Moves, Enter
  <2>3. TreeStays
    BY <1>1, <1>3, TreeUnchanged DEF TreeKept
  <2>4. Entry(work[s]) /\ "done" \in Stages
    BY EntryKept DEF Stages, UploadStages
  <2>5. /\ at'[s] = "done" /\ OthersHold(s) /\ ~InResult(s)' /\ (Uploading(s)' <=> Uploading(s))
    BY <2>1, <2>2, <2>4, MoveFacts
  <2>6. HoldsName(s) /\ ~HoldsName(s)'
    BY <1>1, <2>1, <2>5 DEF HoldsName, Packing
  <2>7. NamesHeld'
    BY <1>1, <1>3, <2>5, <2>6, NameFreed DEF Released, Folding
  <2>8. UploadSound(s)'
    BY <2>5 DEF UploadSound, UploadStages, Packing
  <2> QED
    BY <1>1, <2>1, <2>2, <2>3, <2>4, <2>5, <2>7, <2>8, Moved
<1>4. CASE /\ ~c.refused /\ Enter(s, "archive") /\ work' = [work EXCEPT ![s].files = c.files]
           /\ UNCHANGED <<reserved, stored, results>> /\ TreeKept
  <2> DEFINE w == [files |-> c.files, archive |-> work[s].archive, todo |-> work[s].todo, members |-> work[s].members]
  <2>1. IsFiniteSet(FilesOf(tree))
    BY DEF TransferInv, TransferTypeOK
  <2>2. /\ IsFiniteSet(c.files) /\ \A f \in c.files : f.path \in DOMAIN tree
        /\ \A f, e \in c.files : f.name = e.name => f = e
    BY <1>4, <2>1, SelectionFacts
  <2> HIDE DEF c
  <2>3. Entry(w) /\ work' = [work EXCEPT ![s] = w]
    BY <1>4, FilesChanged
  <2>4. work[s].archive = <<>>
    BY <1>1 DEF TransferInv, UploadSound
  <2>5. w.files = c.files /\ w.archive = <<>>
    BY <2>4
  <2> HIDE DEF w
  <2>6. Moves(s, "archive", w)
    BY <1>1, <1>4, <2>3 DEF Moves, Enter
  <2>7. ~InResult(s) /\ "archive" \in Stages
    BY <1>1, DoneInResult DEF Stages, UploadStages, Packing
  <2>8. at'[s] = "archive" /\ work'[s] = w /\ ~InResult(s)'
    BY <2>3, <2>6, <2>7, MoveFacts
  <2>9. FilesGathered(s)'
    <3>1. tree' = tree
      BY <1>4 DEF TreeKept
    <3>2. work'[s].files = c.files /\ work'[s].archive = <<>>
      BY <2>5, <2>8
    <3>3. DOMAIN work'[s].archive = {}
      BY <3>2
    <3> QED
      BY <2>2, <3>1, <3>2, <3>3 DEF FilesGathered
  <2>10. UploadSound(s)'
    BY <2>8, <2>9 DEF UploadSound, UploadStages, Packing
  <2> QED
    BY <1>1, <1>4, <2>3, <2>6, <2>10, UploadMove DEF TreeKept, Packing
<1> QED
  BY <1>2, <1>3, <1>4 DEF Collect

LEMMA CheckLinksStep ==
    ASSUME TransferInv, NEW s \in Steps, CheckLinks(s)
    PROVE  TransferInv'
<1>1. at[s] = "archive" /\ Uploading(s) /\ transfer' = transfer /\ ~Over(s)
  BY WhoMoves DEF CheckLinks, Running, Unnoticed, Over
<1>2. CASE FailUpload(s, TRUE)
  BY <1>1, <1>2, FailUploadStep
<1>3. CASE Enter(s, "open") /\ UNCHANGED <<reserved, work, stored, results>> /\ TreeKept
  <2>1. Moves(s, "open", work[s]) /\ Entry(work[s])
    BY <1>1, <1>3, EntryKept DEF Moves, Enter
  <2>2. ~InResult(s) /\ "open" \in Stages
    BY <1>1, DoneInResult DEF Stages, UploadStages, Packing
  <2>3. at'[s] = "open" /\ ~InResult(s)'
    BY <2>1, <2>2, MoveFacts
  <2>4. Unarchived(s)' # {}
    BY <1>3 DEF CheckLinks, Unarchived
  <2>5. FilesGathered(s)
    BY <1>1 DEF TransferInv, UploadSound, Packing
  <2>6. FilesGathered(s)'
    BY <1>3, <2>5 DEF FilesGathered, TreeKept
  <2>7. UploadSound(s)'
    BY <2>3, <2>4, <2>6 DEF UploadSound, UploadStages, Packing
  <2> QED
    BY <1>1, <1>3, <2>1, <2>7, UploadMove DEF TreeKept, Packing
<1> QED
  BY <1>2, <1>3 DEF CheckLinks

LEMMA TodoChanged ==
    ASSUME TransferInv, NEW s \in Steps, NEW todo, work' = [work EXCEPT ![s].todo = todo]
    PROVE  LET w == [files |-> work[s].files, archive |-> work[s].archive, todo |-> todo, members |-> work[s].members]
           IN  Entry(w) /\ work' = [work EXCEPT ![s] = w]
<1> DEFINE w == [files |-> work[s].files, archive |-> work[s].archive, todo |-> todo, members |-> work[s].members]
<1>1. Entry(w)
  BY DEF Entry
<1>2. [work[s] EXCEPT !.todo = todo] = w
  <2>1. work[s] = [files |-> work[s].files, archive |-> work[s].archive, todo |-> work[s].todo, members |-> work[s].members]
    BY EntryKept DEF Entry
  <2> QED
    BY <2>1
<1>3. work' = [work EXCEPT ![s] = [work[s] EXCEPT !.todo = todo]]
  OBVIOUS
<1> HIDE DEF w
<1>4. work' = [work EXCEPT ![s] = w]
  BY <1>2, <1>3
<1> QED
  BY <1>1, <1>4 DEF w

\* What is opened is the file that was selected, with a content it had.
LEMMA OpenedRecorded ==
    ASSUME TransferInv, NEW p \in DOMAIN tree, Opened(p).kind = "file"
    PROVE  <<Opened(p).id, Opened(p).content>> \in had
<1>1. Target \in DOMAIN tree
  BY DEF TransferInv, TransferTypeOK
<1>2. \E q \in DOMAIN tree : Opened(p) = tree[q]
  BY <1>1 DEF Opened
<1> QED
  BY <1>2, Recorded DEF TransferInv

LEMMA OpenSourceStep ==
    ASSUME TransferInv, NEW s \in Steps, OpenSource(s)
    PROVE  TransferInv'
<1> DEFINE f == Upcoming(s)
           node == Opened(f.path)
<1>1. at[s] = "open" /\ Uploading(s) /\ transfer' = transfer /\ ~Over(s)
  BY WhoMoves DEF OpenSource, Running, Unnoticed, Over
<1>2. CASE FailUpload(s, TRUE)
  BY <1>1, <1>2, FailUploadStep
<1>3. CASE /\ node.kind = "file" /\ SameFile(f.info, node)
           /\ Enter(s, "read") /\ work' = [work EXCEPT ![s].todo = {node}]
           /\ UNCHANGED <<reserved, stored, results>> /\ TreeKept
  <2> DEFINE w == [files |-> work[s].files, archive |-> work[s].archive, todo |-> {node}, members |-> work[s].members]
  <2>1. Entry(w) /\ work' = [work EXCEPT ![s] = w]
    BY <1>3, TodoChanged
  <2>2. w.files = work[s].files /\ w.archive = work[s].archive /\ w.todo = {node}
    OBVIOUS
  <2> HIDE DEF w
  <2>3. Moves(s, "read", w)
    BY <1>1, <1>3, <2>1 DEF Moves, Enter
  <2>4. ~InResult(s) /\ "read" \in Stages
    BY <1>1, DoneInResult DEF Stages, UploadStages, Packing
  <2>5. at'[s] = "read" /\ ~InResult(s)' /\ work'[s] = w
    BY <2>1, <2>3, <2>4, MoveFacts
  <2>6. FilesGathered(s) /\ Unarchived(s) # {}
    BY <1>1 DEF TransferInv, UploadSound, Packing
  <2>7. Unarchived(s)' = Unarchived(s)
    BY <2>2, <2>5 DEF Unarchived
  <2>8. f \in Unarchived(s) /\ Upcoming(s)' = f
    BY <2>6, <2>7 DEF Upcoming
  <2>9. FilesGathered(s)'
    BY <1>3, <2>2, <2>5, <2>6 DEF FilesGathered, TreeKept
  <2>10. f.path \in DOMAIN tree
    BY <2>6, <2>8 DEF FilesGathered, Unarchived
  <2>11. <<f.info.id, node.content>> \in had
    BY <1>3, <2>10, OpenedRecorded DEF SameFile
  <2>12. UploadSound(s)'
    <3> HIDE DEF f, node
    <3>1. \A n \in {node} : <<f.info.id, n.content>> \in had'
      BY <1>3, <2>11 DEF TreeKept
    <3> QED
      BY <2>2, <2>5, <2>6, <2>7, <2>8, <2>9, <3>1 DEF UploadSound, UploadStages, Packing
  <2> QED
    BY <1>1, <1>3, <2>1, <2>3, <2>12, UploadMove DEF TreeKept, Packing
<1> QED
  BY <1>2, <1>3 DEF OpenSource, Upcoming

Filled(archive, name, content) ==
    [n \in DOMAIN archive \cup {name} |-> IF n = name THEN content ELSE archive[n]]

LEMMA ArchivedFacts ==
    ASSUME NEW w, Entry(w), NEW name, NEW content
    PROVE  LET v == [files |-> w.files, archive |-> Filled(w.archive, name, content), todo |-> {}, members |-> w.members]
           IN  Archived(w, name, content) = v /\ Entry(v)
<1> DEFINE archive == Filled(w.archive, name, content)
           v == [files |-> w.files, archive |-> archive, todo |-> {}, members |-> w.members]
<1> SUFFICES [w EXCEPT !.archive = archive, !.todo = {}] = v
  BY DEF Archived, Entry, Filled
<1> HIDE DEF archive
<1> DEFINE first == [w EXCEPT !.archive = archive]
           u == [files |-> w.files, archive |-> archive, todo |-> w.todo, members |-> w.members]
<1>1. first = u
  BY DEF Entry
<1>2. [u EXCEPT !.todo = {}] = v
  OBVIOUS
<1>3. [w EXCEPT !.archive = archive, !.todo = {}] = [first EXCEPT !.todo = {}]
  OBVIOUS
<1> HIDE DEF first, u, v
<1> QED
  BY <1>1, <1>2, <1>3

LEMMA ReadSourceStep ==
    ASSUME TransferInv, NEW s \in Steps, ReadSource(s)
    PROVE  TransferInv'
<1> DEFINE f == Upcoming(s)
           before == CHOOSE n \in work[s].todo : TRUE
           archive == Filled(work[s].archive, f.name, before.content)
<1>1. at[s] = "read" /\ Uploading(s) /\ transfer' = transfer /\ ~Over(s)
  BY WhoMoves DEF ReadSource, Running, Unnoticed, Over
<1>2. CASE FailUpload(s, TRUE)
  BY <1>1, <1>2, FailUploadStep
<1>3. CASE /\ Enter(s, "archive") /\ work' = [work EXCEPT ![s] = Archived(work[s], f.name, before.content)]
           /\ UNCHANGED <<reserved, stored, results>> /\ TreeKept
  <2> DEFINE w == [files |-> work[s].files, archive |-> archive, todo |-> {}, members |-> work[s].members]
  <2>1. Entry(w) /\ work' = [work EXCEPT ![s] = w]
    <3>1. Entry(work[s])
      BY EntryKept
    <3>2. Archived(work[s], f.name, before.content) = w /\ Entry(w)
      <4> HIDE DEF f, before
      <4> QED
        BY <3>1, ArchivedFacts
    <3> HIDE DEF f, before, archive, w
    <3> QED
      BY <1>3, <3>2
  <2>2. w.files = work[s].files /\ w.archive = archive
    OBVIOUS
  <2> HIDE DEF w
  <2>3. Moves(s, "archive", w)
    BY <1>1, <1>3, <2>1 DEF Moves, Enter
  <2>4. ~InResult(s) /\ "archive" \in Stages
    BY <1>1, DoneInResult DEF Stages, UploadStages, Packing
  <2>5. at'[s] = "archive" /\ ~InResult(s)' /\ work'[s] = w
    BY <2>1, <2>3, <2>4, MoveFacts
  <2>6. FilesGathered(s) /\ Unarchived(s) # {} /\ <<f.info.id, before.content>> \in had
    BY <1>1 DEF TransferInv, UploadSound, Packing
  <2>7. f \in work[s].files
    BY <2>6 DEF Upcoming, Unarchived
  <2> HIDE DEF f, before
  <2>8. /\ DOMAIN archive = DOMAIN work[s].archive \cup {f.name}
        /\ archive[f.name] = before.content
        /\ \A n \in DOMAIN work[s].archive \ {f.name} : archive[n] = work[s].archive[n]
    BY DEF Filled
  <2> HIDE DEF archive
  <2>9. FilesGathered(s)'
    <3>1. tree' = tree /\ had' = had
      BY <1>3 DEF TreeKept
    <3>2. work'[s].files = work[s].files /\ work'[s].archive = archive
      BY <2>2, <2>5
    <3>3. DOMAIN archive \subseteq {e.name : e \in work[s].files}
      BY <2>6, <2>7, <2>8 DEF FilesGathered
    <3>4. ASSUME NEW e \in work[s].files, e.name \in DOMAIN archive
          PROVE  <<e.info.id, archive[e.name]>> \in had
      <4>1. CASE e.name = f.name
        <5>1. e = f
          BY <2>6, <2>7, <4>1 DEF FilesGathered
        <5> QED
          BY <2>6, <2>8, <5>1
      <4>2. CASE e.name # f.name
        BY <2>6, <2>8, <3>4, <4>2 DEF FilesGathered
      <4> QED
        BY <4>1, <4>2
    <3> QED
      BY <2>6, <3>1, <3>2, <3>3, <3>4 DEF FilesGathered
  <2>10. UploadSound(s)'
    BY <2>5, <2>9 DEF UploadSound, UploadStages, Packing
  <2> QED
    BY <1>1, <1>3, <2>1, <2>3, <2>10, UploadMove DEF TreeKept, Packing
<1>4. FailUpload(s, TRUE) \/
        \E after :
          /\ after = before /\ Enter(s, "archive")
          /\ work' = [work EXCEPT ![s] = Archived(work[s], f.name, Copied(before, after))]
          /\ UNCHANGED <<reserved, stored, results>> /\ TreeKept
  BY DEF ReadSource, Upcoming
<1>5. Copied(before, before) = before.content
  BY DEF Copied
<1> HIDE DEF before, f
<1> QED
  BY <1>2, <1>3, <1>4, <1>5

LEMMA StoreArchiveStep ==
    ASSUME TransferInv, NEW s \in Steps, StoreArchive(s)
    PROVE  TransferInv'
<1>1. at[s] = "archive" /\ Uploading(s) /\ transfer' = transfer /\ ~Over(s)
  BY WhoMoves DEF StoreArchive, Running, Unnoticed, Over
<1>2. /\ Unarchived(s) = {} /\ stored' = stored \cup {Artifact(s)} /\ Enter(s, "stored")
      /\ UNCHANGED <<reserved, work, results, tree, had>>
  BY DEF StoreArchive, TreeKept
<1>3. Moves(s, "stored", work[s]) /\ Entry(work[s])
  BY <1>1, <1>2, EntryKept DEF Moves, Enter
<1>4. ~InResult(s) /\ "stored" \in Stages
  BY <1>1, DoneInResult DEF Stages, UploadStages, Packing
<1>5. at'[s] = "stored" /\ ~InResult(s)'
  BY <1>3, <1>4, MoveFacts
<1>6. Unarchived(s)' = {} /\ Artifact(s)' = Artifact(s)
  BY <1>1, <1>2 DEF Unarchived, Artifact, Request
<1>7. FilesGathered(s)
  BY <1>1 DEF TransferInv, UploadSound, Packing
<1>8. FilesGathered(s)'
  BY <1>2, <1>7 DEF FilesGathered
<1>9. UploadSound(s)'
  BY <1>2, <1>5, <1>6, <1>8 DEF UploadSound, UploadStages, Packing
<1> QED
  BY <1>1, <1>2, <1>3, <1>9, UploadMove DEF Packing

LEMMA UploadFailsStep ==
    ASSUME TransferInv, NEW s \in Steps, UploadFails(s)
    PROVE  TransferInv'
<1>1. at[s] = "archive" /\ Uploading(s) /\ transfer' = transfer /\ ~Over(s) /\ FailUpload(s, TRUE)
  BY WhoMoves DEF UploadFails, Running, Over
<1> QED
  BY <1>1, FailUploadStep

LEMMA Appended ==
    ASSUME NEW s, s \in Seq(Range(s)), NEW x
    PROVE  /\ Append(s, x) \in Seq(Range(Append(s, x)))
           /\ Len(s) \in Nat /\ DOMAIN s = 1 .. Len(s)
           /\ DOMAIN Append(s, x) = DOMAIN s \cup {Len(s) + 1}
           /\ \A i \in DOMAIN s : Append(s, x)[i] = s[i]
           /\ Append(s, x)[Len(s) + 1] = x
<1> DEFINE all == Range(s) \cup {x}
           longer == Append(s, x)
<1>1. s \in Seq(all) /\ x \in all
  OBVIOUS
<1>2. Len(s) \in Nat /\ DOMAIN s = 1 .. Len(s)
  BY LenProperties
<1>3. longer \in Seq(all) /\ Len(longer) = Len(s) + 1 /\ longer[Len(s) + 1] = x
      /\ \A i \in 1 .. Len(s) : longer[i] = s[i]
  <2> HIDE DEF all
  <2> QED
    BY <1>1, AppendProperties
<1>4. DOMAIN longer = 1 .. Len(s) + 1
  <2> HIDE DEF all, longer
  <2> QED
    BY <1>3, LenProperties
<1> HIDE DEF longer
<1>5. longer \in Seq(Range(longer))
  <2>1. \A i \in 1 .. Len(longer) : longer[i] \in Range(longer)
    BY <1>3, <1>4 DEF Range
  <2>2. longer = [i \in 1 .. Len(longer) |-> longer[i]]
    <3> HIDE DEF all
    <3> QED
      BY <1>3, LenProperties
  <2> QED
    BY <2>1, <2>2, <1>2, <1>3, IsASeq
<1> QED
  BY <1>2, <1>3, <1>4, <1>5 DEF longer

LEMMA FinishUploadStep ==
    ASSUME TransferInv, NEW s \in Steps, FinishUpload(s)
    PROVE  TransferInv'
<1> DEFINE a == Artifact(s)
           n == Len(results) + 1
<1>1. at[s] = "stored" /\ Uploading(s) /\ transfer' = transfer /\ ~Over(s)
  BY WhoMoves DEF FinishUpload, Running, Unnoticed, Over
<1>2. /\ results' = Append(results, a) /\ at' = [at EXCEPT ![s] = "done"]
      /\ UNCHANGED <<reserved, work, stored, tree, had>>
  BY DEF FinishUpload, Enter, TreeKept
<1>3. Steps' = Steps /\ \A t \in Steps : Request(t)' = Request(t) /\ (Uploading(t)' <=> Uploading(t)) /\ Artifact(t)' = Artifact(t)
  BY <1>1, <1>2 DEF Steps, Request, Uploading, Artifact
<1>4. at \in [Steps -> Stages] /\ results \in Seq(Range(results))
  BY DEF TransferInv, TransferTypeOK, Stages
<1>5. /\ results' \in Seq(Range(results'))
      /\ n \notin DOMAIN results /\ DOMAIN results' = DOMAIN results \cup {n}
      /\ \A i \in DOMAIN results : results'[i] = results[i]
      /\ results'[n] = a
  <2> HIDE DEF a
  <2> QED
    BY <1>2, <1>4, Appended
<1>6. a.producer = s
  BY DEF Artifact
<1> HIDE DEF a, n
<1>7. /\ at'[s] = "done" /\ at' \in [Steps -> Stages]
      /\ \A t \in Steps \ {s} : at'[t] = at[t] /\ work'[t] = work[t]
  BY <1>2, <1>4 DEF Stages, UploadStages
<1>8. ~InResult(s) /\ InResult(s)' /\ \A t \in Steps \ {s} : InResult(t)' <=> InResult(t)
  <2>1. ~InResult(s)
    BY <1>1, DoneInResult
  <2> QED
    BY <1>5, <1>6, <2>1 DEF InResult
<1>9. NamesHeld'
  <2>1. OthersHold(s)
    BY <1>3, <1>7, <1>8 DEF OthersHold, HoldsName
  <2>2. HoldsName(s) /\ HoldsName(s)'
    BY <1>1, <1>3, <1>8 DEF HoldsName, Packing
  <2> QED
    BY <1>1, <1>2, <2>1, <2>2, NamesStay
<1>10. TransferTypeOK'
  BY <1>1, <1>2, <1>3, <1>5, <1>7 DEF TransferInv, TransferTypeOK, Stages, Contents, FilesOf
<1>11. ResultsSound'
  <2>1. ResultsSound
    BY DEF TransferInv
  <2>2. \A i \in DOMAIN results : results[i].producer # s
    BY <1>8 DEF InResult
  <2>3. ASSUME NEW i \in DOMAIN results', NEW t, t = results'[i].producer
        PROVE  t \in Steps' /\ Uploading(t)' /\ results'[i] = Artifact(t)'
    <3>1. CASE i \in DOMAIN results
      <4>1. t \in Steps /\ Uploading(t) /\ results[i] = Artifact(t)
        BY <1>5, <2>1, <2>3, <3>1 DEF ResultsSound
      <4> QED
        BY <1>3, <1>5, <3>1, <4>1
    <3>2. CASE i = n
      <4>1. t = s /\ results'[i] = Artifact(s)
        BY <1>5, <1>6, <2>3, <3>2 DEF a
      <4> QED
        BY <1>1, <1>3, <4>1
    <3> QED
      BY <1>5, <3>1, <3>2
  <2>4. \A i, j \in DOMAIN results' : results'[i].producer = results'[j].producer => i = j
    BY <1>5, <1>6, <2>1, <2>2 DEF ResultsSound
  <2> QED
    BY <2>3, <2>4 DEF ResultsSound
<1>12. UploadSound(s)'
  <2>1. FilesGathered(s) /\ Unarchived(s) = {} /\ Artifact(s) \in stored
    BY <1>1 DEF TransferInv, UploadSound, Packing
  <2>2. FilesGathered(s)' /\ Unarchived(s)' = {} /\ Artifact(s)' \in stored'
    BY <1>2, <1>3, <2>1 DEF FilesGathered, Unarchived
  <2> QED
    BY <1>7, <2>2 DEF UploadSound, UploadStages, Packing
<1>13. \A t \in Steps' : (IF Uploading(t) THEN UploadSound(t) ELSE DownloadSound(t))'
  <2> SUFFICES ASSUME NEW t \in Steps PROVE (IF Uploading(t) THEN UploadSound(t) ELSE DownloadSound(t))'
    BY <1>3
  <2>1. CASE t = s
    BY <1>1, <1>3, <1>12, <2>1
  <2>2. CASE t # s
    <3>1. Remains
      BY <1>1, <1>2 DEF Remains
    <3> QED
      BY <1>7, <1>8, <2>2, <3>1, Undisturbed
  <2> QED
    BY <2>1, <2>2
<1> QED
  BY <1>9, <1>10, <1>11, <1>13 DEF TransferInv

LEMMA MatchStep ==
    ASSUME TransferInv, NEW s \in Steps, Match(s)
    PROVE  TransferInv'
<1>1. at[s] = "start" /\ Downloading(s) /\ ~Uploading(s) /\ transfer' = transfer
  BY DEF Match, Running, Unnoticed, Downloading, Uploading
<1>2. CASE FailDownload(s)
  BY <1>1, <1>2, FailDownloadStep
<1>3. CASE /\ Enter(s, "fetch") /\ work' = [work EXCEPT ![s].todo = Matched(s)]
           /\ UNCHANGED <<reserved, stored, results>> /\ TreeKept
  <2> DEFINE w == [files |-> work[s].files, archive |-> work[s].archive, todo |-> Matched(s), members |-> work[s].members]
  <2>1. Entry(w) /\ work' = [work EXCEPT ![s] = w]
    BY <1>3, TodoChanged
  <2>2. w.todo = Matched(s) /\ w.members = <<>>
    BY <1>1 DEF TransferInv, DownloadSound
  <2> HIDE DEF w
  <2>3. Moves(s, "fetch", w)
    BY <1>1, <1>3, <2>1 DEF Moves, Enter
  <2>4. ~InResult(s) /\ "fetch" \in Stages
    BY <1>1, DoneInResult DEF Stages, DownloadStages
  <2>5. at'[s] = "fetch" /\ work'[s] = w
    BY <2>1, <2>3, <2>4, MoveFacts
  <2>6. Matched(s)' = Matched(s) /\ Needs' = Needs
    BY <1>1 DEF Matched, Needs, Request
  <2>7. DOMAIN work'[s].members = {}
    <3>1. work'[s].members = <<>>
      BY <2>2, <2>5
    <3> QED
      BY <3>1
  <2>8. work'[s].todo = Matched(s)
    BY <2>2, <2>5
  <2>9. Gathered(s)' = {}
    BY <2>6, <2>8 DEF Gathered
  <2>10. MembersFetched(s)'
    BY <2>6, <2>7, <2>8, <2>9 DEF MembersFetched
  <2>11. DownloadSound(s)'
    BY <2>5, <2>10 DEF DownloadSound, DownloadStages, Installing
  <2>12. TreeStays
    BY <1>1, <1>3, TreeUnchanged DEF TreeKept
  <2> QED
    BY <1>1, <1>3, <2>1, <2>3, <2>11, <2>12, DownloadMove DEF DownloadStages
<1> QED
  BY <1>2, <1>3 DEF Match

\* The members of a download once it has the artifact at place i too.
Joined(w, i) ==
    LET archive == Needs[i].archive IN
    [n \in DOMAIN archive \cup DOMAIN w.members |-> IF n \in DOMAIN archive THEN archive[n] ELSE w.members[n]]

LEMMA StagedFacts ==
    ASSUME NEW w, Entry(w), NEW i
    PROVE  LET v == [files |-> w.files, archive |-> w.archive, todo |-> w.todo \ {i}, members |-> Joined(w, i)]
           IN  Staged(w, i) = v /\ Entry(v)
<1> DEFINE members == Joined(w, i)
           todo == w.todo \ {i}
           v == [files |-> w.files, archive |-> w.archive, todo |-> todo, members |-> members]
<1> SUFFICES [w EXCEPT !.members = members, !.todo = todo] = v
  BY DEF Staged, Entry, Joined
<1> HIDE DEF members, todo
<1> DEFINE first == [w EXCEPT !.members = members]
           u == [files |-> w.files, archive |-> w.archive, todo |-> w.todo, members |-> members]
<1>1. first = u
  BY DEF Entry
<1>2. [u EXCEPT !.todo = todo] = v
  OBVIOUS
<1>3. [w EXCEPT !.members = members, !.todo = todo] = [first EXCEPT !.todo = todo]
  OBVIOUS
<1> HIDE DEF first, u, v
<1> QED
  BY <1>1, <1>2, <1>3

LEMMA PositionsNatural ==
    ASSUME TransferInv, NEW s \in Steps
    PROVE  Matched(s) \subseteq Nat
<1>1. Needs \in Seq(Range(Needs))
  BY TransfersAssumption DEF TransferInv, TransferTypeOK, Needs
<1>2. DOMAIN Needs = 1 .. Len(Needs) /\ Len(Needs) \in Nat
  BY <1>1, LenProperties
<1> QED
  BY <1>2 DEF Matched

LEMMA FetchStep ==
    ASSUME TransferInv, NEW s \in Steps, Fetch(s)
    PROVE  TransferInv'
<1>1. at[s] = "fetch" /\ ~Uploading(s) /\ transfer' = transfer
  BY WhoMoves DEF Fetch, Running, Unnoticed
<1>2. CASE FailDownload(s)
  BY <1>1, <1>2, FailDownloadStep
<1>3. CASE \E i \in work[s].todo :
             /\ \A j \in work[s].todo : i <= j
             /\ work' = [work EXCEPT ![s] = Staged(work[s], i)]
             /\ UNCHANGED <<at, reserved, stored, results>> /\ TreeKept
  <2>1. PICK i \in work[s].todo :
             /\ \A j \in work[s].todo : i <= j
             /\ work' = [work EXCEPT ![s] = Staged(work[s], i)]
             /\ UNCHANGED <<at, reserved, stored, results>> /\ TreeKept
    BY <1>3
  <2> DEFINE w == [files |-> work[s].files, archive |-> work[s].archive, todo |-> work[s].todo \ {i},
                   members |-> Joined(work[s], i)]
  <2>2. Entry(w) /\ work' = [work EXCEPT ![s] = w]
    <3>1. Entry(work[s])
      BY EntryKept
    <3>2. Staged(work[s], i) = w /\ Entry(w)
      BY <3>1, StagedFacts
    <3> HIDE DEF w
    <3> QED
      BY <2>1, <3>2
  <2>3. w.todo = work[s].todo \ {i} /\ w.members = Joined(work[s], i)
    OBVIOUS
  <2> HIDE DEF w
  <2>4. Moves(s, "fetch", w)
    BY <1>1, <2>1, <2>2, EntryKept DEF Moves
  <2>5. ~InResult(s) /\ "fetch" \in Stages
    BY <1>1, DoneInResult DEF Stages, DownloadStages
  <2>6. at'[s] = "fetch" /\ work'[s] = w
    BY <2>2, <2>4, <2>5, MoveFacts
  <2>7. MembersFetched(s)
    BY <1>1 DEF TransferInv, DownloadSound
  <2>8. Matched(s)' = Matched(s) /\ Needs' = Needs
    BY <1>1 DEF Matched, Needs, Request
  <2>9. i \in Matched(s) /\ Gathered(s)' = Gathered(s) \cup {i}
    BY <2>3, <2>6, <2>7, <2>8 DEF MembersFetched, Gathered
  <2>10. \A j \in Gathered(s) : j < i
    BY <2>7 DEF MembersFetched
  <2>11. /\ DOMAIN work'[s].members = DOMAIN Needs[i].archive \cup DOMAIN work[s].members
         /\ \A n \in DOMAIN Needs[i].archive : work'[s].members[n] = Needs[i].archive[n]
         /\ \A n \in DOMAIN work[s].members \ DOMAIN Needs[i].archive : work'[s].members[n] = work[s].members[n]
    BY <2>3, <2>6 DEF Joined
  <2>12. MembersFetched(s)'
    <3>1. (work[s].todo \subseteq Matched(s))'
      BY <2>3, <2>6, <2>7, <2>8 DEF MembersFetched
    <3>2. (\A j \in Gathered(s), k \in work[s].todo : j < k)'
      <4> SUFFICES ASSUME NEW j \in Gathered(s) \cup {i}, NEW k \in work[s].todo \ {i} PROVE j < k
        BY <2>3, <2>6, <2>9
      <4>1. k \in Nat /\ i \in Nat
        BY <2>7, <2>9, PositionsNatural DEF MembersFetched
      <4> QED
        BY <2>1, <2>7, <4>1 DEF MembersFetched
    <3>3. (\A j \in Gathered(s) : DOMAIN Needs[j].archive \subseteq DOMAIN work[s].members)'
      BY <2>7, <2>8, <2>9, <2>11 DEF MembersFetched
    <3>4. ASSUME NEW n \in DOMAIN work'[s].members PROVE \E k \in Gathered(s)' : MemberOf(s, n, k)'
      <4>1. CASE n \in DOMAIN Needs[i].archive
        <5>1. \A j \in Gathered(s)' : j <= i
          BY <2>9, <2>10, PositionsNatural DEF Gathered
        <5>2. MemberOf(s, n, i)'
          BY <2>8, <2>9, <2>11, <4>1, <5>1 DEF MemberOf
        <5> QED
          BY <2>9, <5>2
      <4>2. CASE n \notin DOMAIN Needs[i].archive
        <5>1. n \in DOMAIN work[s].members
          BY <2>11, <3>4, <4>2
        <5>2. PICK k \in Gathered(s) : MemberOf(s, n, k)
          BY <2>7, <5>1 DEF MembersFetched
        <5>3. MemberOf(s, n, k)'
          BY <2>8, <2>9, <2>11, <4>2, <5>1, <5>2 DEF MemberOf
        <5> QED
          BY <2>9, <5>3
      <4> QED
        BY <4>1, <4>2
    <3> QED
      BY <3>1, <3>2, <3>3, <3>4 DEF MembersFetched
  <2>13. DownloadSound(s)'
    BY <2>6, <2>12 DEF DownloadSound, DownloadStages, Installing
  <2>14. TreeStays
    BY <1>1, <2>1, TreeUnchanged DEF TreeKept
  <2> QED
    BY <1>1, <2>1, <2>2, <2>4, <2>13, <2>14, DownloadMove DEF DownloadStages
<1> QED
  BY <1>2, <1>3 DEF Fetch

LEMMA FetchFailsStep ==
    ASSUME TransferInv, NEW s \in Steps, FetchFails(s)
    PROVE  TransferInv'
<1>1. ~Uploading(s) /\ transfer' = transfer /\ FailDownload(s)
  BY WhoMoves DEF FetchFails, Running
<1> QED
  BY <1>1, FailDownloadStep

\* The members stay as they are while they are installed.
LEMMA MembersKept ==
    ASSUME TransferInv, NEW s \in Steps, transfer' = transfer, MembersFetched(s),
           work'[s].todo = work[s].todo, work'[s].members = work[s].members
    PROVE  MembersFetched(s)'
<1>1. Matched(s)' = Matched(s) /\ Needs' = Needs
  BY DEF Matched, Needs, Request
<1>2. Gathered(s)' = Gathered(s)
  BY <1>1 DEF Gathered
<1> QED
  BY <1>1, <1>2 DEF MembersFetched, MemberOf

LEMMA PreflightStep ==
    ASSUME TransferInv, NEW s \in Steps, Preflight(s)
    PROVE  TransferInv'
<1> DEFINE chosen == {[path |-> Destination(s, n), name |-> n] : n \in DOMAIN work[s].members}
<1>1. at[s] = "fetch" /\ work[s].todo = {} /\ ~Uploading(s) /\ transfer' = transfer
  BY WhoMoves DEF Preflight, Running, Unnoticed
<1>2. CASE FailDownload(s)
  BY <1>1, <1>2, FailDownloadStep
<1>3. CASE /\ Enter(s, "install") /\ work' = [work EXCEPT ![s].files = chosen]
           /\ UNCHANGED <<reserved, stored, results>> /\ TreeKept
  <2> DEFINE w == [files |-> chosen, archive |-> work[s].archive, todo |-> work[s].todo, members |-> work[s].members]
  <2>1. \A f \in chosen : f.name \in DOMAIN work[s].members
    OBVIOUS
  <2>2. ASSUME NEW n \in DOMAIN work[s].members PROVE \E f \in chosen : f.name = n
    <3>1. [path |-> Destination(s, n), name |-> n] \in chosen
      OBVIOUS
    <3> HIDE DEF chosen
    <3> QED
      BY <3>1
  <2> HIDE DEF chosen
  <2>3. Entry(w) /\ work' = [work EXCEPT ![s] = w]
    BY <1>3, FilesChanged
  <2>4. w.files = chosen /\ w.todo = {} /\ w.todo = work[s].todo /\ w.members = work[s].members
    BY <1>1
  <2> HIDE DEF w
  <2>5. Moves(s, "install", w)
    BY <1>1, <1>3, <2>3 DEF Moves, Enter
  <2>6. ~InResult(s) /\ "install" \in Stages
    BY <1>1, DoneInResult DEF Stages, DownloadStages, Installing
  <2>7. at'[s] = "install" /\ work'[s] = w
    BY <2>3, <2>5, <2>6, MoveFacts
  <2>8. MembersFetched(s)
    BY <1>1 DEF TransferInv, DownloadSound
  <2>9. MembersFetched(s)'
    BY <1>1, <2>4, <2>7, <2>8, MembersKept
  <2>10. MembersInstalled(s)'
    BY <2>1, <2>2, <2>4, <2>7 DEF MembersInstalled
  <2>11. DownloadSound(s)'
    BY <2>7, <2>9, <2>10 DEF DownloadSound, DownloadStages, Installing
  <2>12. TreeStays
    BY <1>1, <1>3, TreeUnchanged DEF TreeKept
  <2> QED
    BY <1>1, <1>3, <2>3, <2>5, <2>11, <2>12, DownloadMove DEF DownloadStages, Installing
<1> QED
  BY <1>2, <1>3 DEF Preflight

LEMMA PlaceStep ==
    ASSUME TransferInv, NEW s \in Steps, Place(s)
    PROVE  TransferInv'
<1> DEFINE p == (CHOOSE f \in work[s].files : TRUE).path
           stage == IF Obstructed(p) THEN "failed" ELSE "placed"
<1>1. at[s] = "install" /\ work[s].files # {} /\ ~Uploading(s) /\ transfer' = transfer
  BY WhoMoves DEF Place, Running, Unnoticed
<1>2. CASE FailDownload(s)
  BY <1>1, <1>2, FailDownloadStep
<1>3. CASE /\ tree' = [q \in DOMAIN tree \cup Above(p) |-> IF q \in Above(p) THEN Directory ELSE tree[q]]
           /\ Enter(s, stage) /\ UNCHANGED <<reserved, work, stored, results, had>>
  <2>1. stage \in DownloadStages /\ stage \in {"failed", "placed"}
    BY DEF DownloadStages, Installing
  <2> HIDE DEF p, stage
  <2>2. Moves(s, stage, work[s]) /\ Entry(work[s])
    BY <1>1, <1>3, EntryKept DEF Moves, Enter
  <2>3. ~InResult(s) /\ stage \in Stages
    BY <1>1, <2>1, DoneInResult DEF Stages
  <2>4. at'[s] = stage
    BY <2>2, <2>3, MoveFacts
  <2>5. MembersFetched(s) /\ MembersInstalled(s)
    BY <1>1 DEF TransferInv, DownloadSound, Installing
  <2>6. MembersFetched(s)'
    BY <1>1, <1>3, <2>5, MembersKept
  <2>7. MembersInstalled(s)'
    BY <1>3, <2>5 DEF MembersInstalled, Installed
  <2>8. DownloadSound(s)'
    BY <1>1, <1>3, <2>1, <2>4, <2>6, <2>7 DEF DownloadSound, DownloadStages, Installing
  <2>9. TreeStays
    <3>1. \A q \in DOMAIN tree' : tree'[q].kind = "file" => q \in DOMAIN tree /\ tree'[q] = tree[q]
      BY <1>3 DEF Directory
    <3>2. FilesOf(tree') \subseteq FilesOf(tree)
      BY <3>1 DEF FilesOf
    <3>3. IsFiniteSet(FilesOf(tree'))
      BY <3>2, FS_Subset DEF TransferInv, TransferTypeOK
    <3>4. {m \in Range(tree') : m.kind = "file"} \subseteq {m \in Range(tree) : m.kind = "file"}
      BY <3>1 DEF Range
    <3>5. Contents(tree') \subseteq Contents(tree)
      BY <3>4 DEF Contents
    <3> QED
      BY <1>1, <1>3, <3>3, <3>5 DEF TreeStays, Remains, TransferInv, TransferTypeOK
  <2> QED
    BY <1>1, <1>3, <2>1, <2>2, <2>8, <2>9, DownloadMove
<1> QED
  BY <1>2, <1>3 DEF Place

\* The file put at a place is one more at most, and its content is remembered.
LEMMA NodePut ==
    ASSUME TransferInv, NEW p, FilesOf(tree') \subseteq FilesOf(tree) \cup {p}
    PROVE  IsFiniteSet(FilesOf(tree'))
<1>1. IsFiniteSet(FilesOf(tree) \cup {p})
  BY FS_AddElement DEF TransferInv, TransferTypeOK
<1> QED
  BY <1>1, FS_Subset

LEMMA RenameStep ==
    ASSUME TransferInv, NEW s \in Steps, Rename(s)
    PROVE  TransferInv'
<1> DEFINE f == CHOOSE g \in work[s].files : TRUE
           chosen == work[s].files \ {f}
           node == Regular(<<s>> \o f.name, work[s].members[f.name], 0)
<1>1. at[s] = "placed" /\ ~Uploading(s) /\ transfer' = transfer
  BY WhoMoves DEF Rename, Unnoticed
<1>2. CASE FailDownload(s)
  BY <1>1, <1>2, FailDownloadStep
<1>3. CASE /\ tree' = [q \in DOMAIN tree \cup {f.path} |-> IF q = f.path THEN node ELSE tree[q]]
           /\ Remember /\ work' = [work EXCEPT ![s].files = chosen]
           /\ Enter(s, "install") /\ UNCHANGED <<reserved, stored, results>>
  <2> DEFINE w == [files |-> chosen, archive |-> work[s].archive, todo |-> work[s].todo, members |-> work[s].members]
  <2>1. MembersFetched(s) /\ MembersInstalled(s) /\ work[s].files # {}
    BY <1>1 DEF TransferInv, DownloadSound, Installing
  <2>2. f \in work[s].files
    BY <2>1
  <2>3. node.kind = "file" /\ node.id = <<s>> \o f.name /\ node.content = work[s].members[f.name]
    BY DEF Regular
  <2> HIDE DEF f, node
  <2>4. Entry(w) /\ work' = [work EXCEPT ![s] = w]
    <3> HIDE DEF chosen
    <3> QED
      BY <1>3, FilesChanged
  <2>5. w.files = chosen /\ w.todo = work[s].todo /\ w.members = work[s].members
    OBVIOUS
  <2> HIDE DEF w
  <2>6. Moves(s, "install", w)
    BY <1>1, <1>3, <2>4 DEF Moves, Enter
  <2>7. ~InResult(s) /\ "install" \in Stages
    BY <1>1, DoneInResult DEF Stages, DownloadStages, Installing
  <2>8. at'[s] = "install" /\ work'[s] = w
    BY <2>4, <2>6, <2>7, MoveFacts
  <2>9. MembersFetched(s)'
    BY <1>1, <2>1, <2>5, <2>8, MembersKept
  <2>10. had' = had \cup Contents(tree')
    BY <1>3 DEF Remember
  <2>11. <<node.id, node.content>> \in had'
    <3>1. f.path \in DOMAIN tree' /\ tree'[f.path] = node
      BY <1>3
    <3>2. node \in {m \in Range(tree') : m.kind = "file"}
      BY <2>3, <3>1 DEF Range
    <3> QED
      BY <2>10, <3>2 DEF Contents
  <2>12. MembersInstalled(s)'
    <3>1. ASSUME NEW n \in DOMAIN work[s].members
          PROVE  (\E e \in chosen : e.name = n) \/ << <<s>> \o n, work[s].members[n]>> \in had'
      <4>1. CASE n = f.name
        BY <2>3, <2>11, <4>1
      <4>2. CASE n # f.name
        BY <2>1, <2>10, <4>2 DEF MembersInstalled, Installed
      <4> QED
        BY <4>1, <4>2
    <3> QED
      BY <2>1, <2>5, <2>8, <3>1 DEF MembersInstalled, Installed
  <2>13. DownloadSound(s)'
    BY <2>8, <2>9, <2>12 DEF DownloadSound, DownloadStages, Installing
  <2>14. TreeStays
    <3>1. FilesOf(tree') \subseteq FilesOf(tree) \cup {f.path}
      BY <1>3 DEF FilesOf
    <3>2. IsFiniteSet(FilesOf(tree'))
      BY <3>1, NodePut
    <3> QED
      BY <1>1, <1>3, <2>10, <3>2 DEF TreeStays, Remains
  <2> QED
    BY <1>1, <1>3, <2>4, <2>6, <2>13, <2>14, DownloadMove DEF DownloadStages, Installing
<1> QED
  BY <1>2, <1>3 DEF Rename

LEMMA FinishDownloadStep ==
    ASSUME TransferInv, NEW s \in Steps, FinishDownload(s)
    PROVE  TransferInv'
<1>1. at[s] = "install" /\ work[s].files = {} /\ ~Uploading(s) /\ transfer' = transfer
  BY WhoMoves DEF FinishDownload, Running, Unnoticed
<1>2. Enter(s, "done") /\ UNCHANGED <<reserved, work, stored, results, tree, had>>
  BY DEF FinishDownload, TreeKept
<1>3. Moves(s, "done", work[s]) /\ Entry(work[s])
  BY <1>1, <1>2, EntryKept DEF Moves, Enter
<1>4. ~InResult(s) /\ "done" \in Stages
  BY <1>1, DoneInResult DEF Stages, DownloadStages, Installing
<1>5. at'[s] = "done"
  BY <1>3, <1>4, MoveFacts
<1>6. MembersFetched(s) /\ MembersInstalled(s)
  BY <1>1 DEF TransferInv, DownloadSound, Installing
<1>7. MembersFetched(s)'
  BY <1>1, <1>2, <1>6, MembersKept
<1>8. MembersInstalled(s)'
  BY <1>2, <1>6 DEF MembersInstalled, Installed
<1>9. DownloadSound(s)'
  BY <1>1, <1>2, <1>5, <1>7, <1>8 DEF DownloadSound, DownloadStages, Installing
<1>10. TreeStays
  BY <1>1, <1>2, TreeUnchanged
<1> QED
  BY <1>1, <1>2, <1>3, <1>9, <1>10, DownloadMove DEF DownloadStages, Installing

LEMMA AbortStep ==
    ASSUME TransferInv, NEW s \in Steps, Abort(s)
    PROVE  TransferInv'
<1>1. transfer' = transfer /\ ~Over(s)
  BY DEF Abort, Unnoticed
<1>2. CASE Uploading(s)
  <2>1. FailUpload(s, at[s] # "start")
    BY <1>2 DEF Abort
  <2> QED
    BY <1>1, <1>2, <2>1, FailUploadStep
<1>3. CASE ~Uploading(s)
  BY <1>1, <1>3, FailDownloadStep DEF Abort
<1> QED
  BY <1>2, <1>3

-----------------------------------------------------------------------------
(* What happens around the steps.                                          *)

\* Where no step moves the tree may change, if it is remembered.
LEMMA TreeMoves ==
    ASSUME TransferInv, UNCHANGED <<transfer, reserved, at, work, stored, results>>, TreeStays
    PROVE  TransferInv'
<1>1. Steps' = Steps /\ \A t \in Steps : InResult(t)' <=> InResult(t)
  BY DEF Steps, InResult
<1>2. TransferTypeOK'
  BY <1>1 DEF TransferInv, TransferTypeOK, TreeStays, Remains, FilesOf, Contents
<1>3. NamesHeld'
  <2>1. \A t \in Steps : Folding(t)' = Folding(t) /\ (HoldsName(t)' <=> HoldsName(t))
    BY <1>1 DEF Folding, Request, HoldsName, Uploading
  <2> QED
    BY <1>1, <2>1 DEF TransferInv, NamesHeld
<1>4. ResultsSound'
  <2>1. \A t \in Steps : Artifact(t)' = Artifact(t) /\ (Uploading(t)' <=> Uploading(t))
    BY DEF Artifact, Request, Uploading
  <2> QED
    BY <1>1, <2>1 DEF TransferInv, ResultsSound
<1>5. \A t \in Steps : (IF Uploading(t) THEN UploadSound(t) ELSE DownloadSound(t))'
  BY <1>1, Undisturbed DEF TreeStays
<1> QED
  BY <1>1, <1>2, <1>3, <1>4, <1>5 DEF TransferInv

LEMMA DisturbStep ==
    ASSUME TransferInv, NEW p \in DOMAIN tree, Disturb(p)
    PROVE  TransferInv'
<1>1. \E n : tree' = [tree EXCEPT ![p] = n]
  BY DEF Disturb
<1>2. had' = had \cup Contents(tree') /\ UNCHANGED <<transfer, reserved, at, work, stored, results>>
  BY DEF Disturb, Remember
<1>3. DOMAIN tree' = DOMAIN tree /\ FilesOf(tree') \subseteq FilesOf(tree) \cup {p}
  BY <1>1 DEF FilesOf
<1>4. IsFiniteSet(FilesOf(tree'))
  BY <1>3, NodePut
<1>5. TreeStays
  BY <1>2, <1>3, <1>4 DEF TreeStays, Remains
<1> QED
  BY <1>2, <1>5, TreeMoves

LEMMA TransferStep ==
    ASSUME TransferInv, [TransferNext]_transferVars
    PROVE  TransferInv'
<1>1. CASE UNCHANGED <<transfer, tree, reserved, at, work, stored, results, had>>
  <2>1. TreeStays
    BY <1>1, TreeUnchanged
  <2> QED
    BY <1>1, <2>1, TreeMoves
<1>2. ASSUME NEW s \in Steps,
             \/ Reserve(s) \/ Collect(s) \/ CheckLinks(s) \/ OpenSource(s) \/ ReadSource(s)
             \/ StoreArchive(s) \/ UploadFails(s) \/ FinishUpload(s)
      PROVE  TransferInv'
  BY <1>2, ReserveStep, CollectStep, CheckLinksStep, OpenSourceStep, ReadSourceStep, StoreArchiveStep,
     UploadFailsStep, FinishUploadStep
<1>3. ASSUME NEW s \in Steps,
             \/ Match(s) \/ Fetch(s) \/ FetchFails(s) \/ Preflight(s) \/ Place(s) \/ Rename(s)
             \/ FinishDownload(s) \/ Abort(s)
      PROVE  TransferInv'
  BY <1>3, MatchStep, FetchStep, FetchFailsStep, PreflightStep, PlaceStep, RenameStep,
     FinishDownloadStep, AbortStep
<1>4. ASSUME NEW s \in Steps, Stop(s) PROVE TransferInv'
  BY <1>1, <1>4 DEF Stop
<1>5. ASSUME NEW s \in Steps, NEW name \in ArtifactNames(s), RegisterMask(name) PROVE TransferInv'
  BY <1>1, <1>5 DEF RegisterMask
<1>6. ASSUME NEW p \in DOMAIN tree, Disturb(p) PROVE TransferInv'
  BY <1>6, DisturbStep
<1>7. ASSUME TransferOver \/ UNCHANGED transferVars PROVE TransferInv'
  BY <1>1, <1>7 DEF TransferOver, transferVars
<1> QED
  BY <1>2, <1>3, <1>4, <1>5, <1>6, <1>7 DEF TransferNext

LEMMA TransferStart ==
    ASSUME TransferInit
    PROVE  TransferInv
<1>1. /\ transfer \in Transfers /\ tree = transfer.tree /\ reserved = {} /\ results = <<>>
      /\ at = [s \in Steps |-> "start"] /\ had = Contents(tree)
      /\ work = [s \in Steps |-> [files |-> {}, archive |-> <<>>, todo |-> {}, members |-> <<>>]]
  BY DEF TransferInit
<1>2. DOMAIN results = {} /\ \A s \in Steps : ~InResult(s)
  <2>1. DOMAIN results = {}
    BY <1>1
  <2> QED
    BY <2>1 DEF InResult
<1>3. TransferTypeOK
  <2>1. IsFiniteSet(FilesOf(tree)) /\ Target \in DOMAIN tree
    <3>1. FilesOf(tree) \subseteq DOMAIN tree
      BY DEF FilesOf
    <3> QED
      BY <1>1, <3>1, TransfersAssumption, FS_Subset
  <2>2. at \in [Steps -> Stages]
    BY <1>1 DEF Stages, UploadStages
  <2>3. results \in Seq(Range(results))
    BY <1>1, EmptySeq
  <2>4. \A s \in Steps : work[s] = [files |-> {}, archive |-> <<>>, todo |-> {}, members |-> <<>>]
    BY <1>1
  <2>5. work = [s \in Steps |-> [files |-> work[s].files, archive |-> work[s].archive,
                                 todo |-> work[s].todo, members |-> work[s].members]]
    BY <1>1, <2>4
  <2> QED
    BY <1>1, <2>1, <2>2, <2>3, <2>5 DEF TransferTypeOK, Stages
<1>4. NamesHeld
  <2>1. \A s \in Steps : ~HoldsName(s)
    BY <1>1, <1>2 DEF HoldsName, Packing
  <2>2. IsFiniteSet(reserved) /\ Cardinality(reserved) = 0
    BY <1>1, FS_EmptySet
  <2>3. 0 <= MaxArtifacts
    BY TransfersAssumption
  <2> QED
    BY <1>1, <2>1, <2>2, <2>3 DEF NamesHeld
<1>5. ResultsSound
  BY <1>2 DEF ResultsSound
<1>6. \A s \in Steps : UploadSound(s) /\ DownloadSound(s)
  BY <1>1, <1>2 DEF UploadSound, DownloadSound, UploadStages, DownloadStages, Packing, Installing
<1> QED
  BY <1>3, <1>4, <1>5, <1>6 DEF TransferInv

THEOREM TransferInvariant == TransferSpec => []TransferInv
BY TransferStart, TransferStep, PTL DEF TransferSpec

-----------------------------------------------------------------------------
(* What the invariant says of the result.                                  *)

LEMMA ResultsFit ==
    ASSUME TransferInv
    PROVE  Len(results) <= MaxArtifacts
<1> DEFINE nameOf == [i \in DOMAIN results |-> Folding(results[i].producer)]
<1>1. Len(results) \in Nat /\ DOMAIN results = 1 .. Len(results)
  BY LenProperties DEF TransferInv, TransferTypeOK
<1>2. \A i \in DOMAIN results :
        LET s == results[i].producer IN s \in Steps /\ HoldsName(s) /\ Folding(s) \in reserved
  BY DEF TransferInv, ResultsSound, HoldsName, InResult, NamesHeld
<1>3. nameOf \in [DOMAIN results -> reserved]
  BY <1>2
<1>4. \A i, j \in DOMAIN results : nameOf[i] = nameOf[j] => i = j
  BY <1>2 DEF TransferInv, NamesHeld, ResultsSound
<1>5. nameOf \in Injection(1 .. Len(results), reserved)
  BY <1>1, <1>3, <1>4 DEF Injection, IsInjective
<1>6. Cardinality(1 .. Len(results)) = Len(results)
  <2> DEFINE n == Len(results)
  <2>1. n \in Int /\ 1 \in Int /\ n \in Nat
    BY <1>1
  <2> HIDE DEF n
  <2>2. Cardinality(1 .. n) = IF 1 > n THEN 0 ELSE n - 1 + 1
    BY <2>1, FS_Interval
  <2>3. Cardinality(1 .. n) = n
    BY <2>1, <2>2
  <2> QED
    BY <2>3 DEF n
<1>7. IsFiniteSet(reserved) /\ Cardinality(reserved) <= MaxArtifacts /\ Cardinality(reserved) \in Nat
  BY FS_CardinalityType DEF TransferInv, NamesHeld
<1> HIDE DEF nameOf
<1>8. Cardinality(1 .. Len(results)) <= Cardinality(reserved)
  BY <1>5, <1>7, FS_Injection
<1> QED
  BY <1>1, <1>6, <1>7, <1>8, TransfersAssumption

\* The last artifact that has a member gives it.
LEMMA LastOfFetched ==
    ASSUME TransferInv, NEW s \in Steps, MembersFetched(s), work[s].todo = {},
           NEW i \in Matched(s), NEW n \in DOMAIN Needs[i].archive
    PROVE  n \in DOMAIN work[s].members /\ LastMember(s, n) = work[s].members[n]
<1> DEFINE having == {j \in Matched(s) : n \in DOMAIN Needs[j].archive}
<1>1. Gathered(s) = Matched(s)
  BY DEF Gathered
<1>2. n \in DOMAIN work[s].members
  BY <1>1 DEF MembersFetched
<1>3. PICK k \in Gathered(s) : MemberOf(s, n, k)
  BY <1>2 DEF MembersFetched
<1>4. k \in having /\ \A j \in having : j <= k
  BY <1>1, <1>3 DEF MemberOf
<1>5. \A j \in having : j \in Nat
  BY PositionsNatural
<1> HIDE DEF having
<1>6. Max(having) = k
  BY <1>4, <1>5 DEF Max
<1> QED
  BY <1>2, <1>3, <1>6 DEF LastMember, MemberOf, having

LEMMA TransferInvSuffices ==
    ASSUME TransferInv
    PROVE  TransfersExact
<1>1. \A i \in DOMAIN results :
        LET s == results[i].producer
        IN  s \in Steps /\ Uploading(s) /\ InResult(s) /\ results[i] = Artifact(s) /\ UploadSound(s)
  BY DEF TransferInv, ResultsSound, InResult
<1>2. \A i, j \in DOMAIN results : i # j => Lower[results[i].name] # Lower[results[j].name]
  <2> SUFFICES ASSUME NEW i \in DOMAIN results, NEW j \in DOMAIN results,
                      Lower[results[i].name] = Lower[results[j].name]
               PROVE  i = j
    OBVIOUS
  <2> DEFINE s == results[i].producer
             t == results[j].producer
  <2>1. HoldsName(s) /\ HoldsName(t) /\ s \in Steps /\ t \in Steps
    BY <1>1 DEF HoldsName
  <2>2. results[i].name = Request(s).name /\ results[j].name = Request(t).name
    BY <1>1 DEF Artifact
  <2>3. s = t
    BY <2>1, <2>2 DEF TransferInv, NamesHeld, Folding
  <2> QED
    BY <2>3 DEF TransferInv, ResultsSound
<1>3. ASSUME NEW i \in DOMAIN results
      PROVE  /\ results[i] \in stored
             /\ LET chosen == work[results[i].producer].files IN
                /\ DOMAIN results[i].archive = {f.name : f \in chosen}
                /\ results[i].count = Cardinality(DOMAIN results[i].archive)
                /\ \A f \in chosen : <<f.info.id, results[i].archive[f.name]>> \in had
  <2> DEFINE s == results[i].producer
             chosen == work[s].files
  <2>1. /\ results[i] = Artifact(s) /\ Artifact(s) \in stored
        /\ FilesGathered(s) /\ Unarchived(s) = {}
    BY <1>1 DEF UploadSound
  <2>2. results[i].archive = work[s].archive /\ results[i].count = Cardinality(chosen)
    BY <2>1 DEF Artifact
  <2>3. \A f \in chosen : f.name \in DOMAIN work[s].archive
    BY <2>1 DEF Unarchived
  <2>4. DOMAIN work[s].archive = {f.name : f \in chosen}
    BY <2>1, <2>3 DEF FilesGathered
  <2>5. Cardinality({f.name : f \in chosen}) = Cardinality(chosen)
    <3> HIDE DEF chosen
    <3>1. IsFiniteSet(chosen) /\ \A f, e \in chosen : f.name = e.name => f = e
      BY <2>1 DEF FilesGathered, chosen
    <3> QED
      BY <3>1, NamesCounted
  <2> QED
    BY <2>1, <2>2, <2>3, <2>4, <2>5 DEF FilesGathered
<1>4. reserved = {Lower[Request(s).name] : s \in {t \in Steps : Uploading(t) /\
                   \/ at[t] \in {"collect", "archive", "open", "read", "stored"}
                   \/ \E i \in DOMAIN results : results[i].producer = t}}
  <2>1. \A t \in Steps : HoldsName(t) <=> /\ Uploading(t)
                                          /\ \/ at[t] \in {"collect", "archive", "open", "read", "stored"}
                                             \/ \E i \in DOMAIN results : results[i].producer = t
    BY DEF HoldsName, InResult, Packing
  <2> QED
    BY <2>1 DEF TransferInv, NamesHeld, Folding
<1>5. ASSUME NEW s \in Steps, Downloading(s), at[s] = "done",
             NEW i \in Matched(s), NEW n \in DOMAIN Needs[i].archive
      PROVE  << <<s>> \o n, LastMember(s, n)>> \in had
  <2>1. MembersFetched(s) /\ MembersInstalled(s) /\ work[s].files = {}
    BY <1>5 DEF TransferInv, DownloadSound, Downloading, Uploading, Installing
  <2>2. work[s].todo = {}
    BY <2>1 DEF MembersInstalled
  <2>3. n \in DOMAIN work[s].members /\ LastMember(s, n) = work[s].members[n]
    BY <2>1, <2>2, LastOfFetched
  <2> QED
    BY <2>1, <2>3 DEF MembersInstalled, Installed
<1> QED
  BY <1>2, <1>3, <1>4, <1>5, ResultsFit DEF TransfersExact

THEOREM TransfersAreExact == TransferSpec => []TransfersExact
BY TransferInvariant, TransferInvSuffices, PTL
==============================================================================
