--------------------------- MODULE ImportProofs -----------------------------
(***************************************************************************)
(* What every process and every compilation of a build knows of a          *)
(* repository and ref is the same, what is uploaded drops no job, and the  *)
(* builds that come of it share their concurrency groups without meeting.  *)
(*                                                                         *)
(* The first part is about RefResolution: for any number of processes,     *)
(* callers, refs, generations and faults, the answers of a snapshot are    *)
(* its entries, and flights, checks and the token provider strand no       *)
(* caller and give it nobody's interruption but the one that the provider  *)
(* was met with.  Its invariant RefInv has one part for the generations    *)
(* and the processes that open them (Opened), one for the locks and        *)
(* entries of refs (Kept), and one for the tables of flights and checks    *)
(* and the token (Flying).  A step is either of a process or of one        *)
(* caller; of the latter, those in a flight are reduced to what they may   *)
(* change (CallerStep) before either part is considered.                   *)
(*                                                                         *)
(* The second part is about PinnedSource: what the compilations of one     *)
(* build fetch of a repository and ref is one commit with one digest, for  *)
(* every set of fetches and of recorded locks.                             *)
(*                                                                         *)
(* The third part is about Importer, for every set of workflows: lemmas     *)
(* about what follows a failed job (WithDependents), what a compilation    *)
(* leaves of a bundle (Sound), and what a workflow then is in the pipeline *)
(* (Accounted), and the invariant ImportInv over the steps of the command. *)
(*                                                                         *)
(* The last part is about WorkflowBuild: what is emitted of a flattened    *)
(* workflow and where (EmissionIs), that a rank of its steps grows along   *)
(* dependencies and queues (RankExists), and the invariant BuildInv of     *)
(* builds, from which groups are exclusive (HoldersAgree) and nothing is   *)
(* stuck (StuckNot).                                                       *)
(***************************************************************************)
EXTENDS RefResolution, PinnedSource, Importer, WorkflowBuild, FiniteSetTheorems, SequenceTheorems,
        WellFoundedInduction, TLAPS

\* The places of a caller that holds the lock of its ref, if there is one.
Active == InFlight \cup {"fly", "waiting", "pin"}
Places == Active \cup {"idle", "cached", "lock", "done", "dead"}

\* What a lookup ends with.
Answers == Commits \cup (Errors \ {"closed"})

RefTypeOK ==
    /\ mode \in {"snapshot", "cache", "direct"}
    /\ upstream \in [Refs -> Commits \cup {absent}]
    /\ current \in Generations \cup {none} /\ generations \subseteq Generations
    /\ claimed \subseteq Slots
    /\ entry \in [Slots -> Commits \cup {"missing", none}]
    /\ initLock \in Procs \cup {none}
    /\ refLock \in [Slots -> Resolvers \cup {none}]
    /\ process \in [Procs -> {"new", "creating", "publishing", "open", "over"}]
    /\ generation \in [Procs -> 0 .. MaxGenerations]
    /\ pc \in [Resolvers -> Places]
    /\ flight \in [Procs \X Refs -> Resolvers \cup {none}]
    /\ check \in [Procs -> Resolvers \cup {none}]
    /\ joined \in [Resolvers -> Resolvers \cup {none}]
    /\ landed \in [Resolvers -> Answers \cup {none}]
    /\ verdict \in [Resolvers -> Answers \cup {"public", none}]
    /\ provisioner \in [Procs -> Resolvers \cup {none}]
    /\ provided \in [Procs -> Provisions \cup {none}]
    /\ missed \in [Resolvers -> BOOLEAN]
    /\ cancelled \subseteq Resolvers /\ late \subseteq Resolvers
    /\ result \in [Resolvers -> Answers \cup {"closed", none}]
    /\ moves \in Nat /\ faults \in Nat

\* Generations: the one in use is there, one process at most makes another,
\* and a process that resolves has one.
Opened ==
    /\ current # none => current \in generations
    /\ \A p \in Procs : process[p] \in {"creating", "publishing"} => initLock = p
    /\ \A p \in Procs : process[p] = "publishing" =>
         /\ generation[p] \in generations /\ generation[p] # current
         /\ \A q \in Procs : q # p => generation[q] # generation[p]
    /\ faults = 0 /\ generations # {} => current # none \/ initLock # none
    /\ \A p \in Procs : process[p] = "open" /\ mode = "snapshot" => generation[p] \in generations
    /\ \A c \in Resolvers : pc[c] = "idle" /\ process[ProcOf[c]] = "over" => faults > 0
    /\ \A c \in Resolvers : pc[c] \notin {"idle", "done", "dead"} => process[ProcOf[c]] = "open"
    /\ \A c \in Resolvers : pc[c] = "dead" => process[ProcOf[c]] = "over"
    /\ \A c \in Resolvers : result[c] # none => process[ProcOf[c]] \in {"open", "over"}

\* A snapshot: who looks a ref up holds its lock and finds nothing pinned, and
\* what was answered is pinned.
Kept ==
    /\ mode = "snapshot" =>
         /\ \A c \in Resolvers : pc[c] \in Active => refLock[Slot(c)] = c /\ entry[Slot(c)] = none
         /\ \A c \in Resolvers : Answered(c) => entry[Slot(c)] = Pinned(result[c])
         /\ \A s \in claimed : faults = 0 => entry[s] # none \/ refLock[s] # none
    /\ \A c \in Resolvers : result[c] = "closed" => faults > 0

\* The tables of flights and checks name callers of the process that are at
\* work or have ended; a crash spares nobody of the process.
TablesServed ==
    /\ \A h \in Procs \X Refs : flight[h] # none =>
         ProcOf[flight[h]] = h[1] /\ (landed[flight[h]] # none \/ pc[flight[h]] \in InFlight \cup {"dead"})
    /\ \A p \in Procs : check[p] # none =>
         ProcOf[check[p]] = p /\ (verdict[check[p]] # none \/ pc[check[p]] \in {"checking", "dead"})

\* Who waits, waits for a caller of its own process.
WaitsNear ==
    \A c \in Resolvers : pc[c] \in {"waiting", "checkWait"} =>
        joined[c] \in Resolvers /\ ProcOf[joined[c]] = ProcOf[c]

\* Who runs the token provider is of the process; what it has returned stays,
\* and was lost only with the context of that caller.
Provisioned ==
    /\ \A p \in Procs : provisioner[p] # none =>
         ProcOf[provisioner[p]] = p /\ (provided[p] # none \/ pc[provisioner[p]] \in {"provisioning", "dead"})
    /\ \A p \in Procs : provided[p] # none => provisioner[p] # none
    /\ \A p \in Procs : provided[p] = "cancelled" => provisioner[p] \in cancelled
    /\ \A c \in Resolvers : pc[c] = "provisioning" =>
         provisioner[ProcOf[c]] = c /\ provided[ProcOf[c]] = none

Flying ==
    Interruptions /\ TablesServed /\ Provisioned /\ WaitsNear /\ \A c \in Resolvers : Served(c)

RefInv == RefTypeOK /\ Opened /\ Kept /\ Flying

-----------------------------------------------------------------------------

LEMMA CallerFacts ==
  ASSUME NEW c \in Resolvers, RefTypeOK
  PROVE  /\ ProcOf[c] \in Procs /\ Ref[c] \in Refs /\ Here(c) \in Procs \X Refs
         /\ Slot(c) \in Slots /\ c # none
<1>1. ProcOf[c] \in Procs /\ Ref[c] \in Refs  BY DEF Procs, Refs
<1>2. generation[ProcOf[c]] \in 0 .. MaxGenerations  BY <1>1 DEF RefTypeOK
<1>. QED  BY <1>1, <1>2, RefAssumption DEF Here, Slot, Slots

LEMMA RefInitInv == RefInit => RefInv
<1> SUFFICES ASSUME RefInit PROVE RefInv
  OBVIOUS
<1>1. PICK setup \in Setups :
        mode = setup[1] /\ pc = [c \in Resolvers |-> IF c \in setup[2] THEN "idle" ELSE "done"]
  BY DEF RefInit
<1>2. mode \in {"snapshot", "cache", "direct"}  BY <1>1, RefAssumption
<1>3. \A c \in Resolvers : pc[c] \in {"idle", "done"} /\ result[c] = none /\ joined[c] = none
  BY <1>1 DEF RefInit
<1>4. ASSUME NEW p \in Procs
      PROVE  /\ process[p] \in {"new", "open", "over"}
             /\ process[p] = "open" => mode # "snapshot"
             /\ process[p] = "over" => \A c \in Resolvers : ProcOf[c] = p => pc[c] = "done"
  <2>1. process[p] = CASE \A c \in Resolvers : ProcOf[c] = p => pc[c] = "done" -> "over"
                        [] mode = "snapshot" -> "new"
                        [] OTHER             -> "open"
    BY DEF RefInit
  <2>2. CASE \A c \in Resolvers : ProcOf[c] = p => pc[c] = "done"
    <3>1. CASE mode = "snapshot"  BY <2>1, <2>2, <3>1
    <3>2. CASE mode # "snapshot"  BY <2>1, <2>2, <3>2
    <3>. QED  BY <3>1, <3>2
  <2>3. CASE ~\A c \in Resolvers : ProcOf[c] = p => pc[c] = "done"
    BY <2>1, <2>3
  <2>. QED  BY <2>2, <2>3
<1>5. process = [p \in Procs |-> process[p]]  BY DEF RefInit
<1>6. process \in [Procs -> {"new", "creating", "publishing", "open", "over"}]  BY <1>4, <1>5
<1>7. pc \in [Resolvers -> Places]  BY <1>1 DEF Places
<1>8. RefTypeOK
  BY <1>2, <1>6, <1>7, RefAssumption DEF RefInit, RefTypeOK, Generations
<1>9. Opened
  <2>1. current = none /\ generations = {}  BY DEF RefInit
  <2>2. \A c \in Resolvers : ProcOf[c] \in Procs  BY DEF Procs
  <2>. QED  BY <1>3, <1>4, <2>1, <2>2 DEF Opened
<1>10. Kept
  <2>1. claimed = {}  BY DEF RefInit
  <2>. QED  BY <1>3, <2>1, RefAssumption DEF Kept, Answered, Active, InFlight, NotPublic, Errors
<1>11. Flying
  <2>1. /\ \A h \in Procs \X Refs : flight[h] = none
        /\ \A p \in Procs : check[p] = none /\ provisioner[p] = none /\ provided[p] = none
    BY DEF RefInit
  <2>. QED
    BY <1>3, <2>1, RefAssumption
    DEF Flying, Interruptions, TablesServed, Provisioned, WaitsNear, Served, Errors, Provisions
<1>. QED  BY <1>8, <1>9, <1>10, <1>11 DEF RefInv

-----------------------------------------------------------------------------
(* What a step of a caller leaves alone.                                   *)

LockStep(c) ==
    Begin(c) \/ Cached(c) \/ LockRef(c) \/ LockFails(c) \/ LockInterrupted(c) \/ Pin(c)
FlightStep(c) ==
    \/ Fly(c) \/ Wait(c) \/ Provision(c) \/ Provisioning(c)
    \/ Public(c) \/ Checking(c) \/ CheckWait(c) \/ Found(c) \/ Git(c)
    \/ \E e \in Errors : NotFound(c, e) \/ NothingFound(c, e) \/ LookupFails(c, e)

\* Whatever the other callers are doing, they go on with it.
Turn(c) ==
    /\ UNCHANGED <<world, current, generations, initLock, procs, cancelled>>
    /\ late \subseteq late' /\ faults' \in Nat /\ faults <= faults'
    /\ \A d \in Resolvers : d # c =>
         /\ pc'[d] = pc[d] /\ result'[d] = result[d] /\ joined'[d] = joined[d]
         /\ landed'[d] = landed[d] /\ verdict'[d] = verdict[d]

LEMMA LockFrame ==
  ASSUME RefTypeOK, NEW c \in Resolvers, LockStep(c)
  PROVE  /\ RefTypeOK' /\ Turn(c)
         /\ UNCHANGED <<flight, check, joined, landed, verdict, credential, late>>
<1>0. ProcOf[c] \in Procs /\ Slot(c) \in Slots  BY CallerFacts
<1>1. CASE Begin(c)
  <2>1. UNCHANGED <<world, disk, locks, procs, shared, missed, cancelled, late, result, faults>>
    BY <1>1 DEF Begin
  <2>2. PICK to \in {"lock", "cached", "fly"} : Goto(c, to)  BY <1>1 DEF Begin
  <2>3. pc' \in [Resolvers -> Places] /\ \A d \in Resolvers : d # c => pc'[d] = pc[d]
    BY <2>2 DEF Goto, RefTypeOK, Places, Active
  <2>. QED  BY <2>1, <2>3 DEF RefTypeOK, Turn, world, disk, locks, procs, shared, credential
<1>2. CASE Cached(c)
  <2>1. UNCHANGED <<world, disk, locks, procs, shared, missed, cancelled, late, faults>>
    BY <1>2 DEF Cached
  <2>2. (entry[Slot(c)] # none /\ Ends(c, entry[Slot(c)])) \/ (Goto(c, "lock") /\ result' = result)
    BY <1>2 DEF Cached
  <2>3. entry[Slot(c)] \in Commits \cup {"missing", none}  BY <1>0 DEF RefTypeOK
  <2>4. /\ pc' \in [Resolvers -> Places] /\ result' \in [Resolvers -> Answers \cup {"closed", none}]
        /\ \A d \in Resolvers : d # c => pc'[d] = pc[d] /\ result'[d] = result[d]
    BY <2>2, <2>3 DEF Goto, Ends, RefTypeOK, Places, Active, Answers, Errors
  <2>. QED  BY <2>1, <2>4 DEF RefTypeOK, Turn, world, disk, locks, procs, shared, credential
<1>3. CASE LockRef(c)
  <2>1. UNCHANGED <<world, current, generations, entry, initLock, procs, shared, missed,
                    cancelled, late, faults>>
    BY <1>3 DEF LockRef
  <2>2. \/ entry[Slot(c)] # none /\ Ends(c, entry[Slot(c)]) /\ UNCHANGED <<claimed, refLock>>
        \/ Ends(c, "closed") /\ UNCHANGED <<claimed, refLock>>
        \/ /\ refLock' = [refLock EXCEPT ![Slot(c)] = c] /\ claimed' \subseteq claimed \cup {Slot(c)}
           /\ Goto(c, "fly") /\ result' = result
    BY <1>3 DEF LockRef
  <2>3. entry[Slot(c)] \in Commits \cup {"missing", none}  BY <1>0 DEF RefTypeOK
  <2>4. /\ pc' \in [Resolvers -> Places] /\ result' \in [Resolvers -> Answers \cup {"closed", none}]
        /\ \A d \in Resolvers : d # c => pc'[d] = pc[d] /\ result'[d] = result[d]
    BY <2>2, <2>3 DEF Goto, Ends, RefTypeOK, Places, Active, Answers, Errors
  <2>5. refLock' \in [Slots -> Resolvers \cup {none}] /\ claimed' \subseteq Slots
    BY <1>0, <2>2 DEF RefTypeOK
  <2>. QED  BY <2>1, <2>4, <2>5 DEF RefTypeOK, Turn, world, procs, shared, credential
<1>4. CASE LockFails(c)
  <2>1. UNCHANGED <<world, disk, locks, procs, shared, missed, cancelled, late>>
    BY <1>4 DEF LockFails
  <2>2. Ends(c, "broken") \/ (Goto(c, "fly") /\ result' = result)  BY <1>4 DEF LockFails
  <2>3. /\ pc' \in [Resolvers -> Places] /\ result' \in [Resolvers -> Answers \cup {"closed", none}]
        /\ \A d \in Resolvers : d # c => pc'[d] = pc[d] /\ result'[d] = result[d]
    BY <2>2 DEF Goto, Ends, RefTypeOK, Places, Active, Answers, Errors
  <2>4. faults' \in Nat /\ faults <= faults'  BY <1>4 DEF LockFails, Fault, RefTypeOK
  <2>. QED  BY <2>1, <2>3, <2>4 DEF RefTypeOK, Turn, world, disk, locks, procs, shared, credential
<1>5. CASE LockInterrupted(c)
  <2>1. UNCHANGED <<world, disk, locks, procs, shared, missed, cancelled, late, faults>>
    BY <1>5 DEF LockInterrupted
  <2>2. Ends(c, "cancelled")  BY <1>5 DEF LockInterrupted
  <2>3. /\ pc' \in [Resolvers -> Places] /\ result' \in [Resolvers -> Answers \cup {"closed", none}]
        /\ \A d \in Resolvers : d # c => pc'[d] = pc[d] /\ result'[d] = result[d]
    BY <2>2 DEF Ends, RefTypeOK, Places, Active, Answers, Errors
  <2>. QED  BY <2>1, <2>3 DEF RefTypeOK, Turn, world, disk, locks, procs, shared, credential
<1>6. CASE Pin(c)
  <2>1. UNCHANGED <<world, current, generations, initLock, procs, shared, missed, cancelled, late>>
    BY <1>6 DEF Pin
  <2>2. /\ pc' = [pc EXCEPT ![c] = "done"]
        /\ refLock' = [refLock EXCEPT ![Slot(c)] = none]
    BY <1>6 DEF Pin, Goto, Unlock
  <2>3. /\ faults' = faults \/ Fault
        /\ claimed' \subseteq claimed
        /\ result' = result \/ result' = [result EXCEPT ![c] = Unstored(c)]
        /\ entry' = entry \/ (Pins(c) /\ entry' = [entry EXCEPT ![Slot(c)] = Pinned(result[c])])
    BY <1>6 DEF Pin
  <2>4. Unstored(c) \in Answers \cup {"closed", none}
    BY DEF Unstored, RefTypeOK, Answers, Errors
  <2>5. Pins(c) => Pinned(result[c]) \in Commits \cup {"missing"}
    BY DEF Pins, Pinned, NotPublic
  <2>6. faults' \in Nat /\ faults <= faults'  BY <2>3 DEF Fault, RefTypeOK
  <2>7. pc' \in [Resolvers -> Places]  BY <2>2 DEF RefTypeOK, Places
  <2>8. refLock' \in [Slots -> Resolvers \cup {none}]  BY <2>2 DEF RefTypeOK
  <2>9. /\ result' \in [Resolvers -> Answers \cup {"closed", none}]
        /\ \A d \in Resolvers : d # c => result'[d] = result[d]
    BY <2>3, <2>4 DEF RefTypeOK
  <2>10. entry' \in [Slots -> Commits \cup {"missing", none}]  BY <2>3, <2>5 DEF RefTypeOK
  <2>11. \A d \in Resolvers : d # c => pc'[d] = pc[d]  BY <2>2 DEF RefTypeOK
  <2>. QED
    BY <2>1, <2>3, <2>6, <2>7, <2>8, <2>9, <2>10, <2>11 DEF RefTypeOK, Turn, world, procs, shared, credential
<1>. QED  BY <1>1, <1>2, <1>3, <1>4, <1>5, <1>6 DEF LockStep

-----------------------------------------------------------------------------
(* A step of a lookup goes on, or ends the lookup with an answer; what is  *)
(* an interruption is the caller's own, or that of the token provider.     *)

Itself(c, r) ==
    (r = "cancelled" => c \in cancelled' \/ TokenLost(c)') /\ (r = "timeout" => c \in late')
Came(c, r) == r \in Answers /\ Itself(c, r) /\ Returns(c, r)
Went(c) == result' = result /\ \E to \in InFlight \cup {"fly", "waiting"} : Goto(c, to)

\* A caller runs the provider, if nobody has, or has run it.
CredentialStep(c) ==
    LET p == ProcOf[c] IN
    \/ credential' = credential /\ pc[c] # "provisioning" /\ pc'[c] # "provisioning"
    \/ /\ pc[c] = "provision" /\ provisioner[p] = none
       /\ provisioner' = [provisioner EXCEPT ![p] = c]
       /\ \/ pc'[c] = "provisioning" /\ provided' = provided
          \/ /\ pc'[c] # "provisioning" /\ c \in cancelled
             /\ provided' = [provided EXCEPT ![p] = "cancelled"]
    \/ /\ pc[c] = "provisioning" /\ pc'[c] # "provisioning" /\ provisioner' = provisioner
       /\ \E o \in Provisions :
            provided' = [provided EXCEPT ![p] = o] /\ (o = "cancelled" => c \in cancelled)

\* What becomes of the flight, the check and the token of a caller.
Tables(c) ==
    /\ \/ flight' = flight
       \/ flight' = [flight EXCEPT ![Here(c)] = none]
       \/ flight' = [flight EXCEPT ![Here(c)] = c] /\ pc'[c] \in InFlight
    /\ \/ check' = check
       \/ check' = [check EXCEPT ![ProcOf[c]] = none]
       \/ check' = [check EXCEPT ![ProcOf[c]] = c] /\ pc'[c] = "checking"
    /\ landed'[c] = landed[c] \/ landed'[c] # none
    /\ verdict'[c] = verdict[c] \/ verdict'[c] # none
    /\ pc[c] \in InFlight => pc'[c] \in InFlight \/ landed'[c] # none
    /\ pc[c] = "checking" => verdict'[c] # none
    /\ pc'[c] = "waiting" => flight[Here(c)] # none /\ joined'[c] = flight[Here(c)]
    /\ pc'[c] = "checkWait" => check[ProcOf[c]] # none /\ joined'[c] = check[ProcOf[c]]
    /\ CredentialStep(c)

LEMMA ConcludesFacts ==
  ASSUME RefTypeOK, NEW c \in Resolvers, NEW r \in Answers, Concludes(c, r), Itself(c, r)
  PROVE  /\ Came(c, r) \/ Went(c)
         /\ \/ Goto(c, "git") /\ UNCHANGED <<flight, landed, result>>
            \/ /\ landed' = [landed EXCEPT ![c] = r]
               /\ flight' = flight \/ flight' = [flight EXCEPT ![Here(c)] = none]
BY DEF Concludes, Lands, Came, Went, InFlight

LEMMA LandsFacts ==
  ASSUME RefTypeOK, NEW c \in Resolvers, NEW r \in Answers, Lands(c, r), Itself(c, r)
  PROVE  /\ Came(c, r)
         /\ landed' = [landed EXCEPT ![c] = r]
         /\ flight' = flight \/ flight' = [flight EXCEPT ![Here(c)] = none]
BY DEF Lands, Came

LEMMA MoveFacts ==
  ASSUME RefTypeOK, NEW c \in Resolvers, Went(c) \/ \E r \in Answers : Came(c, r)
  PROVE  /\ pc' \in [Resolvers -> Places] /\ result' \in [Resolvers -> Answers \cup {"closed", none}]
         /\ \A d \in Resolvers : d # c => pc'[d] = pc[d] /\ result'[d] = result[d]
<1>1. CASE Went(c)
  <2>1. PICK to \in Places : Goto(c, to)  BY <1>1 DEF Went, Places, Active
  <2>2. result' = result  BY <1>1 DEF Went
  <2>. QED  BY <2>1, <2>2 DEF Goto, RefTypeOK
<1>2. CASE \E r \in Answers : Came(c, r)
  <2>1. PICK r \in Answers : result' = [result EXCEPT ![c] = r]  BY <1>2 DEF Came, Returns
  <2>2. PICK to \in Places : Goto(c, to)  BY <1>2 DEF Came, Returns, Places, Active
  <2>. QED  BY <2>1, <2>2 DEF Goto, RefTypeOK
<1>. QED  BY <1>1, <1>2

\* What all steps of a lookup have in common.
CallerStep(c) ==
    /\ pc[c] \in Active \ {"pin"}
    /\ Went(c) \/ \E r \in Answers : Came(c, r)
    /\ UNCHANGED <<world, disk, locks, procs, cancelled, faults>>
    /\ late \subseteq late' /\ late' \subseteq late \cup {c}
    /\ joined' = joined \/ \E d \in Resolvers \cup {none} : joined' = [joined EXCEPT ![c] = d]
    /\ landed' = landed \/ \E r \in Answers : landed' = [landed EXCEPT ![c] = r]
    /\ verdict' = verdict \/ \E r \in Answers \cup {"public"} : verdict' = [verdict EXCEPT ![c] = r]
    /\ missed' \in [Resolvers -> BOOLEAN]
    /\ Tables(c)

LEMMA StepFrame ==
  ASSUME RefTypeOK, NEW c \in Resolvers, CallerStep(c)
  PROVE  RefTypeOK' /\ Turn(c)
<1>0. Here(c) \in Procs \X Refs /\ ProcOf[c] \in Procs  BY CallerFacts
<1>1. /\ pc' \in [Resolvers -> Places] /\ result' \in [Resolvers -> Answers \cup {"closed", none}]
      /\ \A d \in Resolvers : d # c => pc'[d] = pc[d] /\ result'[d] = result[d]
  BY MoveFacts DEF CallerStep
<1>2. /\ joined' \in [Resolvers -> Resolvers \cup {none}]
      /\ \A d \in Resolvers : d # c => joined'[d] = joined[d]
  BY DEF CallerStep, RefTypeOK
<1>3. /\ landed' \in [Resolvers -> Answers \cup {none}]
      /\ \A d \in Resolvers : d # c => landed'[d] = landed[d]
  BY DEF CallerStep, RefTypeOK
<1>4. /\ verdict' \in [Resolvers -> Answers \cup {"public", none}]
      /\ \A d \in Resolvers : d # c => verdict'[d] = verdict[d]
  BY DEF CallerStep, RefTypeOK
<1>5. flight' \in [Procs \X Refs -> Resolvers \cup {none}]
  BY <1>0 DEF CallerStep, Tables, RefTypeOK
<1>6. check' \in [Procs -> Resolvers \cup {none}]  BY <1>0 DEF CallerStep, Tables, RefTypeOK
<1>9. /\ provisioner' \in [Procs -> Resolvers \cup {none}]
      /\ provided' \in [Procs -> Provisions \cup {none}]
  BY <1>0 DEF CallerStep, Tables, CredentialStep, RefTypeOK, Provisions, credential
<1>7. UNCHANGED <<world, disk, locks, procs, cancelled, faults>> /\ missed' \in [Resolvers -> BOOLEAN]
  BY DEF CallerStep
<1>8. late \subseteq late' /\ late' \subseteq Resolvers  BY DEF CallerStep, RefTypeOK
<1>. QED
  BY <1>1, <1>2, <1>3, <1>4, <1>5, <1>6, <1>7, <1>8, <1>9
  DEF RefTypeOK, Turn, world, disk, locks, procs

LEMMA FlyStep ==
  ASSUME RefTypeOK, NEW c \in Resolvers, Fly(c)
  PROVE  CallerStep(c)
<1>0. Here(c) \in Procs \X Refs /\ c # none  BY CallerFacts
<1>1. /\ pc[c] = "fly"
      /\ UNCHANGED <<world, disk, locks, procs, credential, check, landed, verdict, missed, cancelled, late, faults>>
  BY DEF Fly
<1>2. CASE c \in cancelled
  <2>1. Returns(c, "cancelled") /\ UNCHANGED <<flight, joined>>  BY <1>2 DEF Fly
  <2>2. Came(c, "cancelled")  BY <1>1, <1>2, <2>1 DEF Came, Itself, Answers, Errors
  <2>3. pc'[c] \in {"pin", "done"}  BY <2>1 DEF Returns, Goto, RefTypeOK
  <2>4. Tables(c)  BY <1>1, <2>1, <2>3 DEF Tables, CredentialStep, InFlight
  <2>. QED  BY <1>1, <2>1, <2>2, <2>4 DEF CallerStep, Active, Answers, Errors, RefTypeOK
<1>3. CASE c \notin cancelled /\ flight[Here(c)] # none
  <2>1. /\ joined' = [joined EXCEPT ![c] = flight[Here(c)]] /\ flight' = flight
        /\ Goto(c, "waiting") /\ result' = result
    BY <1>3 DEF Fly
  <2>2. Went(c)  BY <2>1 DEF Went
  <2>3. pc'[c] = "waiting" /\ joined'[c] = flight[Here(c)]  BY <2>1 DEF Goto, RefTypeOK
  <2>4. Tables(c)  BY <1>1, <1>3, <2>1, <2>3 DEF Tables, CredentialStep, InFlight
  <2>5. flight[Here(c)] \in Resolvers  BY <1>0, <1>3 DEF RefTypeOK
  <2>. QED  BY <1>1, <2>1, <2>2, <2>4, <2>5 DEF CallerStep, Active, RefTypeOK
<1>4. CASE c \notin cancelled /\ flight[Here(c)] = none
  <2>1. Goto(c, "provision")  BY <1>4 DEF Fly
  <2>2. flight' = [flight EXCEPT ![Here(c)] = c] /\ joined' = joined /\ result' = result
    BY <1>4 DEF Fly
  <2>3. Went(c) /\ pc'[c] = "provision"  BY <2>1, <2>2 DEF Went, InFlight, Goto, RefTypeOK
  <2>4. Tables(c)  BY <1>1, <2>2, <2>3 DEF Tables, CredentialStep, InFlight
  <2>. QED  BY <1>1, <2>2, <2>3, <2>4 DEF CallerStep, Active, RefTypeOK
<1>. QED  BY <1>2, <1>3, <1>4

LEMMA WaitStep ==
  ASSUME RefTypeOK, Flying, NEW c \in Resolvers, Wait(c)
  PROVE  CallerStep(c)
<1>1. /\ pc[c] = "waiting" /\ joined' = [joined EXCEPT ![c] = none]
      /\ UNCHANGED <<world, disk, locks, procs, credential, flight, check, landed, verdict, missed, cancelled,
                     late, faults>>
  BY DEF Wait
<1>2. joined[c] \in Resolvers  BY <1>1 DEF Flying, WaitsNear
<1>3. \/ c \in cancelled /\ Returns(c, "cancelled")
      \/ landed[joined[c]] # none /\ landed[joined[c]] \in Interrupted /\ Goto(c, "fly") /\ result' = result
      \/ /\ landed[joined[c]] # none /\ landed[joined[c]] \notin Interrupted
         /\ Returns(c, landed[joined[c]])
  BY DEF Wait, FlownAgain
<1>4. Went(c) \/ \E r \in Answers : Came(c, r)
  <2>1. CASE c \in cancelled /\ Returns(c, "cancelled")
    <3>1. Came(c, "cancelled") /\ "cancelled" \in Answers
      BY <1>1, <2>1 DEF Came, Itself, Answers, Errors
    <3>. QED  BY <3>1
  <2>2. CASE Goto(c, "fly") /\ result' = result  BY <2>2 DEF Went
  <2>3. CASE landed[joined[c]] # none /\ landed[joined[c]] \notin Interrupted
               /\ Returns(c, landed[joined[c]])
    <3>1. landed[joined[c]] \in Answers  BY <1>2, <2>3 DEF RefTypeOK
    <3>2. Came(c, landed[joined[c]])  BY <2>3, <3>1 DEF Came, Itself, Interrupted
    <3>. QED  BY <3>1, <3>2
  <2>. QED  BY <1>3, <2>1, <2>2, <2>3
<1>5. pc'[c] \in {"fly", "pin", "done"}  BY <1>3 DEF Returns, Goto, RefTypeOK
<1>6. Tables(c)  BY <1>1, <1>5 DEF Tables, CredentialStep, InFlight
<1>. QED  BY <1>1, <1>4, <1>6 DEF CallerStep, Active, RefTypeOK

LEMMA PublicStep ==
  ASSUME RefTypeOK, NEW c \in Resolvers, Public(c)
  PROVE  CallerStep(c)
<1>0. Here(c) \in Procs \X Refs /\ ProcOf[c] \in Procs /\ c # none  BY CallerFacts
<1>1. /\ pc[c] = "public"
      /\ UNCHANGED <<world, disk, locks, procs, credential, verdict, missed, cancelled, late, faults>>
  BY DEF Public
<1>2. CASE c \in cancelled
  <2>1. Lands(c, "cancelled") /\ UNCHANGED <<check, joined>>  BY <1>2 DEF Public
  <2>2. "cancelled" \in Answers /\ Itself(c, "cancelled")  BY <1>1, <1>2 DEF Itself, Answers, Errors
  <2>3. /\ Came(c, "cancelled") /\ landed' = [landed EXCEPT ![c] = "cancelled"]
        /\ flight' = flight \/ flight' = [flight EXCEPT ![Here(c)] = none]
    BY <2>1, <2>2, LandsFacts
  <2>4. pc'[c] \in {"pin", "done"}  BY <2>3 DEF Came, Returns, Goto, RefTypeOK
  <2>5. landed'[c] # none  BY <2>3, RefAssumption DEF RefTypeOK, Errors
  <2>6. Tables(c)  BY <1>1, <2>1, <2>3, <2>4, <2>5 DEF Tables, CredentialStep, InFlight
  <2>. QED  BY <1>1, <2>1, <2>2, <2>3, <2>6 DEF CallerStep, Active, InFlight, RefTypeOK
<1>3. CASE c \notin cancelled /\ check[ProcOf[c]] # none
  <2>1. /\ joined' = [joined EXCEPT ![c] = check[ProcOf[c]]] /\ check' = check
        /\ Goto(c, "checkWait") /\ UNCHANGED <<flight, landed, result>>
    BY <1>3 DEF Public
  <2>2. Went(c)  BY <2>1 DEF Went, InFlight
  <2>3. pc'[c] = "checkWait" /\ joined'[c] = check[ProcOf[c]]  BY <2>1 DEF Goto, RefTypeOK
  <2>4. Tables(c)  BY <1>1, <1>3, <2>1, <2>3 DEF Tables, CredentialStep, InFlight
  <2>5. check[ProcOf[c]] \in Resolvers  BY <1>0, <1>3 DEF RefTypeOK
  <2>. QED  BY <1>1, <2>1, <2>2, <2>4, <2>5 DEF CallerStep, Active, InFlight, RefTypeOK
<1>4. CASE c \notin cancelled /\ check[ProcOf[c]] = none
  <2>1. /\ check' = [check EXCEPT ![ProcOf[c]] = c] /\ Goto(c, "checking")
        /\ UNCHANGED <<joined, flight, landed, result>>
    BY <1>4 DEF Public
  <2>2. Went(c) /\ pc'[c] = "checking"  BY <2>1 DEF Went, InFlight, Goto, RefTypeOK
  <2>3. Tables(c)  BY <1>1, <2>1, <2>2 DEF Tables, CredentialStep, InFlight
  <2>. QED  BY <1>1, <2>1, <2>2, <2>3 DEF CallerStep, Active, InFlight, RefTypeOK
<1>. QED  BY <1>2, <1>3, <1>4

\* A lookup that comes to an end, or is left to Git.
Concluded(c) ==
    /\ Went(c) \/ \E r \in Answers : Came(c, r)
    /\ \/ Goto(c, "git") /\ UNCHANGED <<flight, landed>>
       \/ /\ \E r \in Answers : landed' = [landed EXCEPT ![c] = r]
          /\ flight' = flight \/ flight' = [flight EXCEPT ![Here(c)] = none]
          /\ pc'[c] \in {"pin", "done"}

LEMMA Conclusion ==
  ASSUME RefTypeOK, NEW c \in Resolvers, NEW r \in Answers, Itself(c, r),
         Concludes(c, r) \/ Lands(c, r)
  PROVE  Concluded(c)
<1>1. CASE Lands(c, r)
  <2>1. /\ Came(c, r) /\ landed' = [landed EXCEPT ![c] = r]
        /\ flight' = flight \/ flight' = [flight EXCEPT ![Here(c)] = none]
    BY <1>1, LandsFacts
  <2>2. pc'[c] \in {"pin", "done"}  BY <2>1 DEF Came, Returns, Goto, RefTypeOK
  <2>. QED  BY <2>1, <2>2 DEF Concluded
<1>2. CASE Goto(c, "git") /\ UNCHANGED <<flight, landed, result>>
  BY <1>2 DEF Concluded, Went, InFlight
<1>. QED  BY <1>1, <1>2 DEF Concludes

LEMMA ConcludedTables ==
  ASSUME RefTypeOK, NEW c \in Resolvers, Concluded(c), check' = check \/ check' = [check EXCEPT ![ProcOf[c]] = none],
         verdict'[c] = verdict[c] \/ verdict'[c] # none, pc[c] = "checking" => verdict'[c] # none,
         credential' = credential, pc[c] # "provisioning"
  PROVE  Tables(c)
<1>1. CASE Goto(c, "git") /\ UNCHANGED <<flight, landed>>
  <2>1. pc'[c] = "git"  BY <1>1 DEF Goto, RefTypeOK
  <2>. QED  BY <1>1, <2>1 DEF Tables, CredentialStep, InFlight
<1>2. CASE /\ \E r \in Answers : landed' = [landed EXCEPT ![c] = r]
           /\ flight' = flight \/ flight' = [flight EXCEPT ![Here(c)] = none]
           /\ pc'[c] \in {"pin", "done"}
  <2>1. landed'[c] # none
    <3>1. PICK r \in Answers : landed' = [landed EXCEPT ![c] = r]  BY <1>2
    <3>2. none \notin Answers  BY RefAssumption DEF Answers
    <3>. QED  BY <3>1, <3>2 DEF RefTypeOK
  <2>. QED  BY <1>2, <2>1 DEF Tables, CredentialStep, InFlight
<1>. QED  BY <1>1, <1>2 DEF Concluded

LEMMA FailsOwn ==
  ASSUME NEW c \in Resolvers, NEW e, FailsWith(c, e), cancelled' = cancelled
  PROVE  Itself(c, e) /\ e \in Answers /\ late \subseteq late' /\ late' \subseteq late \cup {c}
BY DEF FailsWith, Itself, Answers, Errors

\* What a lookup does with the provider's answer.
LEMMA ProceedsFacts ==
  ASSUME RefTypeOK, NEW c \in Resolvers, NEW outcome \in Provisions, Proceeds(c, outcome),
         Itself(c, outcome)
  PROVE  \/ Concluded(c)
         \/ /\ Went(c) /\ pc'[c] \in {"public", "tags"}
            /\ UNCHANGED <<flight, landed>>
<1>1. CASE outcome = "cancelled" /\ Lands(c, outcome)
  <2>1. "cancelled" \in Answers  BY DEF Answers, Errors
  <2>. QED  BY <1>1, <2>1, Conclusion
<1>2. CASE /\ Goto(c, IF outcome = "token" THEN "public" ELSE "tags")
           /\ UNCHANGED <<flight, landed, result>>
  <2>1. PICK to \in {"public", "tags"} : Goto(c, to)  BY <1>2
  <2>. QED  BY <1>2, <2>1 DEF Went, Goto, InFlight, RefTypeOK
<1>. QED  BY <1>1, <1>2 DEF Proceeds

LEMMA ProceedsStep ==
  ASSUME RefTypeOK, NEW c \in Resolvers, pc[c] \in {"provision", "provisioning"},
         UNCHANGED <<world, disk, locks, procs, check, joined, verdict, missed, cancelled, late, faults>>,
         Concluded(c) \/ (Went(c) /\ pc'[c] \in {"public", "tags", "provisioning"} /\ UNCHANGED <<flight, landed>>),
         CredentialStep(c)
  PROVE  CallerStep(c)
<1>1. CASE Concluded(c)
  <2>1. landed' = landed \/ \E r \in Answers : landed' = [landed EXCEPT ![c] = r]
    BY <1>1 DEF Concluded
  <2>2. \/ pc'[c] = "git" /\ UNCHANGED <<flight, landed>>
        \/ /\ landed'[c] # none /\ pc'[c] \in {"pin", "done"}
           /\ flight' = flight \/ flight' = [flight EXCEPT ![Here(c)] = none]
    <3>1. none \notin Answers  BY RefAssumption DEF Answers
    <3>. QED  BY <1>1, <3>1 DEF Concluded, Goto, RefTypeOK
  <2>3. Tables(c)  BY <2>2 DEF Tables, InFlight
  <2>. QED  BY <1>1, <2>1, <2>3 DEF CallerStep, Concluded, Active, InFlight, RefTypeOK
<1>2. CASE Went(c) /\ pc'[c] \in {"public", "tags", "provisioning"} /\ UNCHANGED <<flight, landed>>
  <2>1. Tables(c)  BY <1>2 DEF Tables, InFlight
  <2>. QED  BY <1>2, <2>1 DEF CallerStep, Active, InFlight, RefTypeOK
<1>. QED  BY <1>1, <1>2

LEMMA ConcludedPlace ==
  ASSUME RefTypeOK, NEW c \in Resolvers, Concluded(c)
  PROVE  pc'[c] \in {"git", "pin", "done"}
BY DEF Concluded, Goto, RefTypeOK

LEMMA ProvisionStep ==
  ASSUME RefTypeOK, Flying, NEW c \in Resolvers, Provision(c)
  PROVE  CallerStep(c)
<1> DEFINE p == ProcOf[c]
<1>0. p \in Procs /\ c # none  BY CallerFacts
<1>1. /\ pc[c] = "provision"
      /\ UNCHANGED <<world, disk, locks, procs, check, joined, verdict, missed, cancelled, late, faults>>
  BY DEF Provision
<1>2. CASE /\ provisioner[p] = none /\ provisioner' = [provisioner EXCEPT ![p] = c]
           /\ c \in cancelled /\ provided' = [provided EXCEPT ![p] = "cancelled"]
           /\ Proceeds(c, "cancelled")
  <2>1. Itself(c, "cancelled") /\ Lands(c, "cancelled") /\ "cancelled" \in Answers
    BY <1>1, <1>2 DEF Itself, Proceeds, Answers, Errors
  <2>2. Concluded(c)  BY <2>1, Conclusion
  <2>3. pc'[c] # "provisioning"  BY <2>2, ConcludedPlace
  <2>4. CredentialStep(c)  BY <1>1, <1>2, <2>3 DEF CredentialStep
  <2>. QED  BY <1>1, <2>2, <2>4, ProceedsStep
<1>3. CASE /\ provisioner[p] = none /\ provisioner' = [provisioner EXCEPT ![p] = c]
           /\ Goto(c, "provisioning") /\ UNCHANGED <<provided, flight, landed, result>>
  <2>1. Went(c) /\ pc'[c] = "provisioning"  BY <1>3 DEF Went, Goto, InFlight, RefTypeOK
  <2>2. CredentialStep(c)  BY <1>1, <1>3, <2>1 DEF CredentialStep
  <2>. QED  BY <1>1, <1>3, <2>1, <2>2, ProceedsStep
<1>4. CASE provided[p] # none /\ Proceeds(c, provided[p]) /\ UNCHANGED credential
  <2>1. provided[p] \in Provisions  BY <1>0, <1>4 DEF RefTypeOK
  <2>2. provided[p] = "cancelled" => TokenLost(c)'
    BY <1>0, <1>1, <1>4 DEF Flying, Provisioned, TokenLost, credential
  <2>3. Itself(c, provided[p])  BY <2>1, <2>2 DEF Itself, Provisions
  <2>4. Concluded(c) \/ (Went(c) /\ pc'[c] \in {"public", "tags"} /\ UNCHANGED <<flight, landed>>)
    BY <1>4, <2>1, <2>3, ProceedsFacts
  <2>5. pc'[c] # "provisioning"  BY <2>4, ConcludedPlace
  <2>6. CredentialStep(c)  BY <1>1, <1>4, <2>5 DEF CredentialStep
  <2>. QED  BY <1>1, <2>4, <2>6, ProceedsStep
<1>5. CASE Proceeds(c, "anonymous") /\ UNCHANGED credential
  <2>1. "anonymous" \in Provisions /\ Itself(c, "anonymous")  BY DEF Itself, Provisions
  <2>2. Concluded(c) \/ (Went(c) /\ pc'[c] \in {"public", "tags"} /\ UNCHANGED <<flight, landed>>)
    BY <1>5, <2>1, ProceedsFacts
  <2>3. pc'[c] # "provisioning"  BY <2>2, ConcludedPlace
  <2>4. CredentialStep(c)  BY <1>1, <1>5, <2>3 DEF CredentialStep
  <2>. QED  BY <1>1, <2>2, <2>4, ProceedsStep
<1>. QED  BY <1>2, <1>3, <1>4, <1>5 DEF Provision

LEMMA ProvisioningStep ==
  ASSUME RefTypeOK, NEW c \in Resolvers, Provisioning(c)
  PROVE  CallerStep(c)
<1>1. PICK outcome \in Provisions :
        /\ pc[c] = "provisioning" /\ (outcome = "cancelled" => c \in cancelled)
        /\ provided' = [provided EXCEPT ![ProcOf[c]] = outcome] /\ Proceeds(c, outcome)
        /\ UNCHANGED <<world, disk, locks, procs, provisioner, check, joined, verdict, missed,
                       cancelled, late, faults>>
  BY DEF Provisioning
<1>2. Itself(c, outcome)  BY <1>1 DEF Itself, Provisions
<1>3. Concluded(c) \/ (Went(c) /\ pc'[c] \in {"public", "tags"} /\ UNCHANGED <<flight, landed>>)
  BY <1>1, <1>2, ProceedsFacts
<1>4. pc'[c] # "provisioning"  BY <1>3, ConcludedPlace
<1>5. CredentialStep(c)  BY <1>1, <1>4 DEF CredentialStep
<1>. QED  BY <1>1, <1>3, <1>5, ProceedsStep

LEMMA CheckingStep ==
  ASSUME RefTypeOK, NEW c \in Resolvers, Checking(c)
  PROVE  CallerStep(c)
<1>0. c # none /\ ProcOf[c] \in Procs  BY CallerFacts
<1>1. /\ pc[c] = "checking"
      /\ UNCHANGED <<world, disk, locks, procs, credential, joined, missed, cancelled, faults>>
  BY DEF Checking
<1>2. CASE /\ verdict' = [verdict EXCEPT ![c] = "public"] /\ Goto(c, "tags")
           /\ UNCHANGED <<check, flight, landed, result, late>>
  <2>1. Went(c)  BY <1>2 DEF Went, InFlight
  <2>2. pc'[c] = "tags"  BY <1>2 DEF Goto, RefTypeOK
  <2>3. verdict'[c] # none  BY <1>2, RefAssumption DEF RefTypeOK
  <2>4. Tables(c)  BY <1>1, <1>2, <2>2, <2>3 DEF Tables, CredentialStep, InFlight
  <2>. QED  BY <1>1, <1>2, <2>1, <2>4 DEF CallerStep, Active, InFlight, RefTypeOK
<1>3. ASSUME NEW e \in Errors, (e \in NotPublic /\ late' = late) \/ FailsWith(c, e),
             verdict' = [verdict EXCEPT ![c] = e], check' = [check EXCEPT ![ProcOf[c]] = none],
             Concludes(c, e)
      PROVE  CallerStep(c)
  <2>1. Itself(c, e) /\ e \in Answers /\ late \subseteq late' /\ late' \subseteq late \cup {c}
    <3>1. CASE e \in NotPublic /\ late' = late  BY <3>1 DEF Itself, NotPublic, Answers, Errors
    <3>2. CASE FailsWith(c, e)  BY <1>1, <3>2, FailsOwn
    <3>. QED  BY <1>3, <3>1, <3>2
  <2>2. Concluded(c)  BY <1>3, <2>1, Conclusion
  <2>3. verdict'[c] # none  BY <1>3, RefAssumption DEF RefTypeOK
  <2>4. Tables(c)
    <3>1. credential' = credential /\ pc[c] # "provisioning"  BY <1>1
    <3>. QED  BY <1>3, <2>2, <2>3, <3>1, ConcludedTables
  <2>5. landed' = landed \/ \E r \in Answers : landed' = [landed EXCEPT ![c] = r]
    BY <2>2 DEF Concluded
  <2>. QED
    BY <1>1, <1>3, <2>1, <2>2, <2>4, <2>5 DEF CallerStep, Concluded, Active, InFlight, RefTypeOK
<1>. QED  BY <1>2, <1>3 DEF Checking

LEMMA CheckWaitStep ==
  ASSUME RefTypeOK, Flying, NEW c \in Resolvers, CheckWait(c)
  PROVE  CallerStep(c)
<1>1. /\ pc[c] = "checkWait" /\ joined' = [joined EXCEPT ![c] = none]
      /\ UNCHANGED <<world, disk, locks, procs, credential, check, verdict, missed, cancelled, late, faults>>
  BY DEF CheckWait
<1>2. joined[c] \in Resolvers  BY <1>1 DEF Flying, WaitsNear
<1> DEFINE v == verdict[joined[c]]
<1>3. v \in Answers \cup {"public", none}  BY <1>2 DEF RefTypeOK
<1>4. \/ c \in cancelled /\ Lands(c, "cancelled")
      \/ v = "public" /\ Goto(c, "tags") /\ UNCHANGED <<flight, landed, result>>
      \/ v # "public" /\ v \in Interrupted /\ Goto(c, "public") /\ UNCHANGED <<flight, landed, result>>
      \/ v # none /\ v # "public" /\ v \notin Interrupted /\ Concludes(c, v)
  <2>1. \/ c \in cancelled /\ Lands(c, "cancelled")
        \/ /\ v # none
           /\ CASE v = "public" -> Goto(c, "tags") /\ UNCHANGED <<flight, landed, result>>
                [] v \in Interrupted -> Goto(c, "public") /\ UNCHANGED <<flight, landed, result>>
                [] OTHER -> Concludes(c, v)
    BY DEF CheckWait, FlownAgain
  <2>. HIDE DEF v
  <2>2. "public" \notin Interrupted  BY DEF Interrupted
  <2>3. CASE v = "public"  BY <2>1, <2>2, <2>3
  <2>4. CASE v \in Interrupted  BY <2>1, <2>2, <2>4
  <2>5. CASE v # "public" /\ v \notin Interrupted  BY <2>1, <2>5
  <2>. QED  BY <2>3, <2>4, <2>5
<1>. HIDE DEF v
<1>5. CASE c \in cancelled /\ Lands(c, "cancelled")
  <2>1. "cancelled" \in Answers /\ Itself(c, "cancelled")  BY <1>1, <1>5 DEF Itself, Answers, Errors
  <2>2. Concluded(c)  BY <1>5, <2>1, Conclusion
  <2>3. Tables(c)  BY <1>1, <2>2, ConcludedTables
  <2>4. landed' = landed \/ \E r \in Answers : landed' = [landed EXCEPT ![c] = r]
    BY <2>2 DEF Concluded
  <2>. QED  BY <1>1, <2>2, <2>3, <2>4 DEF CallerStep, Concluded, Active, InFlight, RefTypeOK
<1>6. CASE \E to \in {"tags", "public"} : Goto(c, to) /\ UNCHANGED <<flight, landed, result>>
  <2>1. PICK to \in {"tags", "public"} : Goto(c, to)  BY <1>6
  <2>2. Went(c)  BY <1>6, <2>1 DEF Went, InFlight
  <2>3. pc'[c] = to  BY <2>1 DEF Goto, RefTypeOK
  <2>4. Tables(c)  BY <1>1, <1>6, <2>3 DEF Tables, CredentialStep, InFlight
  <2>. QED  BY <1>1, <1>6, <2>2, <2>4 DEF CallerStep, Active, InFlight, RefTypeOK
<1>7. CASE v # none /\ v # "public" /\ v \notin Interrupted /\ Concludes(c, v)
  <2>1. v \in Answers /\ Itself(c, v)  BY <1>3, <1>7 DEF Itself, Interrupted
  <2>2. Concluded(c)  BY <1>7, <2>1, Conclusion
  <2>3. Tables(c)  BY <1>1, <2>2, ConcludedTables
  <2>4. landed' = landed \/ \E r \in Answers : landed' = [landed EXCEPT ![c] = r]
    BY <2>2 DEF Concluded
  <2>. QED  BY <1>1, <2>2, <2>3, <2>4 DEF CallerStep, Concluded, Active, InFlight, RefTypeOK
<1>. QED  BY <1>4, <1>5, <1>6, <1>7

\* The requests of a lookup.
LEMMA RequestStep ==
  ASSUME RefTypeOK, NEW c \in Resolvers,
         Found(c) \/ Git(c) \/ \E e \in Errors : NotFound(c, e) \/ NothingFound(c, e) \/ LookupFails(c, e)
  PROVE  CallerStep(c)
<1>0. upstream[Ref[c]] \in Commits \cup {absent}  BY CallerFacts DEF RefTypeOK
<1>1. ASSUME pc[c] \in InFlight \ {"checking", "provisioning"},
             UNCHANGED <<world, disk, locks, procs, credential, check, joined, verdict, missed, cancelled, faults>>,
             NEW r \in Answers, Itself(c, r), Concludes(c, r) \/ Lands(c, r),
             late \subseteq late', late' \subseteq late \cup {c}
      PROVE  CallerStep(c)
  <2>1. Concluded(c)  BY <1>1, Conclusion
  <2>2. Tables(c)  BY <1>1, <2>1, ConcludedTables
  <2>3. landed' = landed \/ \E q \in Answers : landed' = [landed EXCEPT ![c] = q]
    BY <2>1 DEF Concluded
  <2>. QED  BY <1>1, <2>1, <2>2, <2>3 DEF CallerStep, Concluded, Active, InFlight, RefTypeOK
<1>2. CASE Found(c)
  <2>1. upstream[Ref[c]] \in Answers /\ Itself(c, upstream[Ref[c]])
    BY <1>0, <1>2, RefAssumption DEF Found, Answers, Itself, Errors
  <2>. QED  BY <1>1, <1>2, <2>1 DEF Found, InFlight
<1>3. CASE Git(c)
  <2>1. /\ pc[c] = "git"
        /\ UNCHANGED <<world, disk, locks, procs, credential, check, joined, verdict, missed, cancelled, faults>>
    BY <1>3 DEF Git
  <2>2. CASE upstream[Ref[c]] # absent /\ Lands(c, upstream[Ref[c]]) /\ UNCHANGED late
    <3>1. upstream[Ref[c]] \in Answers /\ Itself(c, upstream[Ref[c]])
      BY <1>0, <2>2, RefAssumption DEF Answers, Itself, Errors
    <3>. QED  BY <1>1, <2>1, <2>2, <3>1 DEF InFlight
  <2>3. CASE Lands(c, "denied") /\ UNCHANGED late
    <3>1. "denied" \in Answers /\ Itself(c, "denied")  BY DEF Answers, Itself, Errors
    <3>. QED  BY <1>1, <2>1, <2>3, <3>1 DEF InFlight
  <2>4. CASE \E e \in Errors \ {"limited"} : FailsWith(c, e) /\ Lands(c, e)
    <3>1. PICK e \in Errors : FailsWith(c, e) /\ Lands(c, e)  BY <2>4
    <3>2. Itself(c, e) /\ e \in Answers /\ late \subseteq late' /\ late' \subseteq late \cup {c}
      BY <2>1, <3>1, FailsOwn
    <3>. QED  BY <1>1, <2>1, <3>1, <3>2 DEF InFlight
  <2>. QED  BY <1>3, <2>2, <2>3, <2>4 DEF Git
<1>4. ASSUME NEW e \in Errors, NotFound(c, e) PROVE CallerStep(c)
  <2>1. /\ pc[c] \in {"tags", "heads"}
        /\ missed' = [missed EXCEPT ![c] = missed[c] /\ e = "missing"]
        /\ Goto(c, Asked[pc[c]])
        /\ UNCHANGED <<world, disk, locks, procs, shared, cancelled, late, result, faults>>
    BY <1>4 DEF NotFound, Asked
  <2>2. Asked[pc[c]] \in {"heads", "commits"}  BY <2>1 DEF Asked
  <2>3. Went(c) /\ pc'[c] \in {"heads", "commits"}
    BY <2>1, <2>2 DEF Went, Goto, InFlight, RefTypeOK
  <2>4. Tables(c)  BY <2>1, <2>3 DEF Tables, CredentialStep, InFlight, shared
  <2>5. missed' \in [Resolvers -> BOOLEAN]  BY <2>1 DEF RefTypeOK
  <2>. QED  BY <2>1, <2>3, <2>4, <2>5 DEF CallerStep, Active, InFlight, shared
<1>5. ASSUME NEW e \in Errors, NothingFound(c, e) PROVE CallerStep(c)
  <2>1. PICK r \in NotPublic : Concludes(c, r)  BY <1>5 DEF NothingFound, NotPublic
  <2>2. r \in Answers /\ Itself(c, r)  BY DEF Answers, Itself, Errors, NotPublic
  <2>. QED  BY <1>1, <1>5, <2>1, <2>2 DEF NothingFound, InFlight
<1>6. ASSUME NEW e \in Errors, LookupFails(c, e) PROVE CallerStep(c)
  <2>1. /\ pc[c] \in {"tags", "heads", "commits"} /\ FailsWith(c, e) /\ Concludes(c, e)
        /\ UNCHANGED <<world, disk, locks, procs, credential, check, joined, verdict, missed, cancelled, faults>>
    BY <1>6 DEF LookupFails
  <2>2. Itself(c, e) /\ e \in Answers /\ late \subseteq late' /\ late' \subseteq late \cup {c}
    BY <2>1, FailsOwn
  <2>. QED  BY <1>1, <2>1, <2>2 DEF InFlight
<1>. QED  BY <1>2, <1>3, <1>4, <1>5, <1>6

LEMMA FlightFrame ==
  ASSUME RefTypeOK, Flying, NEW c \in Resolvers, FlightStep(c)
  PROVE  CallerStep(c)
BY FlyStep, WaitStep, ProvisionStep, ProvisioningStep, PublicStep, CheckingStep, CheckWaitStep, RequestStep DEF FlightStep

-----------------------------------------------------------------------------
(* Generations.                                                            *)

LEMMA OpenedStays ==
  ASSUME RefTypeOK, Opened, NEW c \in Resolvers, Turn(c), process[ProcOf[c]] = "open",
         pc'[c] \notin {"idle", "dead"}
  PROVE  Opened'
<1>1. UNCHANGED <<mode, current, generations, initLock, process, generation>>
  BY DEF Turn, world, procs
<1>2. faults' = 0 => faults = 0  BY DEF Turn, RefTypeOK
<1>3. \A d \in Resolvers : d # c => pc'[d] = pc[d] /\ result'[d] = result[d]  BY DEF Turn
<1>4. /\ \A d \in Resolvers : pc'[d] = "idle" /\ process'[ProcOf[d]] = "over" => faults' > 0
      /\ \A d \in Resolvers : pc'[d] \notin {"idle", "done", "dead"} => process'[ProcOf[d]] = "open"
      /\ \A d \in Resolvers : pc'[d] = "dead" => process'[ProcOf[d]] = "over"
      /\ \A d \in Resolvers : result'[d] # none => process'[ProcOf[d]] \in {"open", "over"}
  BY <1>1, <1>3 DEF Opened, Turn, RefTypeOK
<1>. QED  BY <1>1, <1>2, <1>4 DEF Opened

\* A process that opens the snapshot, before any caller of it resolves.
ProcStep(p) ==
    \/ \E refresh \in BOOLEAN : OpenSnapshot(p, refresh)
    \/ CreateGeneration(p) \/ PublishGeneration(p) \/ GenerationFails(p)

LEMMA ProcFrame ==
  ASSUME RefTypeOK, Opened, NEW p \in Procs, ProcStep(p)
  PROVE  /\ UNCHANGED <<world, claimed, entry, refLock, calls>>
         /\ process[p] \in {"new", "creating", "publishing"}
         /\ faults' \in Nat /\ faults <= faults'
         /\ \A q \in Procs : q # p => process'[q] = process[q] /\ generation'[q] = generation[q]
         /\ RefTypeOK'
<1>1. ASSUME NEW refresh \in BOOLEAN, OpenSnapshot(p, refresh)
      PROVE  /\ UNCHANGED <<world, disk, refLock, calls, faults>> /\ process[p] = "new"
             /\ \E now \in {"open", "over", "creating"} : process' = [process EXCEPT ![p] = now]
             /\ generation' = generation \/ generation' = [generation EXCEPT ![p] = current]
             /\ generation' # generation => current # none
             /\ initLock' \in {initLock, p}
  BY <1>1 DEF OpenSnapshot
<1>2. CASE \E refresh \in BOOLEAN : OpenSnapshot(p, refresh)
  <2>1. generation' \in [Procs -> 0 .. MaxGenerations]
    BY <1>1, <1>2, RefAssumption DEF RefTypeOK, Generations
  <2>2. /\ UNCHANGED <<world, disk, refLock, calls, faults>> /\ process[p] = "new"
        /\ process' \in [Procs -> {"new", "creating", "publishing", "open", "over"}]
        /\ initLock' \in Procs \cup {none}
    BY <1>1, <1>2 DEF RefTypeOK
  <2>3. RefTypeOK'
    BY <2>1, <2>2 DEF RefTypeOK, world, disk, calls, shared, credential
  <2>4. \A q \in Procs : q # p => process'[q] = process[q] /\ generation'[q] = generation[q]
    BY <1>1, <1>2 DEF RefTypeOK
  <2>. QED
    BY <2>2, <2>3, <2>4 DEF RefTypeOK, world, disk, calls, shared, credential
<1>3. CASE CreateGeneration(p)
  <2>1. PICK g \in Unused : generations' = generations \cup {g} /\ generation' = [generation EXCEPT ![p] = g]
    BY <1>3 DEF CreateGeneration
  <2>2. g \in Generations /\ g \in 0 .. MaxGenerations  BY <2>1, RefAssumption DEF Unused, Generations
  <2>3. /\ process[p] = "creating" /\ process' = [process EXCEPT ![p] = "publishing"]
        /\ UNCHANGED <<world, current, claimed, entry, locks, calls, faults>>
    BY <1>3 DEF CreateGeneration
  <2>. QED  BY <2>1, <2>2, <2>3 DEF RefTypeOK, world, locks, calls, shared, credential
<1>4. CASE PublishGeneration(p)
  <2>1. generation[p] \in Generations
    BY <1>4 DEF PublishGeneration, Opened, RefTypeOK
  <2>. QED  BY <1>4, <2>1 DEF PublishGeneration, RefTypeOK, world, calls, shared, credential
<1>5. CASE GenerationFails(p)
  BY <1>5 DEF GenerationFails, Fault, RefTypeOK, world, calls, shared, credential
<1>. QED  BY <1>2, <1>3, <1>4, <1>5 DEF ProcStep

LEMMA ProcOpened ==
  ASSUME RefTypeOK, Opened, NEW p \in Procs, ProcStep(p)
  PROVE  Opened'
<1>0. p # none  BY RefAssumption
<1>1. /\ UNCHANGED <<mode, pc, result>> /\ faults' \in Nat /\ faults <= faults'
      /\ process[p] \in {"new", "creating", "publishing"}
      /\ \A q \in Procs : q # p => process'[q] = process[q] /\ generation'[q] = generation[q]
  BY ProcFrame DEF world, calls
<1>2. /\ \A c \in Resolvers : ProcOf[c] \in Procs
      /\ \A c \in Resolvers : ProcOf[c] = p => pc[c] \in {"idle", "done"} /\ result[c] = none
  BY <1>1 DEF Opened, Procs
<1>3. /\ \A c \in Resolvers : pc[c] \notin {"idle", "done", "dead"} => process'[ProcOf[c]] = "open"
      /\ \A c \in Resolvers : pc[c] = "dead" => process'[ProcOf[c]] = "over"
      /\ \A c \in Resolvers : result[c] # none => process'[ProcOf[c]] \in {"open", "over"}
  BY <1>1, <1>2 DEF Opened
<1>4. \A c \in Resolvers : pc[c] = "idle" /\ process'[ProcOf[c]] = "over" /\ process'[p] # "over" => faults' > 0
  BY <1>1, <1>2 DEF Opened, RefTypeOK
<1>5. ASSUME NEW refresh \in BOOLEAN, OpenSnapshot(p, refresh) PROVE Opened'
  <2>1. /\ UNCHANGED <<current, generations, faults>> /\ process[p] = "new" /\ initLock = none
    BY <1>5 DEF OpenSnapshot, disk
  <2>2. \A q \in Procs : process[q] \notin {"creating", "publishing"}
    BY <2>1, RefAssumption DEF Opened
  <2>3. CASE ~refresh /\ current # none
    <3>1. /\ process' = [process EXCEPT ![p] = "open"]
          /\ generation' = [generation EXCEPT ![p] = current] /\ initLock' = initLock
      BY <1>5, <2>3 DEF OpenSnapshot
    <3>2. process'[p] = "open" /\ generation'[p] = current  BY <3>1 DEF RefTypeOK
    <3>. QED
      BY <1>1, <1>3, <1>4, <2>1, <2>2, <2>3, <3>1, <3>2 DEF Opened
  <2>4. CASE ~refresh /\ current = none /\ generations # {}
    <3>1. process' = [process EXCEPT ![p] = "over"] /\ UNCHANGED <<initLock, generation>>
      BY <1>5, <2>4 DEF OpenSnapshot
    <3>2. process'[p] = "over" /\ faults # 0  BY <2>1, <2>4, <3>1 DEF RefTypeOK, Opened
    <3>3. faults' > 0  BY <2>1, <3>2 DEF RefTypeOK
    <3>. QED  BY <1>1, <1>3, <2>1, <2>2, <2>4, <3>1, <3>2, <3>3 DEF Opened
  <2>5. CASE refresh \/ (current = none /\ generations = {})
    <3>1. process' = [process EXCEPT ![p] = "creating"] /\ initLock' = p /\ UNCHANGED generation
      BY <1>5, <2>5 DEF OpenSnapshot
    <3>2. process'[p] = "creating"  BY <3>1 DEF RefTypeOK
    <3>. QED  BY <1>0, <1>1, <1>3, <1>4, <2>1, <2>2, <3>1, <3>2 DEF Opened
  <2>. QED  BY <2>3, <2>4, <2>5
<1>6. CASE CreateGeneration(p)
  <2>1. PICK g \in Unused : generations' = generations \cup {g} /\ generation' = [generation EXCEPT ![p] = g]
    BY <1>6 DEF CreateGeneration
  <2>2. \A h \in generations \cup {generation[q] : q \in Procs} : g > h  BY <2>1 DEF Unused
  <2>3. g \notin generations /\ \A q \in Procs : generation[q] # g
    <3>1. g \in Nat  BY <2>1 DEF Unused, Generations
    <3>2. ~(g > g)  BY <3>1
    <3>. QED  BY <2>2, <3>2
  <2>4. /\ process[p] = "creating" /\ process' = [process EXCEPT ![p] = "publishing"]
        /\ UNCHANGED <<current, initLock>>
    BY <1>6 DEF CreateGeneration, locks
  <2>5. process'[p] = "publishing" /\ generation'[p] = g /\ initLock = p
    BY <2>1, <2>4 DEF RefTypeOK, Opened
  <2>6. \A q \in Procs : q # p => process[q] \notin {"creating", "publishing"}
    BY <2>5 DEF Opened
  <2>7. current # g  BY <2>3, RefAssumption DEF Opened, RefTypeOK, Generations, Unused
  <2>. QED
    BY <1>0, <1>1, <1>3, <1>4, <2>1, <2>3, <2>4, <2>5, <2>6, <2>7 DEF Opened
<1>7. CASE PublishGeneration(p)
  <2>1. /\ process[p] = "publishing" /\ process' = [process EXCEPT ![p] = "open"]
        /\ current' = generation[p] /\ initLock' = none /\ UNCHANGED <<generations, generation>>
    BY <1>7 DEF PublishGeneration
  <2>2. process'[p] = "open" /\ initLock = p /\ generation[p] \in generations
    BY <2>1 DEF RefTypeOK, Opened
  <2>3. \A q \in Procs : q # p => process[q] \notin {"creating", "publishing"}  BY <2>2 DEF Opened
  <2>4. current' # none  BY <2>1, <2>2, RefAssumption DEF RefTypeOK, Generations
  <2>. QED  BY <1>1, <1>3, <1>4, <2>1, <2>2, <2>3, <2>4 DEF Opened
<1>8. CASE GenerationFails(p)
  <2>1. /\ process[p] = "publishing" /\ process' = [process EXCEPT ![p] = "over"]
        /\ generations' \in {generations, generations \ {generation[p]}}
        /\ initLock' = none /\ UNCHANGED <<current, generation>> /\ faults' = faults + 1
    BY <1>8 DEF GenerationFails, Fault
  <2>2. process'[p] = "over" /\ initLock = p /\ generation[p] # current /\ faults' > 0
    BY <2>1 DEF RefTypeOK, Opened
  <2>3. \A q \in Procs : q # p => process[q] \notin {"creating", "publishing"} /\ generation[q] # generation[p]
    BY <2>1, <2>2 DEF Opened
  <2>. QED  BY <1>1, <1>3, <2>1, <2>2, <2>3 DEF Opened
<1>. QED  BY <1>5, <1>6, <1>7, <1>8 DEF ProcStep

\* The slots of callers that have done anything stay what they are.
LEMMA ProcKept ==
  ASSUME RefTypeOK, Opened, Kept, Flying, NEW p \in Procs, ProcStep(p)
  PROVE  Kept' /\ Flying'
<1>1. /\ UNCHANGED <<mode, claimed, entry, refLock, calls>> /\ faults' \in Nat /\ faults <= faults'
      /\ process[p] \in {"new", "creating", "publishing"}
      /\ \A q \in Procs : q # p => process'[q] = process[q] /\ generation'[q] = generation[q]
  BY ProcFrame DEF world
<1>2. Flying'
  BY <1>1 DEF Flying, Interruptions, TokenLost, TablesServed, Provisioned, WaitsNear, Served, calls, shared, credential
<1>3. ASSUME NEW c \in Resolvers, pc[c] \in Active \/ Answered(c) PROVE Slot(c)' = Slot(c)
  <2>1. ProcOf[c] \in Procs  BY DEF Procs
  <2>2. process[ProcOf[c]] \in {"open", "over"}
    <3>1. CASE pc[c] \in Active  BY <3>1 DEF Opened, Active, InFlight
    <3>2. CASE Answered(c)
      <4>1. result[c] # none  BY <3>2, RefAssumption DEF Answered, NotPublic, Errors
      <4>. QED  BY <4>1 DEF Opened
    <3>. QED  BY <1>3, <3>1, <3>2
  <2>3. ProcOf[c] # p  BY <1>1, <2>2
  <2>. QED  BY <1>1, <2>1, <2>3 DEF Slot
<1>4. /\ faults' = 0 => faults = 0
      /\ faults > 0 => faults' > 0
  BY <1>1 DEF RefTypeOK
<1>5. Kept'
  BY <1>1, <1>3, <1>4 DEF Kept, Answered, calls
<1>. QED  BY <1>2, <1>5

-----------------------------------------------------------------------------
(* A step of a caller.                                                     *)

\* The token of a process, whatever a caller does.
LEMMA ProvisionedStays ==
  ASSUME RefTypeOK, Opened, Provisioned, NEW c \in Resolvers, Turn(c), RefTypeOK',
         CredentialStep(c), pc[c] # "dead", pc'[c] # "dead"
  PROVE  /\ Provisioned'
         /\ \A d \in Resolvers : TokenLost(d) => TokenLost(d)'
         /\ \A q \in Procs : q # ProcOf[c] => provisioner'[q] = provisioner[q] /\ provided'[q] = provided[q]
<1> DEFINE p == ProcOf[c]
<1>0. p \in Procs /\ c # none /\ \A d \in Resolvers : ProcOf[d] \in Procs /\ d # none
  BY CallerFacts
<1>1. cancelled' = cancelled /\ \A d \in Resolvers : d # c => pc'[d] = pc[d]  BY DEF Turn
<1>2. \A q \in Procs : /\ provisioner[q] \in Resolvers \cup {none} /\ provided[q] \in Provisions \cup {none}
                       /\ provisioner[q] = none => provided[q] = none
  BY DEF RefTypeOK, Provisioned
<1>3. none \notin Provisions  BY RefAssumption
<1>4. CASE credential' = credential /\ pc[c] # "provisioning" /\ pc'[c] # "provisioning"
  <2>1. provisioner' = provisioner /\ provided' = provided  BY <1>4 DEF credential
  <2>2. Provisioned'  BY <1>1, <1>2, <1>4, <2>1 DEF Provisioned
  <2>. QED  BY <1>1, <2>1, <2>2 DEF TokenLost
<1>5. CASE /\ pc[c] = "provision" /\ provisioner[p] = none
           /\ provisioner' = [provisioner EXCEPT ![p] = c]
           /\ \/ pc'[c] = "provisioning" /\ provided' = provided
              \/ pc'[c] # "provisioning" /\ c \in cancelled /\ provided' = [provided EXCEPT ![p] = "cancelled"]
  <2>1. /\ provisioner'[p] = c /\ provided[p] = none
        /\ \A q \in Procs : q # p => provisioner'[q] = provisioner[q] /\ provided'[q] = provided[q]
    BY <1>0, <1>2, <1>5 DEF RefTypeOK
  <2>2. \/ pc'[c] = "provisioning" /\ provided'[p] = none
        \/ pc'[c] # "provisioning" /\ c \in cancelled /\ provided'[p] = "cancelled"
    BY <1>0, <1>5, <2>1 DEF RefTypeOK
  <2>3. \A d \in Resolvers : d # c /\ pc[d] = "provisioning" => ProcOf[d] # p
    BY <1>0, <1>5 DEF Provisioned
  <2>4. \A d \in Resolvers : pc'[d] = "provisioning" => provisioner'[ProcOf[d]] = d /\ provided'[ProcOf[d]] = none
    BY <1>0, <1>1, <2>1, <2>2, <2>3 DEF Provisioned
  <2>5. \A q \in Procs : provisioner'[q] # none =>
          /\ ProcOf[provisioner'[q]] = q
          /\ provided'[q] # none \/ pc'[provisioner'[q]] \in {"provisioning", "dead"}
    <3> SUFFICES ASSUME NEW q \in Procs, provisioner'[q] # none
                 PROVE  /\ ProcOf[provisioner'[q]] = q
                        /\ provided'[q] # none \/ pc'[provisioner'[q]] \in {"provisioning", "dead"}
      OBVIOUS
    <3>1. CASE q = p  BY <1>3, <2>1, <2>2, <3>1 DEF Provisions
    <3>2. CASE q # p
      <4>1. provisioner[q] \in Resolvers /\ provisioner[q] # c  BY <1>2, <2>1, <3>2 DEF Provisioned
      <4>. QED  BY <1>1, <2>1, <3>2, <4>1 DEF Provisioned
    <3>. QED  BY <3>1, <3>2
  <2>6. \A q \in Procs : /\ provided'[q] # none => provisioner'[q] # none
                         /\ provided'[q] = "cancelled" => provisioner'[q] \in cancelled
    BY <1>0, <1>3, <2>1, <2>2 DEF Provisioned, Provisions
  <2>7. \A d \in Resolvers : TokenLost(d) => TokenLost(d)'
    <3>1. "cancelled" # none  BY <1>3 DEF Provisions
    <3>. QED  BY <1>0, <1>1, <2>1, <3>1 DEF TokenLost
  <2>8. Provisioned'  BY <1>1, <2>4, <2>5, <2>6 DEF Provisioned
  <2>. QED  BY <2>1, <2>7, <2>8
<1>6. CASE /\ pc[c] = "provisioning" /\ pc'[c] # "provisioning" /\ provisioner' = provisioner
           /\ \E o \in Provisions :
                provided' = [provided EXCEPT ![p] = o] /\ (o = "cancelled" => c \in cancelled)
  <2>1. provisioner[p] = c /\ provided[p] = none  BY <1>6 DEF Provisioned
  <2>2. /\ provided'[p] \in Provisions /\ (provided'[p] = "cancelled" => c \in cancelled)
        /\ \A q \in Procs : q # p => provided'[q] = provided[q]
    BY <1>0, <1>6 DEF RefTypeOK
  <2>3. \A d \in Resolvers : d # c /\ pc[d] = "provisioning" => ProcOf[d] # p
    BY <2>1 DEF Provisioned
  <2>4. \A d \in Resolvers : pc'[d] = "provisioning" => provisioner'[ProcOf[d]] = d /\ provided'[ProcOf[d]] = none
    BY <1>0, <1>1, <1>6, <2>2, <2>3 DEF Provisioned
  <2>5. \A q \in Procs : provisioner[q] # none =>
          /\ ProcOf[provisioner[q]] = q
          /\ provided'[q] # none \/ pc'[provisioner[q]] \in {"provisioning", "dead"}
    <3> SUFFICES ASSUME NEW q \in Procs, provisioner[q] # none
                 PROVE  /\ ProcOf[provisioner[q]] = q
                        /\ provided'[q] # none \/ pc'[provisioner[q]] \in {"provisioning", "dead"}
      OBVIOUS
    <3>1. CASE q = p  BY <1>3, <2>1, <2>2, <3>1
    <3>2. CASE q # p
      <4>1. provisioner[q] \in Resolvers /\ provisioner[q] # c  BY <1>2, <3>2 DEF Provisioned
      <4>. QED  BY <1>1, <2>2, <3>2, <4>1 DEF Provisioned
    <3>. QED  BY <3>1, <3>2
  <2>6. \A q \in Procs : /\ provided'[q] # none => provisioner[q] # none
                         /\ provided'[q] = "cancelled" => provisioner[q] \in cancelled
    BY <1>0, <2>1, <2>2 DEF Provisioned
  <2>7. \A d \in Resolvers : TokenLost(d) => TokenLost(d)'
    <3>1. "cancelled" # none  BY <1>3 DEF Provisions
    <3>. QED  BY <1>0, <1>1, <1>6, <2>1, <2>2, <3>1 DEF TokenLost
  <2>8. Provisioned'  BY <1>1, <1>6, <2>4, <2>5, <2>6 DEF Provisioned
  <2>. QED  BY <1>6, <2>2, <2>7, <2>8
<1>. QED  BY <1>4, <1>5, <1>6 DEF CredentialStep

\* Flights, checks and the token, whatever a caller does.
LEMMA FlyingStays ==
  ASSUME RefTypeOK, Opened, Flying, NEW c \in Resolvers, Turn(c), RefTypeOK',
         Tables(c), pc[c] # "dead", pc'[c] # "dead", process[ProcOf[c]] = "open",
         result'[c] = result[c] \/ Itself(c, result'[c])
  PROVE  Flying'
<1>0. /\ Here(c) \in Procs \X Refs /\ ProcOf[c] \in Procs /\ c # none /\ Here(c)[1] = ProcOf[c]
      /\ \A d \in Resolvers : ProcOf[d] \in Procs
  BY CallerFacts DEF Here, Procs
<1>1. /\ cancelled' = cancelled /\ late \subseteq late' /\ process' = process
      /\ \A d \in Resolvers : d # c =>
           /\ pc'[d] = pc[d] /\ result'[d] = result[d] /\ joined'[d] = joined[d]
           /\ landed'[d] = landed[d] /\ verdict'[d] = verdict[d]
  BY DEF Turn, procs
<1>15. /\ Provisioned'
       /\ \A d \in Resolvers : TokenLost(d) => TokenLost(d)'
       /\ \A q \in Procs : q # ProcOf[c] => provisioner'[q] = provisioner[q] /\ provided'[q] = provided[q]
  BY ProvisionedStays DEF Flying, Tables
<1>2. Interruptions'
  BY <1>1, <1>15 DEF Flying, Interruptions, Itself
\* A leader that has started is at work or has ended, before and after.
<1>3. ASSUME NEW d \in Resolvers, landed[d] # none \/ pc[d] \in InFlight \cup {"dead"}
      PROVE  landed'[d] # none \/ pc'[d] \in InFlight \cup {"dead"}
  BY <1>1, <1>3 DEF Tables
<1>4. ASSUME NEW d \in Resolvers, verdict[d] # none \/ pc[d] \in {"checking", "dead"}
      PROVE  verdict'[d] # none \/ pc'[d] \in {"checking", "dead"}
  BY <1>1, <1>4 DEF Tables
<1>5. ASSUME NEW h \in Procs \X Refs, flight'[h] # none
      PROVE  ProcOf[flight'[h]] = h[1] /\ (landed'[flight'[h]] # none \/ pc'[flight'[h]] \in InFlight \cup {"dead"})
  <2>1. CASE flight'[h] = flight[h]
    <3>1. flight[h] \in Resolvers  BY <1>5, <2>1 DEF RefTypeOK
    <3>. QED  BY <1>3, <1>5, <2>1, <3>1 DEF Flying, TablesServed
  <2>2. CASE flight'[h] # flight[h]
    <3>1. h = Here(c) /\ flight'[h] = c /\ pc'[c] \in InFlight
      BY <1>0, <1>5, <2>2 DEF Tables, RefTypeOK
    <3>. QED  BY <1>0, <3>1
  <2>. QED  BY <2>1, <2>2
<1>6. ASSUME NEW p \in Procs, check'[p] # none
      PROVE  ProcOf[check'[p]] = p /\ (verdict'[check'[p]] # none \/ pc'[check'[p]] \in {"checking", "dead"})
  <2>1. CASE check'[p] = check[p]
    <3>1. check[p] \in Resolvers  BY <1>6, <2>1 DEF RefTypeOK
    <3>. QED  BY <1>4, <1>6, <2>1, <3>1 DEF Flying, TablesServed
  <2>2. CASE check'[p] # check[p]
    <3>1. p = ProcOf[c] /\ check'[p] = c /\ pc'[c] = "checking"
      BY <1>0, <1>6, <2>2 DEF Tables, RefTypeOK
    <3>. QED  BY <1>0, <3>1
  <2>. QED  BY <2>1, <2>2
<1>7. TablesServed'  BY <1>5, <1>6 DEF TablesServed
\* No leader of a process that goes on has died.
<1>8. \A d \in Resolvers : ProcOf[d] = ProcOf[c] => pc[d] # "dead"
  BY DEF Opened
<1>9. pc'[c] = "waiting" =>
        /\ joined'[c] \in Resolvers /\ ProcOf[joined'[c]] = ProcOf[c]
        /\ landed[joined'[c]] # none \/ pc[joined'[c]] \in InFlight
  <2> SUFFICES ASSUME pc'[c] = "waiting" PROVE
        /\ joined'[c] \in Resolvers /\ ProcOf[joined'[c]] = ProcOf[c]
        /\ landed[joined'[c]] # none \/ pc[joined'[c]] \in InFlight
    OBVIOUS
  <2>1. flight[Here(c)] # none /\ joined'[c] = flight[Here(c)]  BY DEF Tables
  <2>2. flight[Here(c)] \in Resolvers  BY <1>0, <2>1 DEF RefTypeOK
  <2>3. /\ ProcOf[flight[Here(c)]] = ProcOf[c]
        /\ landed[flight[Here(c)]] # none \/ pc[flight[Here(c)]] \in InFlight \cup {"dead"}
    BY <1>0, <2>1 DEF Flying, TablesServed
  <2>. QED  BY <1>8, <2>1, <2>2, <2>3
<1>10. pc'[c] = "checkWait" =>
        /\ joined'[c] \in Resolvers /\ ProcOf[joined'[c]] = ProcOf[c]
        /\ verdict[joined'[c]] # none \/ pc[joined'[c]] = "checking"
  <2> SUFFICES ASSUME pc'[c] = "checkWait" PROVE
        /\ joined'[c] \in Resolvers /\ ProcOf[joined'[c]] = ProcOf[c]
        /\ verdict[joined'[c]] # none \/ pc[joined'[c]] = "checking"
    OBVIOUS
  <2>1. check[ProcOf[c]] # none /\ joined'[c] = check[ProcOf[c]]  BY DEF Tables
  <2>2. check[ProcOf[c]] \in Resolvers  BY <1>0, <2>1 DEF RefTypeOK
  <2>3. /\ ProcOf[check[ProcOf[c]]] = ProcOf[c]
        /\ verdict[check[ProcOf[c]]] # none \/ pc[check[ProcOf[c]]] \in {"checking", "dead"}
    BY <1>0, <2>1 DEF Flying, TablesServed
  <2>. QED  BY <1>8, <2>1, <2>2, <2>3
<1>11. \A d \in Resolvers : d # c /\ pc[d] \in {"waiting", "checkWait"} =>
         joined[d] \in Resolvers /\ ProcOf[joined[d]] = ProcOf[d]
  BY DEF Flying, WaitsNear
<1>12. WaitsNear'
  BY <1>1, <1>9, <1>10, <1>11 DEF WaitsNear
\* A leader at work leaves only when it has ended.
<1>13. /\ landed[c] # none \/ pc[c] \in InFlight => landed'[c] # none \/ pc'[c] \in InFlight
       /\ verdict[c] # none \/ pc[c] = "checking" => verdict'[c] # none \/ pc'[c] = "checking"
  BY DEF Tables
\* Who runs the provider has not died either.
<1>16. ASSUME NEW d \in Resolvers, pc'[d] = "provision", provisioner'[ProcOf[d]] # none
       PROVE  provided'[ProcOf[d]] # none \/ pc'[provisioner'[ProcOf[d]]] = "provisioning"
  <2> DEFINE q == ProcOf[d]  e == provisioner'[q]
  <2>1. /\ e \in Resolvers /\ ProcOf[e] = q
        /\ provided'[q] # none \/ pc'[e] \in {"provisioning", "dead"}
    BY <1>0, <1>15, <1>16 DEF Provisioned, RefTypeOK
  <2>2. CASE q = ProcOf[c]
    <3>1. pc'[e] # "dead"  BY <1>1, <1>8, <2>1, <2>2
    <3>. QED  BY <2>1, <3>1
  <2>3. CASE q # ProcOf[c]
    <3>1. d # c /\ e # c /\ e = provisioner[q] /\ provided'[q] = provided[q]
      BY <1>0, <1>15, <2>1, <2>3
    <3>2. pc[d] = "provision" /\ pc'[e] = pc[e]  BY <1>1, <1>16, <2>1, <3>1
    <3>3. Served(d)  BY DEF Flying
    <3>. QED  BY <1>16, <3>1, <3>2, <3>3 DEF Served
  <2>. QED  BY <2>2, <2>3
<1>14. ASSUME NEW d \in Resolvers PROVE Served(d)'
  <2>1. CASE d # c
    <3>1. Served(d)  BY DEF Flying
    <3>. QED  BY <1>1, <1>11, <1>13, <1>16, <2>1, <3>1 DEF Served
  <2>2. CASE d = c
    BY <1>1, <1>9, <1>10, <1>13, <1>16, <2>2 DEF Served
  <2>. QED  BY <2>1, <2>2
<1>. QED  BY <1>2, <1>7, <1>12, <1>14, <1>15 DEF Flying

\* A lookup under the lock of its ref.
LEMMA FlownKept ==
  ASSUME RefTypeOK, Kept, NEW c \in Resolvers, CallerStep(c), Turn(c)
  PROVE  Kept'
<1>1. /\ UNCHANGED <<mode, claimed, entry, refLock, process, generation, faults>>
      /\ \A d \in Resolvers : d # c => pc'[d] = pc[d] /\ result'[d] = result[d]
      /\ pc[c] \in Active
  BY DEF CallerStep, Turn, world, disk, locks, procs
<1>2. \A d \in Resolvers : Slot(d)' = Slot(d)  BY <1>1 DEF Slot
<1>3. result'[c] = result[c] \/ result'[c] \in Answers
  BY DEF CallerStep, Went, Came, Returns, RefTypeOK
<1>4. pc'[c] # "done" \/ refLock[Slot(c)] # c
  BY DEF CallerStep, Went, Came, Returns, Goto, RefTypeOK, InFlight
<1>5. CASE mode # "snapshot"
  BY <1>1, <1>3, <1>5, RefAssumption DEF Kept, Answers, Errors
<1>6. CASE mode = "snapshot"
  <2>1. refLock[Slot(c)] = c /\ entry[Slot(c)] = none  BY <1>1, <1>6 DEF Kept
  <2>2. ~Answered(c)'  BY <1>4, <2>1 DEF Answered
  <2>3. \A d \in Resolvers : d # c => Answered(d)' = Answered(d)  BY <1>1 DEF Answered
  <2>4. result'[c] = "closed" => faults > 0
    BY <1>3, RefAssumption DEF Kept, Answers, Errors
  <2>. QED  BY <1>1, <1>2, <1>6, <2>1, <2>2, <2>3, <2>4 DEF Kept
<1>. QED  BY <1>5, <1>6

LEMMA FlightPreserves ==
  ASSUME RefInv, NEW c \in Resolvers, FlightStep(c)
  PROVE  RefInv'
<1>1. CallerStep(c)  BY FlightFrame DEF RefInv
<1>2. RefTypeOK' /\ Turn(c)  BY <1>1, StepFrame DEF RefInv
<1>3. pc[c] \in Active \ {"pin"} /\ process[ProcOf[c]] = "open" /\ pc[c] # "dead"
  BY <1>1 DEF CallerStep, Active, InFlight, RefInv, Opened
<1>4. pc'[c] \notin {"idle", "dead"}
  BY <1>1 DEF CallerStep, Went, Came, Returns, Goto, InFlight, RefInv, RefTypeOK
<1>5. Opened'  BY <1>2, <1>3, <1>4, OpenedStays DEF RefInv
<1>6. Kept'  BY <1>1, <1>2, FlownKept DEF RefInv
<1>7. result'[c] = result[c] \/ Itself(c, result'[c])
  BY <1>1 DEF CallerStep, Went, Came, Returns, RefInv, RefTypeOK
<1>8. Flying'  BY <1>1, <1>2, <1>3, <1>4, <1>7, FlyingStays DEF RefInv, CallerStep
<1>. QED  BY <1>2, <1>5, <1>6, <1>8 DEF RefInv

LEMMA LockKept ==
  ASSUME RefTypeOK, Opened, Kept, NEW c \in Resolvers, LockStep(c)
  PROVE  Kept'
<1>0. Slot(c) \in Slots /\ c # none  BY CallerFacts
<1>1. /\ UNCHANGED <<mode, process, generation>> /\ faults' \in Nat /\ faults <= faults'
      /\ \A d \in Resolvers : d # c => pc'[d] = pc[d] /\ result'[d] = result[d]
  BY LockFrame DEF Turn, world, procs
<1>2. \A d \in Resolvers : Slot(d)' = Slot(d)  BY <1>1 DEF Slot
<1>3. \A d \in Resolvers : d # c => Answered(d)' = Answered(d)  BY <1>1 DEF Answered
<1>4. (faults' = 0 => faults = 0) /\ (faults > 0 => faults' > 0)  BY <1>1 DEF RefTypeOK
<1>5. entry[Slot(c)] \in Commits \cup {"missing", none}  BY <1>0 DEF RefTypeOK
<1>6. ASSUME UNCHANGED <<claimed, entry, refLock>>, pc'[c] \notin Active \/ mode # "snapshot",
             result'[c] # "closed" \/ faults' > 0,
             mode = "snapshot" /\ Answered(c)' => entry[Slot(c)] = Pinned(result'[c])
      PROVE  Kept'
  BY <1>1, <1>2, <1>3, <1>4, <1>6 DEF Kept
<1>7. result[c] # "closed" \/ faults > 0  BY DEF Kept
<1>8. entry[Slot(c)] # none => entry[Slot(c)] = Pinned(entry[Slot(c)]) /\ entry[Slot(c)] # "closed"
  BY <1>5, RefAssumption DEF Pinned, NotPublic, Errors
<1>9. CASE Begin(c)
  <2>1. UNCHANGED <<claimed, entry, refLock, result>>
        /\ pc'[c] \in {"lock", "cached", "fly"} /\ (mode = "snapshot" => pc'[c] = "lock")
    BY <1>9 DEF Begin, Goto, RefTypeOK, disk, locks
  <2>. QED  BY <1>4, <1>6, <1>7, <2>1 DEF Active, InFlight, Answered
<1>10. CASE Cached(c)
  <2>1. /\ UNCHANGED <<claimed, entry, refLock>>
        /\ \/ entry[Slot(c)] # none /\ pc'[c] = "done" /\ result'[c] = entry[Slot(c)]
           \/ pc'[c] = "lock" /\ result'[c] = result[c]
    BY <1>10 DEF Cached, Ends, Goto, RefTypeOK, disk, locks
  <2>. QED  BY <1>4, <1>6, <1>7, <1>8, <2>1 DEF Active, InFlight, Answered
<1>11. CASE LockRef(c)
  <2>1. refLock[Slot(c)] = none /\ entry' = entry  BY <1>11 DEF LockRef
  <2>2. CASE entry[Slot(c)] # none
    <3>1. pc'[c] = "done" /\ result'[c] = entry[Slot(c)] /\ UNCHANGED <<claimed, refLock>>
      BY <1>11, <2>2 DEF LockRef, Ends, RefTypeOK
    <3>. QED  BY <1>6, <1>8, <2>1, <2>2, <3>1 DEF Active, InFlight
  <2>3. CASE entry[Slot(c)] = none /\ mode = "snapshot" /\ Slot(c) \in claimed
    <3>1. pc'[c] = "done" /\ result'[c] = "closed" /\ UNCHANGED <<claimed, refLock>>
      BY <1>11, <2>3 DEF LockRef, Ends, RefTypeOK
    <3>2. faults # 0  BY <2>1, <2>3 DEF Kept
    <3>3. ~Answered(c)'  BY <3>1, RefAssumption DEF Answered, NotPublic, Errors
    <3>4. faults > 0  BY <3>2 DEF RefTypeOK
    <3>. QED  BY <1>4, <1>6, <2>1, <3>1, <3>3, <3>4 DEF Active, InFlight
  <2>4. CASE entry[Slot(c)] = none /\ ~(mode = "snapshot" /\ Slot(c) \in claimed)
    <3>1. /\ refLock' = [refLock EXCEPT ![Slot(c)] = c] /\ claimed' \subseteq claimed \cup {Slot(c)}
          /\ pc'[c] = "fly" /\ result'[c] = result[c]
      BY <1>11, <2>4 DEF LockRef, Goto, RefTypeOK
    <3>2. refLock'[Slot(c)] = c /\ \A s \in Slots : s # Slot(c) => refLock'[s] = refLock[s]
      BY <1>0, <3>1 DEF RefTypeOK
    <3>3. CASE mode # "snapshot"  BY <1>1, <1>4, <1>7, <3>1, <3>3 DEF Kept
    <3>4. CASE mode = "snapshot"
      <4>1. \A d \in Resolvers : d # c /\ pc[d] \in Active => Slot(d) \in Slots /\ Slot(d) # Slot(c)
        BY <2>1, <3>4, CallerFacts DEF Kept
      <4>2. \A d \in Resolvers : pc'[d] \in Active => refLock'[Slot(d)] = d /\ entry'[Slot(d)] = none
        BY <1>1, <2>1, <2>4, <3>2, <3>4, <4>1 DEF Kept
      <4>3. \A s \in claimed' : faults' = 0 => entry'[s] # none \/ refLock'[s] # none
        BY <1>0, <1>4, <2>1, <3>1, <3>2, <3>4 DEF Kept, RefTypeOK
      <4>4. ~Answered(c)'  BY <3>1 DEF Answered
      <4>5. \A d \in Resolvers : Answered(d)' => entry'[Slot(d)] = Pinned(result'[d])
        BY <1>1, <1>3, <2>1, <3>4, <4>4 DEF Kept
      <4>6. \A d \in Resolvers : result'[d] = "closed" => faults' > 0
        BY <1>1, <1>4, <3>1 DEF Kept
      <4>. QED  BY <1>2, <4>2, <4>3, <4>5, <4>6 DEF Kept
    <3>. QED  BY <3>3, <3>4
  <2>. QED  BY <2>2, <2>3, <2>4
<1>12. CASE LockFails(c)
  <2>1. /\ UNCHANGED <<claimed, entry, refLock>>
        /\ mode = "snapshot" => pc'[c] = "done" /\ result'[c] = "broken"
        /\ result'[c] \in {result[c], "broken"}
    BY <1>12 DEF LockFails, Ends, Goto, RefTypeOK, disk, locks
  <2>2. mode = "snapshot" => ~Answered(c)'  BY <2>1, RefAssumption DEF Answered, NotPublic, Errors
  <2>. QED  BY <1>4, <1>6, <1>7, <2>1, <2>2 DEF Active, InFlight
<1>13. CASE LockInterrupted(c)
  <2>1. /\ UNCHANGED <<claimed, entry, refLock>> /\ pc'[c] = "done" /\ result'[c] = "cancelled"
    BY <1>13 DEF LockInterrupted, Ends, RefTypeOK, disk, locks
  <2>2. ~Answered(c)'  BY <2>1, RefAssumption DEF Answered, NotPublic, Errors
  <2>. QED  BY <1>6, <2>1, <2>2 DEF Active, InFlight
<1>14. CASE Pin(c)
  <2>1. /\ pc[c] = "pin" /\ pc'[c] = "done"
        /\ refLock' = [refLock EXCEPT ![Slot(c)] = none]
        /\ \/ /\ Pins(c) /\ entry' = [entry EXCEPT ![Slot(c)] = Pinned(result[c])]
              /\ UNCHANGED <<claimed, result>>
           \/ /\ Pins(c) /\ faults' = faults + 1 /\ result' = [result EXCEPT ![c] = Unstored(c)]
              /\ claimed' \subseteq claimed /\ entry' = entry
           \/ /\ ~Pins(c) /\ claimed' = claimed \ {Slot(c)} /\ UNCHANGED <<entry, result>>
           \/ /\ ~Pins(c) /\ claimed' = claimed /\ faults' = faults + 1 /\ UNCHANGED <<entry, result>>
    BY <1>14 DEF Pin, Goto, Unlock, Fault, RefTypeOK
  <2>2. result'[c] \in {result[c], Unstored(c)} /\ Unstored(c) \in {result[c], "broken"}
    BY <2>1 DEF RefTypeOK, Unstored
  <2>3. \A d \in Resolvers : result'[d] = "closed" => faults' > 0
    BY <1>1, <1>4, <1>7, <2>2 DEF Kept
  <2>4. CASE mode # "snapshot"  BY <1>1, <2>3, <2>4 DEF Kept
  <2>5. CASE mode = "snapshot"
    <3>1. refLock[Slot(c)] = c /\ entry[Slot(c)] = none  BY <2>1, <2>5 DEF Kept, Active
    <3>2. \A s \in Slots : s # Slot(c) => refLock'[s] = refLock[s] /\ entry'[s] = entry[s]
      BY <1>0, <2>1 DEF RefTypeOK
    <3>3. \A d \in Resolvers : d # c /\ pc[d] \in Active => Slot(d) \in Slots /\ Slot(d) # Slot(c)
      BY <2>5, <3>1, CallerFacts DEF Kept
    <3>4. \A d \in Resolvers : pc'[d] \in Active => refLock'[Slot(d)] = d /\ entry'[Slot(d)] = none
      BY <1>1, <2>1, <2>5, <3>2, <3>3 DEF Kept, Active, InFlight
    <3>5. \A d \in Resolvers : d # c /\ Answered(d) => Slot(d) \in Slots /\ entry[Slot(d)] # none
      BY <2>5, CallerFacts, RefAssumption DEF Kept, Answered, Pinned, NotPublic, Errors
    <3>6. \A d \in Resolvers : d # c /\ Answered(d)' => entry'[Slot(d)] = Pinned(result'[d])
      BY <1>1, <1>3, <2>5, <3>1, <3>2, <3>5 DEF Kept
    <3>7. Answered(c)' => entry'[Slot(c)] = Pinned(result'[c])
      <4>1. CASE Pins(c) /\ entry' = [entry EXCEPT ![Slot(c)] = Pinned(result[c])] /\ result' = result
        BY <1>0, <4>1 DEF RefTypeOK
      <4>2. CASE Pins(c) /\ result' = [result EXCEPT ![c] = Unstored(c)]
        <5>1. result'[c] = "broken"  BY <2>5, <4>2 DEF Unstored, RefTypeOK
        <5>. QED  BY <5>1, RefAssumption DEF Answered, NotPublic, Errors
      <4>3. CASE ~Pins(c) /\ result' = result  BY <2>5, <4>3 DEF Pins, Answered
      <4>. QED  BY <2>1, <4>1, <4>2, <4>3
    <3>8. ASSUME NEW s \in claimed', faults' = 0 PROVE entry'[s] # none \/ refLock'[s] # none
      <4>1. CASE s # Slot(c)
        <5>1. s \in claimed /\ s \in Slots  BY <2>1 DEF RefTypeOK
        <5>. QED  BY <1>4, <2>5, <3>2, <3>8, <4>1, <5>1 DEF Kept
      <4>2. CASE s = Slot(c)
        <5>1. Pins(c) /\ entry' = [entry EXCEPT ![Slot(c)] = Pinned(result[c])]
          BY <2>1, <3>8, <4>2 DEF RefTypeOK
        <5>2. entry'[s] = Pinned(result[c])  BY <1>0, <4>2, <5>1 DEF RefTypeOK
        <5>3. Pinned(result[c]) # none  BY <5>1, RefAssumption DEF Pins, Pinned, NotPublic, Errors
        <5>. QED  BY <5>2, <5>3
      <4>. QED  BY <4>1, <4>2
    <3>. QED  BY <1>2, <2>3, <3>4, <3>6, <3>7, <3>8 DEF Kept
  <2>. QED  BY <2>4, <2>5
<1>. QED  BY <1>9, <1>10, <1>11, <1>12, <1>13, <1>14 DEF LockStep

LEMMA LockPreserves ==
  ASSUME RefInv, NEW c \in Resolvers, LockStep(c)
  PROVE  RefInv'
<1>0. entry[Slot(c)] \in Commits \cup {"missing", none} /\ ProcOf[c] \in Procs
  BY CallerFacts DEF RefInv, RefTypeOK
<1>1. /\ RefTypeOK' /\ Turn(c) /\ UNCHANGED <<flight, check, joined, landed, verdict, credential, late>>
  BY LockFrame DEF RefInv
<1>2. /\ pc[c] \in {"idle", "cached", "lock", "pin"} /\ (pc[c] = "idle" => process[ProcOf[c]] = "open")
      /\ pc'[c] \in {"cached", "lock", "fly", "done"}
  BY DEF LockStep, Begin, Cached, LockRef, LockFails, LockInterrupted, Pin, Goto, Ends, RefInv, RefTypeOK
<1>3. process[ProcOf[c]] = "open" /\ pc[c] # "dead"  BY <1>2 DEF RefInv, Opened
<1>4. Opened'  BY <1>1, <1>2, <1>3, OpenedStays DEF RefInv
<1>5. Kept'  BY LockKept DEF RefInv
<1>6. Tables(c)  BY <1>1, <1>2 DEF Tables, CredentialStep, InFlight
<1>7. result'[c] = result[c] \/ Itself(c, result'[c])
  <2>1. \/ result'[c] \in {result[c], entry[Slot(c)], "closed", "broken"}
        \/ result'[c] = "cancelled" /\ c \in cancelled
    BY DEF LockStep, Begin, Cached, LockRef, LockFails, LockInterrupted, Pin, Goto, Ends, Unstored,
           RefInv, RefTypeOK
  <2>. QED  BY <1>0, <1>1, <2>1, RefAssumption DEF Itself, Turn, Errors
<1>8. Flying'  BY <1>1, <1>2, <1>3, <1>6, <1>7, FlyingStays DEF RefInv
<1>. QED  BY <1>1, <1>4, <1>5, <1>8 DEF RefInv

-----------------------------------------------------------------------------
(* Crashes, cancellations, changes upstream and the age of entries.        *)

LEMMA CrashPreserves ==
  ASSUME RefInv, NEW p \in Procs, Crash(p)
  PROVE  RefInv'
<1>1. /\ UNCHANGED <<world, disk, generation, shared, missed, cancelled, late, result>>
      /\ process' = [process EXCEPT ![p] = "over"]
      /\ pc' = [c \in Resolvers |-> IF ProcOf[c] = p /\ pc[c] # "done" THEN "dead" ELSE pc[c]]
      /\ initLock' = (IF initLock = p THEN none ELSE initLock)
      /\ refLock' = [s \in Slots |-> IF refLock[s] # none /\ ProcOf[refLock[s]] = p THEN none ELSE refLock[s]]
      /\ faults' = faults + 1
  BY DEF Crash, Fault
<1>2. faults' > 0 /\ faults' \in Nat  BY <1>1 DEF RefInv, RefTypeOK
<1>3. process'[p] = "over" /\ \A q \in Procs : q # p => process'[q] = process[q]
  BY <1>1 DEF RefInv, RefTypeOK
<1>4. /\ \A c \in Resolvers : ProcOf[c] \in Procs
      /\ \A c \in Resolvers : pc'[c] = pc[c] \/ (pc'[c] = "dead" /\ ProcOf[c] = p)
      /\ \A c \in Resolvers : ProcOf[c] = p => pc'[c] \in {"dead", "done"}
      /\ \A c \in Resolvers : ProcOf[c] # p => pc'[c] = pc[c]
  BY <1>1 DEF Procs
<1>5. RefTypeOK'
  <2>1. pc' \in [Resolvers -> Places]  BY <1>1 DEF RefInv, RefTypeOK, Places
  <2>2. refLock' \in [Slots -> Resolvers \cup {none}]  BY <1>1 DEF RefInv, RefTypeOK
  <2>3. process' \in [Procs -> {"new", "creating", "publishing", "open", "over"}]
    BY <1>1 DEF RefInv, RefTypeOK
  <2>4. initLock' \in Procs \cup {none}  BY <1>1 DEF RefInv, RefTypeOK
  <2>. QED  BY <1>1, <1>2, <2>1, <2>2, <2>3, <2>4 DEF RefInv, RefTypeOK, world, disk, shared, credential
<1>6. Opened'
  <2>1. \A q \in Procs : process'[q] \in {"creating", "publishing"} => initLock' = q
    BY <1>1, <1>3 DEF RefInv, Opened
  <2>2. UNCHANGED <<mode, current, generations, generation, result>>  BY <1>1 DEF world, disk
  <2>3. \A q \in Procs : process'[q] = "publishing" =>
          /\ generation[q] \in generations /\ generation[q] # current
          /\ \A r \in Procs : r # q => generation[r] # generation[q]
    BY <1>3 DEF RefInv, Opened
  <2>4. \A q \in Procs : process'[q] = "open" /\ mode = "snapshot" => generation[q] \in generations
    BY <1>3 DEF RefInv, Opened
  <2>5. /\ \A c \in Resolvers : pc'[c] \notin {"idle", "done", "dead"} => process'[ProcOf[c]] = "open"
        /\ \A c \in Resolvers : pc'[c] = "dead" => process'[ProcOf[c]] = "over"
        /\ \A c \in Resolvers : result[c] # none => process'[ProcOf[c]] \in {"open", "over"}
    BY <1>3, <1>4 DEF RefInv, Opened
  <2>6. current # none => current \in generations  BY DEF RefInv, Opened
  <2>7. ~(faults' = 0)  BY <1>2
  <2>. QED  BY <1>2, <2>1, <2>2, <2>3, <2>4, <2>5, <2>6, <2>7 DEF Opened
<1>7. Kept'
  <2>1. UNCHANGED <<mode, generation, entry, claimed, result>>  BY <1>1 DEF world, disk
  <2>2. \A c \in Resolvers : Slot(c)' = Slot(c)  BY <2>1 DEF Slot
  <2>3. ~(faults' = 0)  BY <1>2
  <2>4. ASSUME NEW c \in Resolvers, mode = "snapshot", pc'[c] \in Active
        PROVE  refLock'[Slot(c)] = c /\ entry[Slot(c)] = none
    <3>1. pc[c] = pc'[c] /\ ProcOf[c] # p  BY <1>4, <2>4 DEF Active, InFlight
    <3>2. refLock[Slot(c)] = c /\ entry[Slot(c)] = none  BY <2>4, <3>1 DEF RefInv, Kept
    <3>3. Slot(c) \in Slots  BY CallerFacts DEF RefInv
    <3>. QED  BY <1>1, <3>1, <3>2, <3>3
  <2>5. ASSUME NEW c \in Resolvers, mode = "snapshot", Answered(c)'
        PROVE  entry[Slot(c)] = Pinned(result[c])
    <3>1. Answered(c)  BY <1>4, <2>1, <2>5 DEF Answered
    <3>. QED  BY <2>5, <3>1 DEF RefInv, Kept
  <2>. QED  BY <1>2, <2>1, <2>2, <2>3, <2>4, <2>5 DEF Kept
<1>8. Flying'
  <2>1. UNCHANGED <<flight, check, joined, landed, verdict, provisioner, provided, cancelled, late, result>>
    BY <1>1 DEF shared, credential
  <2>2. Interruptions'  BY <2>1 DEF RefInv, Flying, Interruptions, TokenLost
  <2>3. ASSUME NEW h \in Procs \X Refs, flight[h] # none
        PROVE  ProcOf[flight[h]] = h[1] /\ (landed[flight[h]] # none \/ pc'[flight[h]] \in InFlight \cup {"dead"})
    <3>1. flight[h] \in Resolvers  BY <2>3 DEF RefInv, RefTypeOK
    <3>. QED  BY <1>4, <2>3, <3>1 DEF RefInv, Flying, TablesServed
  <2>4. ASSUME NEW q \in Procs, check[q] # none
        PROVE  ProcOf[check[q]] = q /\ (verdict[check[q]] # none \/ pc'[check[q]] \in {"checking", "dead"})
    <3>1. check[q] \in Resolvers  BY <2>4 DEF RefInv, RefTypeOK
    <3>. QED  BY <1>4, <2>4, <3>1 DEF RefInv, Flying, TablesServed
  <2>5. \A c \in Resolvers : pc'[c] \in {"waiting", "checkWait"} =>
          pc[c] = pc'[c] /\ joined[c] \in Resolvers /\ ProcOf[joined[c]] = ProcOf[c] /\ ProcOf[c] # p
    BY <1>4 DEF RefInv, Flying, WaitsNear
  <2>9. \A q \in Procs : provisioner[q] # none => provisioner[q] \in Resolvers /\ ProcOf[provisioner[q]] = q
    BY DEF RefInv, RefTypeOK, Flying, Provisioned
  <2>10. Provisioned'
    <3>1. \A q \in Procs : provisioner[q] # none =>
            provided[q] # none \/ pc'[provisioner[q]] \in {"provisioning", "dead"}
      BY <1>4, <2>9 DEF RefInv, Flying, Provisioned
    <3>2. \A c \in Resolvers : pc'[c] = "provisioning" => pc[c] = "provisioning"  BY <1>4
    <3>. QED  BY <2>1, <2>9, <3>1, <3>2 DEF RefInv, Flying, Provisioned
  <2>6. ASSUME NEW c \in Resolvers PROVE Served(c)'
    <3>1. Served(c)  BY DEF RefInv, Flying
    <3>2. pc'[c] \in {"waiting", "checkWait"} => pc'[joined[c]] = pc[joined[c]]  BY <1>4, <2>5
    <3>3. pc'[c] = "provision" /\ provisioner[ProcOf[c]] # none =>
            pc[c] = "provision" /\ pc'[provisioner[ProcOf[c]]] = pc[provisioner[ProcOf[c]]]
      BY <1>4, <2>9
    <3>. QED  BY <2>1, <2>5, <3>1, <3>2, <3>3 DEF Served
  <2>7. TablesServed'  BY <2>1, <2>3, <2>4 DEF TablesServed
  <2>8. WaitsNear'  BY <2>1, <2>5 DEF WaitsNear
  <2>. QED  BY <2>2, <2>6, <2>7, <2>8, <2>10 DEF Flying
<1>. QED  BY <1>5, <1>6, <1>7, <1>8 DEF RefInv

LEMMA AroundPreserves ==
  ASSUME RefInv,
         \/ \E c \in Resolvers : Cancel(c)
         \/ \E r \in Refs : Expire(r) \/ \E to \in Commits \cup {absent} : Move(r, to)
         \/ UNCHANGED refVars
  PROVE  RefInv'
<1>1. ASSUME NEW c \in Resolvers, Cancel(c) PROVE RefInv'
  <2>1. /\ UNCHANGED <<world, disk, locks, procs, pc, shared, missed, late, result, faults>>
        /\ cancelled' = cancelled \cup {c}
    BY <1>1 DEF Cancel
  <2>2. RefTypeOK'  BY <2>1 DEF RefInv, RefTypeOK, world, disk, locks, procs, shared, credential
  <2>3. Opened'  BY <2>1 DEF RefInv, Opened, world, disk, locks, procs
  <2>4. Kept'  BY <2>1 DEF RefInv, Kept, Answered, Slot, world, disk, locks, procs
  <2>5. Flying'
    BY <2>1 DEF RefInv, Flying, Interruptions, TokenLost, TablesServed, Provisioned, WaitsNear, Served, shared, credential
  <2>. QED  BY <2>2, <2>3, <2>4, <2>5 DEF RefInv
<1>2. ASSUME NEW r \in Refs, Expire(r) PROVE RefInv'
  <2>1. /\ mode = "cache" /\ entry' = [entry EXCEPT ![<<0, r>>] = none]
        /\ UNCHANGED <<world, current, generations, claimed, locks, procs, calls, faults>>
    BY <1>2 DEF Expire
  <2>2. RefTypeOK'  BY <2>1 DEF RefInv, RefTypeOK, world, locks, procs, calls, shared, credential
  <2>3. Opened'  BY <2>1 DEF RefInv, Opened, world, locks, procs, calls
  <2>4. mode' # "snapshot"  BY <2>1 DEF world
  <2>5. Kept'  BY <2>1, <2>4 DEF RefInv, Kept, calls
  <2>6. Flying'
    BY <2>1 DEF RefInv, Flying, Interruptions, TokenLost, TablesServed, Provisioned, WaitsNear, Served, calls, shared, credential
  <2>. QED  BY <2>2, <2>3, <2>5, <2>6 DEF RefInv
<1>3. ASSUME NEW r \in Refs, NEW to \in Commits \cup {absent}, Move(r, to) PROVE RefInv'
  <2>1. /\ moves' = moves + 1 /\ upstream' = [upstream EXCEPT ![r] = to]
        /\ UNCHANGED <<mode, disk, locks, procs, calls, faults>>
    BY <1>3 DEF Move
  <2>2. RefTypeOK'  BY <2>1 DEF RefInv, RefTypeOK, disk, locks, procs, calls, shared, credential
  <2>3. Opened'  BY <2>1 DEF RefInv, Opened, disk, locks, procs, calls
  <2>4. Kept'  BY <2>1 DEF RefInv, Kept, Answered, Slot, disk, locks, procs, calls
  <2>5. Flying'
    BY <2>1 DEF RefInv, Flying, Interruptions, TokenLost, TablesServed, Provisioned, WaitsNear, Served, calls, shared, credential
  <2>. QED  BY <2>2, <2>3, <2>4, <2>5 DEF RefInv
<1>4. CASE UNCHANGED refVars
  <2>1. UNCHANGED <<world, disk, locks, procs, calls, faults>>  BY <1>4 DEF refVars
  <2>2. RefTypeOK'  BY <2>1 DEF RefInv, RefTypeOK, world, disk, locks, procs, calls, shared, credential
  <2>3. Opened'  BY <2>1 DEF RefInv, Opened, world, disk, locks, procs, calls
  <2>4. Kept'  BY <2>1 DEF RefInv, Kept, Answered, Slot, world, disk, locks, procs, calls
  <2>5. Flying'
    BY <2>1 DEF RefInv, Flying, Interruptions, TokenLost, TablesServed, Provisioned, WaitsNear, Served, calls, shared, credential
  <2>. QED  BY <2>2, <2>3, <2>4, <2>5 DEF RefInv
<1>. QED  BY <1>1, <1>2, <1>3, <1>4

LEMMA RefNextPreserves == RefInv /\ [RefNext]_refVars => RefInv'
<1> SUFFICES ASSUME RefInv, [RefNext]_refVars PROVE RefInv'
  OBVIOUS
<1>1. ASSUME NEW p \in Procs, ProcStep(p) PROVE RefInv'
  BY <1>1, ProcFrame, ProcOpened, ProcKept DEF RefInv
<1>. QED
  BY <1>1, CrashPreserves, LockPreserves, FlightPreserves, AroundPreserves
  DEF RefNext, ProcStep, LockStep, FlightStep, Over

\* The invariant above, for any number of processes, callers and refs.
THEOREM ResolutionInvariant == RefSpec => []RefInv
BY RefInitInv, RefNextPreserves, PTL DEF RefSpec

LEMMA InvariantResolves == RefInv => ResolutionSound
<1> SUFFICES ASSUME RefInv PROVE ResolutionSound
  OBVIOUS
<1>1. OneAnswer
  <2> SUFFICES ASSUME NEW c \in Resolvers, NEW d \in Resolvers, mode = "snapshot",
                      Answered(c), Answered(d), Slot(c) = Slot(d)
               PROVE  Pinned(result[c]) = Pinned(result[d])
    BY DEF OneAnswer
  <2>1. entry[Slot(c)] = Pinned(result[c]) /\ entry[Slot(d)] = Pinned(result[d])
    BY DEF RefInv, Kept
  <2>. QED  BY <2>1
<1>2. RefusedOnlyAfterFault  BY DEF RefInv, RefusedOnlyAfterFault, Opened, Kept
<1>3. FlightsSound  BY DEF RefInv, Flying, FlightsSound
<1>. QED  BY <1>1, <1>2, <1>3 DEF ResolutionSound, SnapshotAgrees

\* All processes that use a generation of a snapshot are given one answer per
\* ref, and refused one only after a fault, however often refs move, processes
\* die and writes fail (actionResolutionSnapshot.resolve).  Callers that share
\* flights, checks and the token of a process are never stranded and never given
\* the deadline of another.  Of the cancellations of others they are given one
\* at most: that of the caller whose context ended during the one call of the
\* token provider, which provision keeps.
THEOREM SharedSoundly == RefSpec => []ResolutionSound
BY ResolutionInvariant, InvariantResolves, PTL

-----------------------------------------------------------------------------
(* The pins of a build (PinnedSource).                                     *)

SourcePins == [commit : Revisions, digest : Revisions]
Outcomes == SourcePins \cup {Nothing, Failed, GivenUp}

Fetches == [at : {"ask", "follow", "gate", "fetch", "publish", "over"}, leader : Askers \cup {Nothing},
            pin : SourcePins \cup {Nothing}, live : BOOLEAN, outcome : Outcomes]

\* The values the variables take.
PinTypeOK ==
    /\ asker \in [Askers -> Fetches]
    /\ recorded \in Recorded
    /\ kept \in [References -> SourcePins \cup {Nothing}]
    /\ leading \in [References -> Askers \cup {Nothing}]
    /\ pins \in [RefsAsked -> SourcePins \cup {Nothing}]
    /\ resolving \in [RefsAsked -> Askers \cup {Nothing}]
    /\ heads \in [RefsAsked -> Revisions]
    /\ away \in Nat

\* The tables of the cache name exactly the fetches that are under way.
TablesExact ==
    /\ \A w \in References, c \in Askers : leading[w] = c => Busy(c) /\ Wanted(c) = w
    /\ \A c \in Askers : Busy(c) => leading[Wanted(c)] = c /\ asker[c].leader = c
    /\ \A r \in RefsAsked, c \in Askers : resolving[r] = c =>
         Busy(c) /\ RefOf[c] = r /\ asker[c].pin = Nothing
    /\ \A c \in Askers : Busy(c) /\ asker[c].pin = Nothing => resolving[RefOf[c]] = c

\* A fetch that started with a pin has the pin of its ref, and one that
\* started without is the only one that can give the ref a pin.
PinsStand ==
    /\ \A c \in Askers : Busy(c) => asker[c].pin = pins[RefOf[c]]
    /\ \A c \in Askers : asker[c].at = "publish" /\ IsSource(asker[c].outcome) /\ asker[c].pin # Nothing =>
         asker[c].outcome = asker[c].pin
    /\ \A c \in Askers : Succeeded(c) => asker[c].outcome = pins[RefOf[c]]
    /\ \A c \in Askers : kept[Wanted(c)] # Nothing => kept[Wanted(c)] = pins[RefOf[c]]

\* SourcePins are those that the locks record, when they agree; nothing is fetched
\* when they do not.
RecordsKept ==
    /\ Conflicting => /\ \A c \in Askers : asker[c].at \in {"ask", "over"} /\ ~IsSource(asker[c].outcome)
                      /\ \A w \in References : kept[w] = Nothing
    /\ ~Conflicting => \A x \in recorded : x.ref \in RefsAsked => pins[x.ref] = x.pin

\* Who waits waits for a fetch of the same ref that is under way or over, and
\* who was given up gave up by itself, or led the fetch.
WaitersServed ==
    /\ \A c \in Askers : asker[c].at \in {"follow", "gate"} => asker[c].leader \in Askers
    /\ \A c, d \in Askers : asker[c].at \in {"follow", "gate"} /\ asker[c].leader = d =>
         RefOf[d] = RefOf[c] /\ (Busy(d) \/ Back(d))
    /\ \A c \in Askers : Back(c) /\ asker[c].outcome = GivenUp /\ asker[c].live => asker[c].leader = c

PinInv == PinTypeOK /\ TablesExact /\ PinsStand /\ RecordsKept /\ WaitersServed

LEMMA InitPin == PinInit => PinInv
<1> SUFFICES ASSUME PinInit PROVE PinInv
  OBVIOUS
<1> USE PinAssumption
<1>1. \A x \in recorded : x.pin \in SourcePins
  BY DEF PinInit, SourcePins
<1>2. pins \in [RefsAsked -> SourcePins \cup {Nothing}]
  BY <1>1 DEF PinInit
<1>3. PinTypeOK
  BY <1>2 DEF PinInit, PinTypeOK, Fetches, Outcomes
<1>4. TablesExact /\ WaitersServed
  BY DEF PinInit, TablesExact, WaitersServed, Busy, Back
<1>5. \A c \in Askers : Wanted(c) \in References /\ RefOf[c] \in RefsAsked
  BY DEF References, RefsAsked
<1>6. PinsStand
  BY <1>5 DEF PinInit, PinsStand, Busy, Succeeded, Back
<1>7. RecordsKept
  <2>1. CASE Conflicting
    BY <2>1 DEF PinInit, RecordsKept, IsSource
  <2>2. CASE ~Conflicting
    <3>1. ASSUME NEW x \in recorded, x.ref \in RefsAsked PROVE pins[x.ref] = x.pin
      <4>1. pins[x.ref] = (CHOOSE y \in recorded : y.ref = x.ref).pin
        BY <3>1 DEF PinInit
      <4>2. (CHOOSE y \in recorded : y.ref = x.ref) \in recorded
            /\ (CHOOSE y \in recorded : y.ref = x.ref).ref = x.ref
        BY <3>1
      <4> QED
        BY <4>1, <4>2, <2>2, <3>1 DEF Conflicting
    <3> QED
      BY <2>2, <3>1 DEF RecordsKept
  <2> QED
    BY <2>1, <2>2
<1> QED
  BY <1>3, <1>4, <1>6, <1>7 DEF PinInv

\* What a fetch asks for is in the tables.
LEMMA AskedFor ==
    \A c \in Askers : Wanted(c) \in References /\ RefOf[c] \in RefsAsked
BY DEF References, RefsAsked

LEMMA SameRef ==
    \A c, d \in Askers : Wanted(c) = Wanted(d) => RefOf[c] = RefOf[d]
BY DEF Wanted

\* Changing some of the fields of a fetch.
LEMMA EndTyped ==
    ASSUME asker \in [Askers -> Fetches], NEW c \in Askers,
           NEW at \in {"ask", "follow", "gate", "fetch", "publish", "over"},
           NEW outcome \in Outcomes
    PROVE  [asker EXCEPT ![c].at = at, ![c].outcome = outcome] \in [Askers -> Fetches]
<1>1. [asker[c] EXCEPT !.at = at, !.outcome = outcome] \in Fetches
  BY DEF Fetches
<1>2. [asker EXCEPT ![c].at = at, ![c].outcome = outcome]
        = [asker EXCEPT ![c] = [asker[c] EXCEPT !.at = at, !.outcome = outcome]]
  OBVIOUS
<1> QED
  BY <1>1, <1>2

LEMMA AwaitTyped ==
    ASSUME asker \in [Askers -> Fetches], NEW c \in Askers,
           NEW at \in {"ask", "follow", "gate", "fetch", "publish", "over"},
           NEW leader \in Askers \cup {Nothing}
    PROVE  [asker EXCEPT ![c].at = at, ![c].leader = leader] \in [Askers -> Fetches]
<1>1. [asker[c] EXCEPT !.at = at, !.leader = leader] \in Fetches
  BY DEF Fetches
<1>2. [asker EXCEPT ![c].at = at, ![c].leader = leader]
        = [asker EXCEPT ![c] = [asker[c] EXCEPT !.at = at, !.leader = leader]]
  OBVIOUS
<1> QED
  BY <1>1, <1>2

LEMMA LeadTyped ==
    ASSUME asker \in [Askers -> Fetches], NEW c \in Askers,
           NEW at \in {"ask", "follow", "gate", "fetch", "publish", "over"},
           NEW leader \in Askers \cup {Nothing}, NEW pin \in SourcePins \cup {Nothing}
    PROVE  [asker EXCEPT ![c].at = at, ![c].leader = leader, ![c].pin = pin] \in [Askers -> Fetches]
<1>1. [asker[c] EXCEPT !.at = at, !.leader = leader, !.pin = pin] \in Fetches
  BY DEF Fetches
<1>2. [asker EXCEPT ![c].at = at, ![c].leader = leader, ![c].pin = pin]
        = [asker EXCEPT ![c] = [asker[c] EXCEPT !.at = at, !.leader = leader, !.pin = pin]]
  OBVIOUS
<1> QED
  BY <1>1, <1>2

\* A fetch that waits, asks again or comes to an end moves alone: the tables
\* and who is under way stay as they are.
LEMMA WaiterStep ==
    ASSUME PinInv, PinTypeOK', NEW c \in Askers,
           UNCHANGED <<recorded, kept, leading, pins, resolving>>,
           \A d \in Askers \ {c} : asker'[d] = asker[d],
           asker[c].at \in {"ask", "follow", "gate"}, asker'[c].live = asker[c].live,
           asker'[c].at \in {"ask", "follow", "gate", "over"},
           asker'[c].at \in {"follow", "gate"} =>
             /\ asker'[c].leader \in Askers /\ RefOf[asker'[c].leader] = RefOf[c]
             /\ Busy(asker'[c].leader) \/ Back(asker'[c].leader),
           Back(c)' /\ IsSource(asker'[c].outcome) => asker'[c].outcome = pins[RefOf[c]],
           Conflicting => asker'[c].at \in {"ask", "over"} /\ ~IsSource(asker'[c].outcome),
           Back(c)' /\ asker'[c].outcome = GivenUp /\ asker[c].live => asker'[c].leader = c
    PROVE  PinInv'
<1> USE DEF PinInv
<1>1. \A d \in Askers : Busy(d)' <=> Busy(d)
  BY DEF Busy
<1>2. \A d \in Askers : Busy(d) => asker'[d] = asker[d]
  BY DEF Busy
<1>3. TablesExact'
  BY <1>1, <1>2 DEF TablesExact, Wanted
<1>4. PinsStand'
  <2>1. \A d \in Askers : asker'[d].at = "publish" => asker'[d] = asker[d]
    OBVIOUS
  <2>2. \A d \in Askers : Succeeded(d)' => asker'[d].outcome = pins[RefOf[d]]
    BY DEF PinsStand, Succeeded, Back
  <2> QED
    BY <1>1, <1>2, <2>1, <2>2 DEF PinsStand, Wanted
<1>5. RecordsKept'
  <2>1. Conflicting' <=> Conflicting
    BY DEF Conflicting
  <2>2. Conflicting => \A d \in Askers : asker'[d].at \in {"ask", "over"} /\ ~IsSource(asker'[d].outcome)
    BY DEF RecordsKept
  <2> QED
    BY <2>1, <2>2 DEF RecordsKept
<1>6. WaitersServed'
  <2>1. \A d \in Askers : Back(d) => Back(d)'
    BY DEF Back
  <2>2. ASSUME NEW d \in Askers, asker'[d].at \in {"follow", "gate"}
        PROVE  /\ asker'[d].leader \in Askers /\ RefOf[asker'[d].leader] = RefOf[d]
               /\ Busy(asker'[d].leader) \/ Back(asker'[d].leader)
    BY <2>2 DEF WaitersServed
  <2>3. \A d \in Askers : Back(d)' /\ asker'[d].outcome = GivenUp /\ asker'[d].live => asker'[d].leader = d
    BY DEF WaitersServed, Back
  <2> QED
    BY <1>1, <2>1, <2>2, <2>3 DEF WaitersServed
<1> QED
  BY <1>3, <1>4, <1>5, <1>6

\* A fetch that comes to an end of its own.
LEMMA EndStep ==
    ASSUME PinInv, NEW c \in Askers, asker[c].at \in {"ask", "follow", "gate"}, NEW outcome \in Outcomes,
           EndsWith(c, outcome), UNCHANGED <<recorded, kept, leading, pins, resolving, heads, away>>,
           IsSource(outcome) => outcome = pins[RefOf[c]],
           Conflicting => ~IsSource(outcome),
           outcome = GivenUp => ~asker[c].live
    PROVE  PinInv'
<1>1. /\ \A d \in Askers \ {c} : asker'[d] = asker[d]
      /\ asker'[c].at = "over" /\ asker'[c].outcome = outcome /\ asker'[c].live = asker[c].live
  BY DEF EndsWith, PinInv, PinTypeOK
<1>2. PinTypeOK'
  <2>1. asker' \in [Askers -> Fetches]
    BY EndTyped DEF EndsWith, PinInv, PinTypeOK
  <2> QED
    BY <2>1, SMTT(30) DEF PinInv, PinTypeOK
<1> QED
  BY <1>1, <1>2, WaiterStep

\* A fetch that waits, or asks again.
LEMMA AwaitStep ==
    ASSUME PinInv, NEW c \in Askers, asker[c].at \in {"ask", "follow", "gate"},
           NEW at \in {"ask", "follow", "gate"}, NEW leader \in Askers \cup {Nothing},
           Await(c, at, leader), UNCHANGED <<recorded, kept, leading, pins, resolving, heads, away>>,
           at # "ask" => leader \in Askers /\ RefOf[leader] = RefOf[c] /\ (Busy(leader) \/ Back(leader)),
           Conflicting => at = "ask"
    PROVE  PinInv'
<1>1. /\ \A d \in Askers \ {c} : asker'[d] = asker[d]
      /\ asker'[c].at = at /\ asker'[c].leader = leader
      /\ asker'[c].live = asker[c].live /\ asker'[c].outcome = asker[c].outcome
  BY DEF Await, PinInv, PinTypeOK
<1>2. PinTypeOK'
  <2>1. asker' \in [Askers -> Fetches]
    BY AwaitTyped DEF Await, PinInv, PinTypeOK
  <2> QED
    BY <2>1, SMTT(30) DEF PinInv, PinTypeOK
<1>3. ~Back(c)'
  BY <1>1 DEF Back
<1>4. Conflicting => ~IsSource(asker'[c].outcome)
  BY <1>1 DEF PinInv, RecordsKept
<1> QED
  BY <1>1, <1>2, <1>3, <1>4, WaiterStep

-----------------------------------------------------------------------------
\* A fetch becomes the one of its reference that is under way.
Leads(c) ==
    LET w == Wanted(c)
        r == RefOf[c]
    IN /\ asker[c].at = "ask" /\ ~Conflicting
       /\ kept[w] = Nothing /\ leading[w] = Nothing
       /\ pins[r] # Nothing \/ resolving[r] = Nothing
       /\ asker' = [asker EXCEPT ![c].at = "fetch", ![c].leader = c, ![c].pin = pins[r]]
       /\ leading' = [leading EXCEPT ![w] = c]
       /\ resolving' = IF pins[r] = Nothing THEN [resolving EXCEPT ![r] = c] ELSE resolving
       /\ UNCHANGED <<recorded, kept, pins, heads, away>>

LEMMA LeadStep ==
    ASSUME PinInv, NEW c \in Askers, Leads(c)
    PROVE  PinInv'
<1> USE DEF PinInv
<1> DEFINE w == Wanted(c)
           r == RefOf[c]
<1>0. w \in References /\ r \in RefsAsked
  BY AskedFor
<1>1. /\ \A d \in Askers \ {c} : asker'[d] = asker[d]
      /\ asker'[c].at = "fetch" /\ asker'[c].leader = c /\ asker'[c].pin = pins[r]
      /\ asker'[c].outcome = asker[c].outcome
  BY DEF Leads, PinTypeOK
<1>2. PinTypeOK'
  <2>1. asker' \in [Askers -> Fetches]
    BY <1>0, <1>1, LeadTyped DEF Leads, PinTypeOK
  <2>2. leading' \in [References -> Askers \cup {Nothing}] /\ resolving' \in [RefsAsked -> Askers \cup {Nothing}]
    BY <1>0 DEF Leads, PinTypeOK
  <2> QED
    BY <2>1, <2>2, SMTT(30) DEF Leads, PinTypeOK
<1>3. /\ leading'[w] = c /\ \A v \in References \ {w} : leading'[v] = leading[v]
      /\ \A q \in RefsAsked : resolving'[q] = IF pins[r] = Nothing /\ q = r THEN c ELSE resolving[q]
  BY <1>0 DEF Leads, PinTypeOK
<1>4. /\ Busy(c)' /\ ~Busy(c)
      /\ \A d \in Askers \ {c} : Busy(d)' <=> Busy(d)
  BY <1>1 DEF Busy, Leads
<1>5. leading[w] = Nothing /\ kept[w] = Nothing /\ (pins[r] # Nothing \/ resolving[r] = Nothing) /\ pins' = pins
      /\ kept' = kept /\ recorded' = recorded /\ ~Conflicting /\ asker[c].at = "ask"
  BY DEF Leads
<1>6. TablesExact'
  <2>1. ASSUME NEW v \in References, NEW d \in Askers, leading'[v] = d
        PROVE  Busy(d)' /\ Wanted(d) = v
    BY <2>1, <1>3, <1>4 DEF TablesExact
  <2>2. ASSUME NEW d \in Askers, Busy(d)'
        PROVE  leading'[Wanted(d)] = d /\ asker'[d].leader = d
    <3>1. CASE d = c
      BY <3>1, <1>1, <1>3
    <3>2. CASE d # c
      <4>1. leading[Wanted(d)] = d /\ asker[d].leader = d
        BY <3>2, <2>2, <1>4 DEF TablesExact
      <4>2. Wanted(d) # w
        BY <4>1, <1>5, PinAssumption
      <4> QED
        BY <4>1, <4>2, <3>2, <1>1, <1>3, AskedFor
    <3> QED
      BY <3>1, <3>2
  <2>3. ASSUME NEW q \in RefsAsked, NEW d \in Askers, resolving'[q] = d
        PROVE  Busy(d)' /\ RefOf[d] = q /\ asker'[d].pin = Nothing
    <3>1. CASE pins[r] = Nothing /\ q = r
      BY <3>1, <2>3, <1>1, <1>3, <1>4
    <3>2. CASE ~(pins[r] = Nothing /\ q = r)
      <4>1. resolving[q] = d /\ d # c
        BY <3>2, <2>3, <1>3, <1>4 DEF TablesExact
      <4> QED
        BY <4>1, <1>1, <1>4 DEF TablesExact
    <3> QED
      BY <3>1, <3>2
  <2>4. ASSUME NEW d \in Askers, Busy(d)', asker'[d].pin = Nothing
        PROVE  resolving'[RefOf[d]] = d
    <3>1. CASE d = c
      BY <3>1, <2>4, <1>0, <1>1, <1>3
    <3>2. CASE d # c
      <4>1. resolving[RefOf[d]] = d /\ RefOf[d] \in RefsAsked
        BY <3>2, <2>4, <1>1, <1>4, AskedFor DEF TablesExact
      <4>2. ~(pins[r] = Nothing /\ RefOf[d] = r)
        BY <4>1, <1>5, PinAssumption
      <4> QED
        BY <4>1, <4>2, <1>3
    <3> QED
      BY <3>1, <3>2
  <2> QED
    BY <2>1, <2>2, <2>3, <2>4 DEF TablesExact, Wanted
<1>7. PinsStand'
  BY <1>1, <1>4, <1>5 DEF PinsStand, Succeeded, Back, Wanted
<1>8. RecordsKept'
  BY <1>5 DEF RecordsKept, Conflicting
<1>9. WaitersServed'
  BY <1>1, <1>4, <1>5 DEF WaitersServed, Back
<1> QED
  BY <1>2, <1>6, <1>7, <1>8, <1>9

LEMMA AskStep ==
    ASSUME PinInv, NEW c \in Askers, Ask(c)
    PROVE  PinInv'
<1> DEFINE w == Wanted(c)
           r == RefOf[c]
<1> USE PinAssumption
<1>0. w \in References /\ r \in RefsAsked /\ kept[w] \in SourcePins \cup {Nothing}
      /\ leading[w] \in Askers \cup {Nothing} /\ resolving[r] \in Askers \cup {Nothing}
  BY AskedFor DEF PinInv, PinTypeOK
<1>1. CASE Conflicting
  <2>1. EndsWith(c, Failed) /\ UNCHANGED <<recorded, kept, leading, pins, resolving, heads, away>>
    BY <1>1 DEF Ask
  <2> QED
    BY <2>1, <1>1, EndStep DEF Ask, IsSource, Outcomes
<1>2. CASE ~Conflicting /\ kept[w] # Nothing
  <2>1. kept[w] = pins[r] /\ kept[w] \in SourcePins
    BY <1>0, <1>2 DEF PinInv, PinsStand
  <2>2. UNCHANGED <<recorded, kept, leading, pins, resolving, heads, away>> /\ asker[c].at = "ask"
        /\ (EndsWith(c, kept[w]) \/ (~asker[c].live /\ EndsWith(c, GivenUp)))
    BY <1>2 DEF Ask
  <2>3. kept[w] # GivenUp
    BY <2>1 DEF SourcePins
  <2>4. CASE EndsWith(c, kept[w])
    BY <2>1, <2>2, <2>3, <2>4, <1>2, EndStep DEF Outcomes
  <2>5. CASE ~asker[c].live /\ EndsWith(c, GivenUp)
    BY <2>2, <2>5, EndStep DEF IsSource, Outcomes
  <2> QED
    BY <2>2, <2>4, <2>5
<1>3. CASE ~Conflicting /\ kept[w] = Nothing /\ leading[w] # Nothing
  <2>1. Busy(leading[w]) /\ leading[w] \in Askers /\ RefOf[leading[w]] = r
    BY <1>0, <1>3, SameRef DEF PinInv, TablesExact
  <2>2. Await(c, "follow", leading[w]) /\ UNCHANGED <<recorded, kept, leading, pins, resolving, heads, away>>
        /\ asker[c].at = "ask"
    BY <1>3 DEF Ask
  <2> QED
    BY <2>1, <2>2, <1>3, AwaitStep
<1>4. CASE ~Conflicting /\ kept[w] = Nothing /\ leading[w] = Nothing /\ pins[r] = Nothing /\ resolving[r] # Nothing
  <2>1. Busy(resolving[r]) /\ resolving[r] \in Askers /\ RefOf[resolving[r]] = r
    BY <1>0, <1>4 DEF PinInv, TablesExact
  <2>2. Await(c, "gate", resolving[r]) /\ UNCHANGED <<recorded, kept, leading, pins, resolving, heads, away>>
        /\ asker[c].at = "ask"
    BY <1>4 DEF Ask
  <2> QED
    BY <2>1, <2>2, <1>4, AwaitStep
<1>5. CASE ~Conflicting /\ kept[w] = Nothing /\ leading[w] = Nothing /\ ~(pins[r] = Nothing /\ resolving[r] # Nothing)
  <2>1. Leads(c)
    BY <1>5 DEF Ask, Leads
  <2> QED
    BY <2>1, LeadStep
<1> QED
  BY <1>1, <1>2, <1>3, <1>4, <1>5

LEMMA GiveUpStep ==
    ASSUME PinInv, NEW c \in Askers, GiveUp(c)
    PROVE  PinInv'
<1>1. GivenUp \in Outcomes /\ ~IsSource(GivenUp)
  BY DEF Outcomes, IsSource
<1> QED
  BY <1>1, EndStep DEF GiveUp, Pinning

LEMMA FollowStep ==
    ASSUME PinInv, NEW c \in Askers, Follow(c)
    PROVE  PinInv'
<1> DEFINE d == asker[c].leader
           outcome == asker[d].outcome
<1>1. /\ asker[c].at = "follow" /\ Back(d) /\ ~Conflicting
      /\ UNCHANGED <<recorded, kept, leading, pins, resolving, heads, away>>
  BY DEF Follow, Pinning, PinInv, RecordsKept
<1>2. d \in Askers /\ RefOf[d] = RefOf[c]
  BY <1>1 DEF PinInv, WaitersServed
<1>3. outcome \in Outcomes
  BY <1>2 DEF PinInv, PinTypeOK, Fetches
<1>4. IsSource(outcome) => outcome = pins[RefOf[c]]
  BY <1>1, <1>2 DEF PinInv, PinsStand, Succeeded
<1>5. CASE outcome = GivenUp /\ asker[c].live
  <2>1. Await(c, "ask", Nothing)
    BY <1>5 DEF Follow
  <2> QED
    BY <2>1, <1>1, AwaitStep
<1>6. CASE ~(outcome = GivenUp /\ asker[c].live) /\ EndsWith(c, outcome)
  BY <1>1, <1>3, <1>4, <1>6, EndStep
<1>7. CASE ~asker[c].live /\ EndsWith(c, GivenUp)
  BY <1>1, <1>7, EndStep DEF Outcomes, IsSource
<1> QED
  BY <1>5, <1>6, <1>7 DEF Follow

LEMMA PassGateStep ==
    ASSUME PinInv, NEW c \in Askers, PassGate(c)
    PROVE  PinInv'
<1>1. asker[c].at = "gate" /\ Await(c, "ask", Nothing)
      /\ UNCHANGED <<recorded, kept, leading, pins, resolving, heads, away>>
  BY DEF PassGate, Pinning
<1> QED
  BY <1>1, AwaitStep

\* A fetch finds the commit of its pin, or else what the ref is at.
LEMMA FetchStep ==
    ASSUME PinInv, NEW c \in Askers, Fetch(c)
    PROVE  PinInv'
<1> USE DEF PinInv
<1>0. RefOf[c] \in RefsAsked
  BY AskedFor
<1>1. Commit(c) \in Revisions
  BY <1>0 DEF Commit, PinTypeOK, SourcePins, Fetches
<1>2. PICK found \in {PinSource(Commit(c), d) : d \in Revisions} \cup {Failed, GivenUp} :
        /\ asker' = [asker EXCEPT
              ![c].at = "publish",
              ![c].outcome = IF IsSource(found) /\ asker[c].pin \notin {Nothing, found}
                               THEN Failed ELSE found]
        /\ away' = away + IF \/ found = PinSource(Commit(c), Commit(c))
                             \/ found = GivenUp /\ ~asker[c].live THEN 0 ELSE 1
  BY DEF Fetch
<1> DEFINE outcome == IF IsSource(found) /\ asker[c].pin \notin {Nothing, found} THEN Failed ELSE found
<1>3. outcome \in Outcomes
  BY <1>1, <1>2 DEF PinSource, SourcePins, Outcomes
<1>4. /\ \A d \in Askers \ {c} : asker'[d] = asker[d]
      /\ asker'[c].at = "publish" /\ asker'[c].outcome = outcome /\ asker'[c].pin = asker[c].pin
      /\ asker'[c].leader = asker[c].leader /\ asker'[c].live = asker[c].live
  BY <1>2 DEF PinTypeOK
<1>5. asker[c].at = "fetch" /\ UNCHANGED <<recorded, kept, leading, pins, resolving, heads>>
  BY DEF Fetch, Pinning
<1>6. away' \in Nat
  BY <1>2 DEF PinTypeOK
<1>7. PinTypeOK'
  <2> HIDE DEF outcome
  <2>1. asker' = [asker EXCEPT ![c].at = "publish", ![c].outcome = outcome]
    BY <1>2, SMTT(30) DEF outcome
  <2>2. asker' \in [Askers -> Fetches]
    BY <2>1, <1>3, EndTyped DEF PinTypeOK
  <2> QED
    BY <2>2, <1>5, <1>6 DEF PinTypeOK
<1>8. \A d \in Askers : /\ Busy(d)' <=> Busy(d)
                        /\ Back(d)' <=> Back(d)
                        /\ asker'[d].pin = asker[d].pin /\ asker'[d].leader = asker[d].leader
  BY <1>4, <1>5 DEF Busy, Back
<1>9. TablesExact'
  BY <1>5, <1>8 DEF TablesExact, Wanted
<1>10. PinsStand'
  <2>1. IsSource(outcome) /\ asker[c].pin # Nothing => outcome = asker[c].pin
    BY DEF IsSource
  <2>2. \A d \in Askers : Succeeded(d)' => asker'[d].outcome = pins[RefOf[d]]
    BY <1>4, <1>5 DEF PinsStand, Succeeded, Back
  <2>3. \A d \in Askers : asker'[d].at = "publish" /\ IsSource(asker'[d].outcome) /\ asker'[d].pin # Nothing =>
          asker'[d].outcome = asker'[d].pin
    BY <1>4, <2>1 DEF PinsStand
  <2> QED
    BY <1>5, <1>8, <2>2, <2>3 DEF PinsStand, Wanted
<1>11. RecordsKept'
  BY <1>5 DEF RecordsKept, Conflicting
<1>12. WaitersServed'
  <2>1. \A d \in Askers : asker'[d].at \in {"follow", "gate"} => asker'[d] = asker[d]
    BY <1>4
  <2>2. \A d \in Askers : Back(d)' => asker'[d] = asker[d]
    BY <1>4 DEF Back
  <2> QED
    BY <1>8, <2>1, <2>2 DEF WaitersServed
<1> QED
  BY <1>7, <1>9, <1>10, <1>11, <1>12

\* What a fetch found becomes the pin of a ref without one, and is kept; the
\* tables forget the fetch.
LEMMA KeepStep ==
    ASSUME PinInv, NEW c \in Askers, Keep(c)
    PROVE  PinInv'
<1> USE DEF PinInv
<1> DEFINE w == Wanted(c)
           r == RefOf[c]
           outcome == asker[c].outcome
           good == IsSource(outcome)
           first == asker[c].pin = Nothing
<1>0. w \in References /\ r \in RefsAsked /\ Nothing \notin SourcePins /\ Nothing \notin Askers
  BY AskedFor, PinAssumption DEF SourcePins
<1>1. /\ asker[c].at = "publish" /\ Busy(c) /\ ~Conflicting
      /\ outcome \in Outcomes /\ (good => outcome \in SourcePins)
  BY DEF Keep, Busy, RecordsKept, PinTypeOK, Outcomes, IsSource, Fetches
<1>2. /\ \A d \in Askers \ {c} : asker'[d] = asker[d]
      /\ asker'[c].at = "over" /\ asker'[c].outcome = outcome /\ asker'[c].pin = asker[c].pin
      /\ asker'[c].leader = asker[c].leader /\ asker'[c].live = asker[c].live
  BY DEF Keep, EndsWith, PinTypeOK
<1>3. /\ \A v \in References : leading'[v] = IF v = w THEN Nothing ELSE leading[v]
      /\ \A v \in References : kept'[v] = IF good /\ v = w THEN outcome ELSE kept[v]
      /\ \A q \in RefsAsked : pins'[q] = IF good /\ first /\ q = r THEN outcome ELSE pins[q]
      /\ \A q \in RefsAsked : resolving'[q] = IF first /\ q = r THEN Nothing ELSE resolving[q]
      /\ UNCHANGED <<recorded, heads, away>>
  BY <1>0 DEF Keep, PinTypeOK
<1>4. PinTypeOK'
  <2>1. asker' \in [Askers -> Fetches]
    BY <1>1, EndTyped DEF Keep, EndsWith, PinTypeOK
  <2>2. /\ kept' \in [References -> SourcePins \cup {Nothing}]
        /\ leading' \in [References -> Askers \cup {Nothing}]
        /\ pins' \in [RefsAsked -> SourcePins \cup {Nothing}]
        /\ resolving' \in [RefsAsked -> Askers \cup {Nothing}]
    BY <1>0, <1>1 DEF Keep, PinTypeOK
  <2> QED
    BY <2>1, <2>2, <1>3, SMTT(30) DEF PinTypeOK
<1>5. /\ leading[w] = c /\ asker[c].leader = c /\ asker[c].pin = pins[r]
      /\ (first => resolving[r] = c)
  BY <1>1 DEF TablesExact, PinsStand
<1>6. /\ ~Busy(c)' /\ Back(c)' /\ ~Back(c)
      /\ \A d \in Askers \ {c} : (Busy(d)' <=> Busy(d)) /\ (Back(d)' <=> Back(d))
  BY <1>1, <1>2 DEF Busy, Back
<1>7. good => outcome = pins'[r]
  BY <1>0, <1>1, <1>3, <1>5 DEF PinsStand
<1>8. \A q \in RefsAsked : pins[q] # Nothing => pins'[q] = pins[q]
  BY <1>3, <1>5
<1>9. TablesExact'
  <2>1. ASSUME NEW v \in References, NEW d \in Askers, leading'[v] = d
        PROVE  Busy(d)' /\ Wanted(d) = v
    <3>1. v # w /\ leading[v] = d
      BY <2>1, <1>0, <1>3
    <3>2. Busy(d) /\ Wanted(d) = v
      BY <3>1 DEF TablesExact
    <3> QED
      BY <3>1, <3>2, <1>6
  <2>2. ASSUME NEW d \in Askers, Busy(d)'
        PROVE  leading'[Wanted(d)] = d /\ asker'[d].leader = d
    <3>1. d # c /\ Busy(d)
      BY <2>2, <1>6
    <3>2. leading[Wanted(d)] = d /\ asker[d].leader = d /\ Wanted(d) \in References
      BY <3>1, AskedFor DEF TablesExact
    <3>3. Wanted(d) # w
      BY <3>1, <3>2, <1>5
    <3> QED
      BY <3>1, <3>2, <3>3, <1>2, <1>3
  <2>3. ASSUME NEW q \in RefsAsked, NEW d \in Askers, resolving'[q] = d
        PROVE  Busy(d)' /\ RefOf[d] = q /\ asker'[d].pin = Nothing
    <3>1. resolving[q] = d /\ ~(first /\ q = r)
      BY <2>3, <1>0, <1>3
    <3>2. Busy(d) /\ RefOf[d] = q /\ asker[d].pin = Nothing
      BY <3>1 DEF TablesExact
    <3>3. d # c
      BY <3>1, <3>2
    <3> QED
      BY <3>2, <3>3, <1>2, <1>6
  <2>4. ASSUME NEW d \in Askers, Busy(d)', asker'[d].pin = Nothing
        PROVE  resolving'[RefOf[d]] = d
    <3>1. d # c /\ Busy(d) /\ asker[d].pin = Nothing /\ RefOf[d] \in RefsAsked
      BY <2>4, <1>2, <1>6, AskedFor
    <3>2. resolving[RefOf[d]] = d
      BY <3>1 DEF TablesExact
    <3>3. ~(first /\ RefOf[d] = r)
      BY <3>1, <3>2, <1>5
    <3> QED
      BY <3>1, <3>2, <3>3, <1>3
  <2> QED
    BY <2>1, <2>2, <2>3, <2>4 DEF TablesExact, Wanted
<1>10. PinsStand'
  <2>1. ASSUME NEW d \in Askers, Busy(d)'
        PROVE  asker'[d].pin = pins'[RefOf[d]]
    <3>1. d # c /\ Busy(d) /\ RefOf[d] \in RefsAsked /\ asker'[d] = asker[d]
      BY <2>1, <1>2, <1>6, AskedFor
    <3>2. asker[d].pin = pins[RefOf[d]]
      BY <3>1 DEF PinsStand
    <3>3. ~(first /\ RefOf[d] = r)
      <4>1. asker[d].pin = Nothing => resolving[RefOf[d]] = d
        BY <3>1 DEF TablesExact
      <4> QED
        BY <4>1, <3>1, <3>2, <1>5
    <3> QED
      BY <3>1, <3>2, <3>3, <1>3
  <2>2. \A d \in Askers : asker'[d].at = "publish" /\ IsSource(asker'[d].outcome) /\ asker'[d].pin # Nothing =>
          asker'[d].outcome = asker'[d].pin
    BY <1>2 DEF PinsStand
  <2>3. ASSUME NEW d \in Askers, Succeeded(d)'
        PROVE  asker'[d].outcome = pins'[RefOf[d]]
    <3>1. CASE d = c
      BY <3>1, <2>3, <1>2, <1>7 DEF Succeeded
    <3>2. CASE d # c
      <4>1. Succeeded(d) /\ asker'[d] = asker[d] /\ RefOf[d] \in RefsAsked
        BY <3>2, <2>3, <1>2, AskedFor DEF Succeeded, Back
      <4>2. asker[d].outcome = pins[RefOf[d]] /\ pins[RefOf[d]] # Nothing
        BY <4>1 DEF PinsStand, Succeeded, IsSource
      <4> QED
        BY <4>1, <4>2, <1>8
    <3> QED
      BY <3>1, <3>2
  <2>4. ASSUME NEW d \in Askers, kept'[Wanted(d)] # Nothing
        PROVE  kept'[Wanted(d)] = pins'[RefOf[d]]
    <3>0. Wanted(d) \in References /\ RefOf[d] \in RefsAsked
      BY AskedFor
    <3>1. CASE good /\ Wanted(d) = w
      <4>1. RefOf[d] = r
        BY <3>1, SameRef
      <4> QED
        BY <4>1, <3>0, <3>1, <1>3, <1>7
    <3>2. CASE ~(good /\ Wanted(d) = w)
      <4>1. kept'[Wanted(d)] = kept[Wanted(d)]
        BY <3>0, <3>2, <1>3
      <4>2. kept[Wanted(d)] = pins[RefOf[d]] /\ pins[RefOf[d]] # Nothing
        BY <4>1, <2>4 DEF PinsStand
      <4> QED
        BY <4>1, <4>2, <3>0, <1>8
    <3> QED
      BY <3>1, <3>2
  <2> QED
    BY <2>1, <2>2, <2>3, <2>4 DEF PinsStand, Wanted
<1>11. RecordsKept'
  <2>1. ~Conflicting'
    BY <1>1, <1>3 DEF Conflicting
  <2>2. ASSUME NEW x \in recorded, x.ref \in RefsAsked PROVE pins'[x.ref] = x.pin
    <3>1. pins[x.ref] = x.pin /\ x.pin # Nothing
      BY <2>2, <1>0, <1>1, PinAssumption DEF RecordsKept, PinTypeOK, SourcePins
    <3> QED
      BY <3>1, <2>2, <1>8
  <2> QED
    BY <2>1, <2>2, <1>3 DEF RecordsKept
<1>12. WaitersServed'
  <2>1. \A d \in Askers : asker'[d].at \in {"follow", "gate"} => asker'[d] = asker[d]
    BY <1>2
  <2>3. \A d \in Askers : Busy(d) \/ Back(d) => Busy(d)' \/ Back(d)'
    BY <1>6
  <2>2. \A d \in Askers : Back(d)' /\ asker'[d].outcome = GivenUp /\ asker'[d].live => asker'[d].leader = d
    BY <1>2, <1>5, <1>6 DEF WaitersServed
  <2> QED
    BY <2>1, <2>2, <2>3 DEF WaitersServed
<1> QED
  BY <1>4, <1>9, <1>10, <1>11, <1>12

\* Nothing that the invariant speaks of depends on who has gone, except that
\* one who is gone may have been given up.
LEMMA LeaveStep ==
    ASSUME PinInv, NEW c \in Askers, Leave(c)
    PROVE  PinInv'
<1> USE DEF PinInv
<1>1. /\ \A d \in Askers \ {c} : asker'[d] = asker[d]
      /\ asker'[c].at = asker[c].at /\ asker'[c].outcome = asker[c].outcome /\ asker'[c].pin = asker[c].pin
      /\ asker'[c].leader = asker[c].leader /\ asker'[c].live = FALSE
      /\ ~Back(c) /\ UNCHANGED <<recorded, kept, leading, pins, resolving, heads, away>>
  BY DEF Leave, PinTypeOK, Pinning
<1>2. PinTypeOK'
  BY ZenonT(40) DEF Leave, PinTypeOK, Pinning, Fetches
<1>3. \A d \in Askers : /\ asker'[d].at = asker[d].at /\ asker'[d].outcome = asker[d].outcome
                        /\ asker'[d].pin = asker[d].pin /\ asker'[d].leader = asker[d].leader
  BY <1>1
<1>4. \A d \in Askers : (Busy(d)' <=> Busy(d)) /\ (Back(d)' <=> Back(d)) /\ (Succeeded(d)' <=> Succeeded(d))
  BY <1>3 DEF Busy, Back, Succeeded
<1>5. TablesExact'
  BY <1>1, <1>3, <1>4 DEF TablesExact, Wanted
<1>6. PinsStand'
  BY <1>1, <1>3, <1>4 DEF PinsStand, Wanted
<1>7. RecordsKept'
  BY <1>1, <1>3 DEF RecordsKept, Conflicting
<1>8. WaitersServed'
  BY <1>1, <1>3, <1>4 DEF WaitersServed
<1> QED
  BY <1>2, <1>5, <1>6, <1>7, <1>8

LEMMA RetagStep ==
    ASSUME PinInv, NEW r \in RefsAsked, Retag(r)
    PROVE  PinInv'
<1>1. UNCHANGED <<asker, recorded, kept, leading, pins, resolving>> /\ PinTypeOK'
  BY DEF Retag, Pinning, PinInv, PinTypeOK
<1> QED
  BY <1>1 DEF PinInv, TablesExact, PinsStand, RecordsKept, WaitersServed, Busy, Back, Succeeded, Wanted,
              Conflicting

LEMMA PinStep == PinInv /\ [PinNext]_pinVars => PinInv'
<1> SUFFICES ASSUME PinInv, [PinNext]_pinVars PROVE PinInv'
  OBVIOUS
<1>1. CASE UNCHANGED pinVars
  BY <1>1 DEF pinVars, PinInv, PinTypeOK, TablesExact, PinsStand, RecordsKept, WaitersServed, Busy, Back,
              Succeeded, Wanted, Conflicting
<1>2. ASSUME NEW c \in Askers,
             Ask(c) \/ GiveUp(c) \/ Follow(c) \/ PassGate(c) \/ Fetch(c) \/ Keep(c) \/ Leave(c)
      PROVE  PinInv'
  BY <1>2, AskStep, GiveUpStep, FollowStep, PassGateStep, FetchStep, KeepStep, LeaveStep
<1>3. ASSUME NEW r \in RefsAsked, Retag(r)
      PROVE  PinInv'
  BY <1>3, RetagStep
<1> QED
  BY <1>1, <1>2, <1>3 DEF PinNext

\* Whatever the fetches of a build do and whatever happens to them meanwhile:
\* the tables of the memoized source (internal/compiler/actions.go) are exact,
\* and pins stand.
THEOREM PinInvariant == PinSpec => []PinInv
BY InitPin, PinStep, PTL DEF PinSpec

\* All that is ever fetched of one repository and ref is one commit with one
\* digest, the one the locks record when they do (memoizedActionSource).
THEOREM PinnedOnce == PinSpec => []OnePinPerRef
<1>1. PinInv => OnePinPerRef
  <2> SUFFICES ASSUME PinInv PROVE OnePinPerRef
    OBVIOUS
  <2> USE DEF PinInv
  <2>1. ASSUME NEW c \in Askers, Succeeded(c)
        PROVE  /\ asker[c].outcome = pins[RefOf[c]]
               /\ \A x \in recorded : x.ref = RefOf[c] => x.pin = asker[c].outcome
    <3>1. asker[c].outcome = pins[RefOf[c]] /\ ~Conflicting /\ RefOf[c] \in RefsAsked
      BY <2>1, AskedFor DEF PinsStand, RecordsKept, Succeeded
    <3> QED
      BY <3>1 DEF RecordsKept
  <2>2. ASSUME NEW c \in Askers, NEW d \in Askers, c # d, Busy(c), Busy(d)
        PROVE  Wanted(c) # Wanted(d) /\ (RefOf[c] = RefOf[d] => asker[c].pin # Nothing \/ asker[d].pin # Nothing)
    BY <2>2 DEF TablesExact
  <2> QED
    BY <2>1, <2>2 DEF OnePinPerRef, WaitersServed
<1> QED
  BY <1>1, PinInvariant, PTL

-----------------------------------------------------------------------------
(* The command of the importer.                                            *)

IsSequence(s) == s \in Seq(Range(s))

ImportTypeOK ==
    /\ work \in Uploads /\ DOMAIN stance = DOMAIN work
    /\ IsSequence(prepared) /\ Len(prepared) <= Len(work)
    /\ IsSequence(rendered) /\ Len(rendered) <= Len(work)
    /\ command \in {"read", "prepare", "finish", "send", "done", "stopped"}
    /\ stored \in BOOLEAN /\ applied \in BOOLEAN

\* What the event selects of the repository.
Selected ==
    command # "read" => \A i \in DOMAIN work :
        /\ stance[i] = "open" => work[i].kind = "valid"
        /\ (stance[i] = "ignored") = (work[i].kind = "reusable")
        /\ (stance[i] = "unselected") = (work[i].kind = "unselected")

\* A job that the preparation planned in an admitted workflow has its platform
\* among those it asks for, and from then on a runtime.
PreparedWell ==
    /\ command = "read" => prepared = <<>>
    /\ \A i \in DOMAIN prepared : ~prepared[i].barred =>
          \A j \in prepared[i].planned : work[i].platform[j] \in prepared[i].platforms
    /\ command \notin {"read", "prepare"} =>
          Len(prepared) = Len(work) /\ \A i \in DOMAIN prepared : prepared[i].platforms \subseteq runtimes

\* What the jobs of a workflow have become.
StepsIn(w, r, set) == {j \in JobsOf(w) : r.steps[j] \in set}
Accounted(w, r, available) ==
    /\ DOMAIN r.steps = JobsOf(w)
    /\ r.plans = StepsIn(w, r, {"run"})
    /\ r.stage = w.deferred
    /\ \A j \in StepsIn(w, r, {"run"}) :
         w.needs[j] \subseteq StepsIn(w, r, {"run"}) /\ w.platform[j] \in available \cup {"linux"}
    /\ \A j \in StepsIn(w, r, {"skip"}) :
         \E f \in StepsIn(w, r, {"fail", "soft"}) : j \in WithDependents(w, {f})
    /\ StepsIn(w, r, {"soft"}) \subseteq w.soft

RenderedWell ==
    /\ command \in {"read", "prepare"} => rendered = <<>>
    /\ \A i \in DOMAIN rendered :
         /\ (rendered[i].form = "absent") = (stance[i] = "ignored")
         /\ (rendered[i].form = "skipped") = (stance[i] = "unselected")
         /\ rendered[i].form = "jobs" =>
              /\ stance[i] = "open"
              /\ Accounted(work[i], rendered[i], runtimes)
              /\ prepared[i].barred => StepsIn(work[i], rendered[i], {"run"}) = {}

Uploaded ==
    /\ applied => command \in {"done", "stopped"}
    /\ command = "send" \/ applied =>
         /\ Len(rendered) = Len(work)
         /\ stored \/ \A r \in Range(rendered) : r.form \in {"absent", "skipped"}

\* A command that gave up has uploaded nothing.
GivenUpBefore == command = "stopped" /\ ~applied

ImportInv ==
    ImportTypeOK /\ (GivenUpBefore \/ (Selected /\ PreparedWell /\ RenderedWell /\ Uploaded))

-----------------------------------------------------------------------------
(* Jobs and those that need them.                                          *)

WellFormed(w) ==
    /\ w.deferred \in BOOLEAN
    /\ \A j \in JobsOf(w) : w.needs[j] \subseteq JobsOf(w)
    /\ w.broken \subseteq JobTroubles(w) \cup WholeTroubles

\* The failed jobs fail, and so does what needs a job that fails.
LEMMA DependentsClosed ==
    ASSUME NEW w, NEW failed, failed \subseteq JobsOf(w)
    PROVE  /\ failed \subseteq WithDependents(w, failed)
           /\ WithDependents(w, failed) \subseteq JobsOf(w)
           /\ Follows(w, WithDependents(w, failed)) \subseteq WithDependents(w, failed)
<1>1. failed \subseteq WithDependents(w, failed) /\ WithDependents(w, failed) \subseteq JobsOf(w)
  BY DEF WithDependents
<1>2. ASSUME NEW j \in Follows(w, WithDependents(w, failed)), NEW set \in SUBSET JobsOf(w),
             failed \cup Follows(w, set) \subseteq set
      PROVE  j \in set
  <2>1. WithDependents(w, failed) \subseteq set
    BY <1>2 DEF WithDependents
  <2>2. j \in Follows(w, set)
    BY <2>1 DEF Follows
  <2> QED
    BY <2>2, <1>2
<1>3. Follows(w, WithDependents(w, failed)) \subseteq JobsOf(w)
  BY DEF Follows
<1>4. Follows(w, WithDependents(w, failed)) \subseteq WithDependents(w, failed)
  BY <1>2, <1>3 DEF WithDependents
<1> QED
  BY <1>1, <1>4

\* A job that fails fails because of one of the failed jobs.
LEMMA DependentsOfOne ==
    ASSUME NEW w, NEW failed, failed \subseteq JobsOf(w), NEW j \in WithDependents(w, failed)
    PROVE  \E f \in failed : j \in WithDependents(w, {f})
<1> DEFINE Below(f) == WithDependents(w, {f})
           all == {k \in JobsOf(w) : \E f \in failed : k \in Below(f)}
<1>1. ASSUME NEW f \in failed
      PROVE  f \in Below(f) /\ Follows(w, Below(f)) \subseteq Below(f)
  <2>1. {f} \subseteq JobsOf(w)
    OBVIOUS
  <2> QED
    BY <2>1, DependentsClosed
<1>2. Follows(w, all) \subseteq all
  <2> SUFFICES ASSUME NEW k \in Follows(w, all) PROVE k \in all
    OBVIOUS
  <2>1. k \in JobsOf(w) /\ w.needs[k] \cap all # {}
    BY DEF Follows
  <2>2. PICK l \in all : l \in w.needs[k]
    BY <2>1
  <2>3. PICK f \in failed : l \in Below(f)
    BY <2>2
  <2>4. k \in Follows(w, Below(f))
    <3> HIDE DEF Below
    <3> QED
      BY <2>1, <2>2, <2>3 DEF Follows
  <2> QED
    BY <2>1, <2>4, <1>1
<1>3. failed \subseteq all /\ all \in SUBSET JobsOf(w)
  <2> HIDE DEF Below
  <2> QED
    BY <1>1
<1>4. j \in all
  <2> HIDE DEF all
  <2> QED
    BY <1>2, <1>3 DEF WithDependents
<1> QED
  BY <1>4

LEMMA DependentsOfNone ==
    ASSUME NEW w
    PROVE  WithDependents(w, {}) = {}
<1>1. {} \in SUBSET JobsOf(w) /\ {} \cup Follows(w, {}) \subseteq {}
  BY DEF Follows
<1> QED
  BY <1>1 DEF WithDependents

\* What does not fail needs nothing that fails.
LEMMA OutsideDependents ==
    ASSUME NEW w, NEW failed, failed \subseteq JobsOf(w),
           NEW j \in JobsOf(w), j \notin WithDependents(w, failed)
    PROVE  w.needs[j] \cap WithDependents(w, failed) = {}
<1>1. j \notin Follows(w, WithDependents(w, failed))
  BY DependentsClosed
<1> QED
  BY <1>1 DEF Follows

-----------------------------------------------------------------------------
(* Compilations.                                                           *)

Troubles(w) == JobTroubles(w) \cup WholeTroubles
Bundles(w) == [complete : BOOLEAN, planned : SUBSET JobsOf(w), failed : SUBSET JobsOf(w),
               plans : SUBSET JobsOf(w), steps : SUBSET JobsOf(w),
               error : {"none", "scoped", "unscoped"}, barred : SUBSET JobsOf(w)]

\* The jobs of a bundle are planned with all they need, failed, or blocked by
\* one that failed; those that have a plan, and those that become steps, are
\* all that are planned or none.
Sound(w, b, available) ==
    /\ b \in Bundles(w)
    /\ b.planned \cap b.failed = {}
    /\ \A j \in b.planned : w.needs[j] \subseteq b.planned /\ w.platform[j] \in available \cup {"linux"}
    /\ b.complete => \A j \in JobsOf(w) \ (b.planned \cup b.failed) :
         \E f \in b.failed : j \in WithDependents(w, {f})
    /\ b.plans \in {{}, b.planned} /\ b.steps \in {{}, b.plans}

LEMMA TroubledJobs ==
    ASSUME NEW w, NEW t \in SUBSET Troubles(w), NEW kind \in {"job", "action", "plan", "barred"}
    PROVE  Of(kind, t) \subseteq JobsOf(w)
BY DEF Of, Troubles, JobTroubles, WholeTroubles

LEMMA CompiledSound ==
    ASSUME NEW w, WellFormed(w), NEW t \in SUBSET Troubles(w), NEW available
    PROVE  LET c == Compiled(w, t, available)
           IN  /\ Sound(w, c, available)
               /\ c.error = "none" => c.complete /\ c.planned = JobsOf(w) /\ c.plans = JobsOf(w)
<1> DEFINE all == JobsOf(w)
           everyone == Has("unscoped", t)
           direct == IF everyone THEN JobsOf(w) ELSE Of("job", t)
           acting == JobsOf(w) \ WithDependents(w, direct)
           unresolved == Of("action", t) \cap acting
           halted == Has("deferred", t) /\ w.deferred
           failed == IF halted THEN JobsOf(w) ELSE direct \cup unresolved
           planning == JobsOf(w) \ WithDependents(w, failed)
           unplanned == Unplanned(w, t, available, planning)
           planned == planning \ WithDependents(w, unplanned)
           overdue == Has("late", t)
           lost == [complete |-> FALSE, planned |-> {}, failed |-> {}, plans |-> {}, steps |-> {},
                    error |-> "scoped", barred |-> {}]
           made == [complete |-> TRUE, planned |-> planned, failed |-> failed \cup unplanned,
                    plans |-> IF overdue THEN {} ELSE planned, steps |-> {},
                    error |-> IF everyone \/ overdue \/ halted THEN "unscoped"
                              ELSE IF failed \cup unplanned # {} THEN "scoped" ELSE "none",
                    barred |-> Barred(t, IF overdue THEN {} ELSE planned)]
<1>1. Compiled(w, t, available) = IF Has("graph", t) THEN lost ELSE made
  BY DEF Compiled
<1>2. Of("job", t) \subseteq all /\ Of("action", t) \subseteq all /\ Of("barred", t) \subseteq all
  BY TroubledJobs
<1>3. failed \subseteq all /\ unplanned \subseteq planning /\ planning \subseteq all
  BY <1>2 DEF Unplanned
<1>f. failed \subseteq WithDependents(w, failed) /\ WithDependents(w, failed) \subseteq all
  <2> HIDE DEF failed
  <2> QED
    BY <1>3, DependentsClosed
<1>u. unplanned \subseteq WithDependents(w, unplanned) /\ WithDependents(w, unplanned) \subseteq all
  <2> HIDE DEF unplanned, planning
  <2>1. unplanned \subseteq all
    BY <1>3
  <2> QED
    BY <2>1, DependentsClosed
<1>4. planned \subseteq all
  BY <1>3
<1>5. planned \cap (failed \cup unplanned) = {}
  <2> HIDE DEF failed, unplanned
  <2> QED
    BY <1>f, <1>u
<1>6. ASSUME NEW j \in planned
      PROVE  w.needs[j] \subseteq planned /\ w.platform[j] \in available \cup {"linux"}
  <2>1. w.needs[j] \cap WithDependents(w, failed) = {} /\ w.needs[j] \cap WithDependents(w, unplanned) = {}
    <3> HIDE DEF failed, unplanned
    <3>1. j \in all /\ j \notin WithDependents(w, failed) /\ j \notin WithDependents(w, unplanned)
          /\ unplanned \subseteq all
      BY <1>3
    <3> QED
      BY <3>1, <1>3, OutsideDependents
  <2>2. w.needs[j] \subseteq all
    BY <1>4 DEF WellFormed
  <2>3. j \in planning /\ j \notin unplanned
    BY <1>5
  <2>4. w.platform[j] \in available \cup {"linux"}
    BY <2>3 DEF Unplanned
  <2> QED
    BY <2>1, <2>2, <2>4
<1>7. ASSUME NEW j \in all \ (planned \cup (failed \cup unplanned))
      PROVE  \E f \in failed \cup unplanned : j \in WithDependents(w, {f})
  <2> HIDE DEF failed, unplanned
  <2>1. CASE j \in WithDependents(w, failed)
    BY <2>1, <1>3, DependentsOfOne
  <2>2. CASE j \in WithDependents(w, unplanned)
    <3>1. unplanned \subseteq all
      BY <1>3
    <3> QED
      BY <2>2, <3>1, DependentsOfOne
  <2> QED
    BY <2>1, <2>2
<1>8. Barred(t, IF overdue THEN {} ELSE planned) \subseteq all
  BY <1>2 DEF Barred
<1>9. Sound(w, made, available)
  <2> HIDE DEF all, failed, unplanned, planned, overdue, halted, everyone
  <2>1. made \in Bundles(w)
    <3>1. failed \cup unplanned \subseteq JobsOf(w) /\ planned \subseteq JobsOf(w)
      BY <1>3, <1>4 DEF all
    <3>2. Barred(t, IF overdue THEN {} ELSE planned) \subseteq JobsOf(w)
      BY <1>8 DEF all
    <3> QED
      BY <3>1, <3>2 DEF Bundles
  <2>2. made.planned = planned /\ made.failed = failed \cup unplanned /\ made.complete
        /\ made.plans \in {{}, made.planned} /\ made.steps = {}
    OBVIOUS
  <2>3. \A j \in JobsOf(w) \ (made.planned \cup made.failed) :
          \E f \in made.failed : j \in WithDependents(w, {f})
    BY <2>2, <1>7 DEF all
  <2> HIDE DEF made
  <2> QED
    BY <2>1, <2>2, <2>3, <1>5, <1>6 DEF Sound
<1>10. Sound(w, lost, available)
  BY DEF Sound, Bundles
<1>11. made.error = "none" => made.planned = all /\ made.plans = all /\ made.complete
  <2> SUFFICES ASSUME made.error = "none" PROVE made.planned = all /\ made.plans = all /\ made.complete
    OBVIOUS
  <2>1. failed = {} /\ unplanned = {} /\ ~overdue
    <3> HIDE DEF failed, unplanned, overdue, everyone, halted
    <3> QED
      OBVIOUS
  <2>2. planned = all
    <3> HIDE DEF failed, unplanned
    <3> QED
      BY <2>1, DependentsOfNone
  <2> HIDE DEF planned, overdue
  <2> QED
    BY <2>1, <2>2
<1> HIDE DEF made, lost
<1>12. CASE Has("graph", t)
  <2>1. lost.error = "scoped"
    BY DEF lost
  <2> QED
    BY <2>1, <1>1, <1>12, <1>10
<1>13. CASE ~Has("graph", t)
  BY <1>1, <1>13, <1>9, <1>11
<1> QED
  BY <1>12, <1>13

LEMMA WithdrawnSound ==
    ASSUME NEW w, NEW c \in Bundles(w), NEW available
    PROVE  LET b == Withdrawn(w, c)
           IN  Sound(w, b, available) /\ b.plans = {} /\ b.steps = {} /\ b.failed = JobsOf(w)
<1>1. Withdrawn(w, c) = [complete |-> c.complete, planned |-> {}, failed |-> JobsOf(w), plans |-> {},
                         steps |-> {}, error |-> c.error, barred |-> c.barred]
  <2>1. c = [complete |-> c.complete, planned |-> c.planned, failed |-> c.failed, plans |-> c.plans,
             steps |-> c.steps, error |-> c.error, barred |-> c.barred]
    BY DEF Bundles
  <2> DEFINE one == [c EXCEPT !.plans = {}]
             two == [one EXCEPT !.steps = {}]
             three == [two EXCEPT !.planned = {}]
  <2>2. one = [complete |-> c.complete, planned |-> c.planned, failed |-> c.failed, plans |-> {},
               steps |-> c.steps, error |-> c.error, barred |-> c.barred]
    BY <2>1
  <2>3. Withdrawn(w, c) = [three EXCEPT !.failed = JobsOf(w)]
    BY DEF Withdrawn
  <2> HIDE DEF one
  <2>4. two = [complete |-> c.complete, planned |-> c.planned, failed |-> c.failed, plans |-> {},
               steps |-> {}, error |-> c.error, barred |-> c.barred]
    BY <2>2
  <2> HIDE DEF two
  <2>5. three = [complete |-> c.complete, planned |-> {}, failed |-> c.failed, plans |-> {},
                 steps |-> {}, error |-> c.error, barred |-> c.barred]
    BY <2>4
  <2> HIDE DEF three
  <2> QED
    BY <2>3, <2>5
<1> QED
  BY <1>1 DEF Sound, Bundles

\* What one compilation makes of a workflow: without an error, all its jobs.
HostedSound(w, h, available) ==
    /\ Sound(w, h.bundle, available)
    /\ h.kind = "none" => h.bundle.complete /\ h.bundle.steps = JobsOf(w) /\ h.bundle.planned = JobsOf(w)
                          /\ h.bundle.plans = JobsOf(w)

LEMMA HostedIsSound ==
    ASSUME NEW w, WellFormed(w), NEW t \in SUBSET Troubles(w), NEW available
    PROVE  HostedSound(w, Hosted(w, t, available), available)
<1> DEFINE c == Compiled(w, t, available)
           stepped == [c EXCEPT !.steps = c.plans]
           as(b, kind) == [bundle |-> b, kind |-> kind]
<1>1. Sound(w, c, available) /\ (c.error = "none" => c.complete /\ c.planned = JobsOf(w) /\ c.plans = JobsOf(w))
  BY CompiledSound
<1> HIDE DEF c
<1>2. stepped = [complete |-> c.complete, planned |-> c.planned, failed |-> c.failed, plans |-> c.plans,
                 steps |-> c.plans, error |-> c.error, barred |-> c.barred]
  BY <1>1 DEF Sound, Bundles
<1>3. Sound(w, stepped, available)
  BY <1>1, <1>2 DEF Sound, Bundles
<1>4. stepped.complete = c.complete /\ stepped.planned = c.planned /\ stepped.plans = c.plans
      /\ stepped.steps = c.plans
  BY <1>2
<1>5. Sound(w, Withdrawn(w, c), available)
  BY <1>1, WithdrawnSound DEF Sound
<1>6. c.error \in {"none", "scoped", "unscoped"}
  BY <1>1 DEF Sound, Bundles
<1> HIDE DEF stepped
<1>7. \/ \E kind \in {"evaluation", "admission"}, b \in {c, stepped, Withdrawn(w, c)} :
           HostedAs(c, w, t) = [bundle |-> b, kind |-> kind]
      \/ c.error = "none" /\ HostedAs(c, w, t) = [bundle |-> stepped, kind |-> "none"]
  BY <1>6 DEF HostedAs, stepped
<1> QED
  BY <1>1, <1>3, <1>4, <1>5, <1>7 DEF HostedSound, Hosted, c

-----------------------------------------------------------------------------
(* What becomes of a workflow.                                             *)

\* A compiled workflow is a failing step or its jobs; those of one that the
\* preparation barred do not run.
CompiledWell(w, r, available, barred) ==
    /\ r.form \in {"jobs", "whole"}
    /\ r.form = "jobs" => Accounted(w, r, available) /\ (barred => StepsIn(w, r, {"run"}) = {})

LEMMA WholeWell ==
    ASSUME NEW w, NEW available, NEW barred
    PROVE  CompiledWell(w, Whole, available, barred)
BY DEF CompiledWell, Whole, Absent

LEMMA ExpandedWell ==
    ASSUME NEW w, NEW available, NEW b, Sound(w, b, available), b.complete \/ b.failed = JobsOf(w),
           w.deferred = FALSE, NEW keep \in BOOLEAN
    PROVE  LET r == Expanded(w, b, keep)
           IN  r.form = "jobs" /\ Accounted(w, r, available) /\ StepsIn(w, r, {"run"}) \subseteq b.steps
<1> DEFINE r == Expanded(w, b, keep)
           runs == IF keep THEN b.steps ELSE {}
           step(j) == IF j \in b.planned \cap runs THEN "run"
                      ELSE IF j \notin b.planned \cup b.failed THEN "skip"
                      ELSE IF j \in w.soft THEN "soft" ELSE "fail"
<1>1. r = [form |-> "jobs", steps |-> [j \in JobsOf(w) |-> step(j)], stage |-> FALSE,
           plans |-> b.plans \cap runs]
  BY DEF Expanded, Jobs
<1>2. r.form = "jobs" /\ r.stage = FALSE /\ r.plans = b.plans \cap runs /\ DOMAIN r.steps = JobsOf(w)
      /\ \A j \in JobsOf(w) : r.steps[j] = step(j)
  <2> HIDE DEF r, step, runs
  <2> QED
    BY <1>1
<1>3. b.planned \subseteq JobsOf(w) /\ b.failed \subseteq JobsOf(w)
  BY DEF Sound, Bundles
<1>4. runs \in {{}, b.plans} /\ runs \subseteq b.steps /\ b.plans \in {{}, b.planned}
  BY DEF Sound
<1>5. runs \subseteq b.planned /\ (runs = {} \/ runs = b.planned)
  BY <1>4
<1> HIDE DEF r, runs
<1>6. StepsIn(w, r, {"run"}) = runs
  <2>1. \A j \in JobsOf(w) : (r.steps[j] = "run") = (j \in b.planned \cap runs)
    BY <1>2
  <2> QED
    BY <2>1, <1>3, <1>5 DEF StepsIn
<1>7. r.plans = StepsIn(w, r, {"run"})
  BY <1>2, <1>4, <1>6
<1>8. ASSUME NEW j \in StepsIn(w, r, {"run"})
      PROVE  w.needs[j] \subseteq StepsIn(w, r, {"run"}) /\ w.platform[j] \in available \cup {"linux"}
  BY <1>5, <1>6 DEF Sound
<1>9. ASSUME NEW j \in StepsIn(w, r, {"skip"})
      PROVE  \E f \in StepsIn(w, r, {"fail", "soft"}) : j \in WithDependents(w, {f})
  <2>1. j \in JobsOf(w) /\ j \notin b.planned \cup b.failed
    BY <1>2 DEF StepsIn
  <2>2. PICK f \in b.failed : j \in WithDependents(w, {f})
    BY <2>1 DEF Sound
  <2>3. f \in JobsOf(w) /\ f \notin b.planned
    BY <1>3 DEF Sound
  <2>4. r.steps[f] \in {"fail", "soft"}
    BY <2>3, <1>2
  <2> QED
    BY <2>2, <2>3, <2>4 DEF StepsIn
<1>10. StepsIn(w, r, {"soft"}) \subseteq w.soft
  BY <1>2 DEF StepsIn
<1>11. Accounted(w, r, available)
  BY <1>2, <1>7, <1>8, <1>9, <1>10 DEF Accounted
<1>12. StepsIn(w, r, {"run"}) \subseteq b.steps
  BY <1>4, <1>6
<1> QED
  BY <1>2, <1>11, <1>12 DEF r

LEMMA AllRunWell ==
    ASSUME NEW w, WellFormed(w), NEW available, NEW b, Sound(w, b, available),
           b.steps = JobsOf(w), b.planned = JobsOf(w), b.plans = JobsOf(w)
    PROVE  LET r == Jobs([j \in JobsOf(w) |-> "run"], w.deferred, b.plans)
           IN  r.form = "jobs" /\ Accounted(w, r, available)
<1> DEFINE r == Jobs([j \in JobsOf(w) |-> "run"], w.deferred, b.plans)
<1>1. r.form = "jobs" /\ r.stage = w.deferred /\ r.plans = JobsOf(w) /\ DOMAIN r.steps = JobsOf(w)
      /\ \A j \in JobsOf(w) : r.steps[j] = "run"
  BY DEF Jobs
<1> HIDE DEF r
<1>2. StepsIn(w, r, {"run"}) = JobsOf(w) /\ StepsIn(w, r, {"skip"}) = {} /\ StepsIn(w, r, {"soft"}) = {}
  BY <1>1 DEF StepsIn
<1>3. \A j \in JobsOf(w) : w.needs[j] \subseteq JobsOf(w) /\ w.platform[j] \in available \cup {"linux"}
  BY DEF Sound
<1>4. Accounted(w, r, available)
  BY <1>1, <1>2, <1>3 DEF Accounted
<1> QED
  BY <1>1, <1>4 DEF r

\* A workflow that the preparation barred has no job to run.
Withheld(h, barred) == barred => h.kind # "none" /\ h.bundle.plans = {} /\ h.bundle.steps = {}

LEMMA RenderedAsWell ==
    ASSUME NEW w, WellFormed(w), NEW available, NEW h, HostedSound(w, h, available),
           NEW barred, Withheld(h, barred)
    PROVE  CompiledWell(w, RenderedAs(w, h), available, barred)
<1>1. CASE h.kind = "none"
  <2>1. RenderedAs(w, h) = Jobs([j \in JobsOf(w) |-> "run"], w.deferred, h.bundle.plans)
    BY <1>1 DEF RenderedAs
  <2>2. ~barred
    BY <1>1 DEF Withheld
  <2>3. Sound(w, h.bundle, available) /\ h.bundle.steps = JobsOf(w) /\ h.bundle.planned = JobsOf(w)
        /\ h.bundle.plans = JobsOf(w)
    BY <1>1 DEF HostedSound
  <2>4. RenderedAs(w, h).form = "jobs" /\ Accounted(w, RenderedAs(w, h), available)
    BY <2>1, <2>3, AllRunWell
  <2> QED
    BY <2>2, <2>4 DEF CompiledWell
<1>2. CASE h.kind # "none" /\ h.bundle.complete /\ PreservesGraph(w)
  <2>1. RenderedAs(w, h) = Expanded(w, h.bundle, TRUE)
    BY <1>2 DEF RenderedAs
  <2>2. w.deferred = FALSE
    BY <1>2 DEF PreservesGraph, WellFormed
  <2>3. Sound(w, h.bundle, available)
    BY DEF HostedSound
  <2>4. /\ RenderedAs(w, h).form = "jobs" /\ Accounted(w, RenderedAs(w, h), available)
        /\ StepsIn(w, RenderedAs(w, h), {"run"}) \subseteq h.bundle.steps
    BY <1>2, <2>1, <2>2, <2>3, ExpandedWell
  <2> QED
    BY <2>4 DEF CompiledWell, Withheld
<1>3. CASE h.kind # "none" /\ ~(h.bundle.complete /\ PreservesGraph(w))
  <2>1. RenderedAs(w, h) = Whole
    BY <1>3 DEF RenderedAs
  <2> QED
    BY <2>1, WholeWell
<1> QED
  BY <1>1, <1>2, <1>3

LEMMA UnaskedWell ==
    ASSUME NEW w, WellFormed(w), NEW available, NEW first, HostedSound(w, first, available), NEW barred
    PROVE  CompiledWell(w, Unasked(w, first), available, barred)
<1>1. CASE PreservesGraph(w)
  <2> DEFINE b == Withdrawn(w, first.bundle)
  <2>1. first.bundle \in Bundles(w)
    BY DEF HostedSound, Sound
  <2>2. Sound(w, b, available) /\ b.steps = {} /\ b.failed = JobsOf(w)
    BY <2>1, WithdrawnSound
  <2>3. w.deferred = FALSE
    BY <1>1 DEF PreservesGraph, WellFormed
  <2>4. Unasked(w, first) = Expanded(w, b, FALSE)
    BY <1>1 DEF Unasked
  <2> HIDE DEF b
  <2>5. /\ Unasked(w, first).form = "jobs" /\ Accounted(w, Unasked(w, first), available)
        /\ StepsIn(w, Unasked(w, first), {"run"}) \subseteq {}
    BY <2>2, <2>3, <2>4, ExpandedWell
  <2> QED
    BY <2>5 DEF CompiledWell
<1>2. CASE ~PreservesGraph(w)
  BY <1>2, WholeWell DEF Unasked
<1> QED
  BY <1>1, <1>2

LEMMA RecompiledSound ==
    ASSUME NEW w, NEW available, NEW first, HostedSound(w, first, available),
           NEW again, HostedSound(w, again, available)
    PROVE  HostedSound(w, Recompiled(w, first, again), available)
<1> DEFINE b == Withdrawn(w, first.bundle)
<1>1. CASE again.bundle.complete
  BY <1>1 DEF Recompiled
<1>2. CASE ~again.bundle.complete
  <2>1. first.bundle \in Bundles(w)
    BY DEF HostedSound, Sound
  <2>2. Sound(w, b, available)
    BY <2>1, WithdrawnSound
  <2>3. again.kind # "none"
    BY <1>2 DEF HostedSound
  <2> DEFINE k == IF first.kind # "none" THEN first.kind ELSE again.kind
  <2>4. Recompiled(w, first, again) = [bundle |-> b, kind |-> k] /\ k # "none"
    BY <1>2, <2>3 DEF Recompiled
  <2> HIDE DEF b, k
  <2> QED
    BY <2>2, <2>4 DEF HostedSound
<1> QED
  BY <1>1, <1>2

\* What the preparation barred is withdrawn.
LEMMA FailClosedSound ==
    ASSUME NEW i \in DOMAIN work, NEW h, NEW available, HostedSound(work[i], h, available)
    PROVE  /\ HostedSound(work[i], FailClosed(i, h), available)
           /\ Withheld(FailClosed(i, h), prepared[i].barred)
<1> DEFINE b == Withdrawn(work[i], h.bundle)
<1>1. CASE prepared[i].barred
  <2>1. h.bundle \in Bundles(work[i])
    BY DEF HostedSound, Sound
  <2>2. Sound(work[i], b, available) /\ b.plans = {} /\ b.steps = {}
    BY <2>1, WithdrawnSound
  <2>3. FailClosed(i, h) = [bundle |-> b, kind |-> "evaluation"]
    BY <1>1 DEF FailClosed
  <2> HIDE DEF b
  <2> QED
    BY <2>2, <2>3 DEF HostedSound, Withheld
<1>2. CASE ~prepared[i].barred
  BY <1>2 DEF FailClosed, Withheld
<1> QED
  BY <1>1, <1>2

-----------------------------------------------------------------------------
(* Steps of the command.                                                   *)

LEMMA SequenceFacts ==
    ASSUME NEW s, IsSequence(s)
    PROVE  Len(s) \in Nat /\ DOMAIN s = 1 .. Len(s) /\ (Len(s) = 0 => s = <<>>)
BY LenProperties, EmptySeq DEF IsSequence

LEMMA AppendFacts ==
    ASSUME NEW s, IsSequence(s), NEW x
    PROVE  /\ IsSequence(Append(s, x)) /\ Len(Append(s, x)) = Len(s) + 1
           /\ DOMAIN Append(s, x) = DOMAIN s \cup {Len(s) + 1}
           /\ \A i \in DOMAIN s : Append(s, x)[i] = s[i]
           /\ Append(s, x)[Len(s) + 1] = x
<1> DEFINE all == Range(s) \cup {x}
           longer == Append(s, x)
<1>1. s \in Seq(all) /\ x \in all
  BY DEF IsSequence
<1>2. Len(s) \in Nat /\ DOMAIN s = 1 .. Len(s)
  BY SequenceFacts
<1>3. longer \in Seq(all) /\ Len(longer) = Len(s) + 1 /\ longer[Len(s) + 1] = x
      /\ \A i \in 1 .. Len(s) : longer[i] = s[i]
  <2> HIDE DEF all
  <2> QED
    BY <1>1, AppendProperties
<1>4. DOMAIN longer = 1 .. Len(s) + 1
  <2> HIDE DEF all, longer
  <2> QED
    BY <1>3, LenProperties
<1> HIDE DEF longer
<1>5. longer \in Seq(Range(longer))
  <2>1. \A i \in 1 .. Len(longer) : longer[i] \in Range(longer)
    BY <1>3, <1>4 DEF Range
  <2>2. longer = [i \in 1 .. Len(longer) |-> longer[i]]
    <3> HIDE DEF all
    <3> QED
      BY <1>3, LenProperties
  <2> QED
    BY <2>1, <2>2, <1>2, <1>3, IsASeq
<1> QED
  BY <1>2, <1>3, <1>4, <1>5 DEF IsSequence, longer

LEMMA WorkFacts ==
    ASSUME ImportTypeOK
    PROVE  /\ IsSequence(work) /\ DOMAIN work = 1 .. Len(work) /\ Len(work) \in Nat
           /\ \A i \in DOMAIN work : WellFormed(work[i])
<1>1. IsSequence(work) /\ \A w \in Range(work) : WellFormed(w)
  BY UploadsAssumption DEF ImportTypeOK, IsSequence, WellFormed
<1>2. \A i \in DOMAIN work : work[i] \in Range(work)
  BY DEF Range
<1> QED
  BY <1>1, <1>2, SequenceFacts

LEMMA PassingTroubles ==
    ASSUME NEW w, WellFormed(w), NEW t \in Passing(w)
    PROVE  w.broken \cup t \in SUBSET Troubles(w)
BY DEF Passing, WellFormed, Troubles

\* A compiled workflow ends the command or takes its place in the pipeline.
Settled(i) ==
    \/ Stop /\ UNCHANGED rendered
    \/ UNCHANGED command /\ \E r : /\ rendered' = Append(rendered, r)
                                   /\ CompiledWell(work[i], r, runtimes, prepared[i].barred)

LEMMA SettleStep ==
    ASSUME NEW i, WellFormed(work[i]), NEW last, HostedSound(work[i], last, runtimes),
           Withheld(last, prepared[i].barred), Settle(work[i], last)
    PROVE  Settled(i)
<1>1. CompiledWell(work[i], RenderedAs(work[i], last), runtimes, prepared[i].barred)
  BY RenderedAsWell
<1> QED
  BY <1>1 DEF Settle, Settled

LEMMA CompileStep ==
    ASSUME ImportTypeOK, NEW i \in DOMAIN work, Compile(i)
    PROVE  Settled(i)
<1> DEFINE w == work[i]
           barred == prepared[i].barred
<1>w. WellFormed(w)
  BY WorkFacts
<1>1. PICK t \in Passing(w) : Compiling(w, t, FailClosed(i, Hosted(w, w.broken \cup t, runtimes)))
  BY DEF Compile
<1> DEFINE first == FailClosed(i, Hosted(w, w.broken \cup t, runtimes))
<1>2. HostedSound(w, first, runtimes) /\ Withheld(first, barred)
  <2>1. w.broken \cup t \in SUBSET Troubles(w)
    BY <1>w, PassingTroubles
  <2>2. HostedSound(w, Hosted(w, w.broken \cup t, runtimes), runtimes)
    BY <1>w, <2>1, HostedIsSound
  <2> QED
    BY <2>2, FailClosedSound
<1>3. AfterFirst(w, t, first, Asks(w, first))
  BY <1>1 DEF Compiling
<1> HIDE DEF first
<1>4. PICK v : IF Asks(w, first) /\ v = "some"
                 THEN \E u \in IF t = {} THEN Passing(w) ELSE {{}} :
                         Settle(w, Recompiled(w, first, Hosted(w, w.broken \cup u, runtimes)))
                 ELSE IF Asks(w, first) /\ v = "failed"
                        THEN rendered' = Append(rendered, Unasked(w, first)) /\ UNCHANGED command
                        ELSE Settle(w, first)
  BY <1>3 DEF AfterFirst
<1>5. CASE Asks(w, first) /\ v = "some"
  <2>1. PICK u \in Passing(w) : Settle(w, Recompiled(w, first, Hosted(w, w.broken \cup u, runtimes)))
    BY <1>4, <1>5 DEF Passing
  <2> DEFINE last == Recompiled(w, first, Hosted(w, w.broken \cup u, runtimes))
  <2>2. w.broken \cup u \in SUBSET Troubles(w)
    BY <1>w, PassingTroubles
  <2>3. HostedSound(w, Hosted(w, w.broken \cup u, runtimes), runtimes)
    BY <1>w, <2>2, HostedIsSound
  <2>4. HostedSound(w, last, runtimes)
    BY <1>2, <2>3, RecompiledSound
  <2>5. ~barred
    BY <1>2, <1>5 DEF Asks, Withheld
  <2> HIDE DEF last
  <2>6. Settle(w, last) /\ Withheld(last, barred)
    BY <2>1, <2>5 DEF Withheld, last
  <2> QED
    BY <1>w, <2>4, <2>6, SettleStep
<1>6. CASE Asks(w, first) /\ v = "failed"
  BY <1>w, <1>2, <1>4, <1>6, UnaskedWell DEF Settled
<1>7. CASE ~Asks(w, first) \/ v \notin {"some", "failed"}
  <2>1. Settle(w, first)
    BY <1>4, <1>7
  <2> QED
    BY <2>1, <1>w, <1>2, SettleStep
<1> QED
  BY <1>5, <1>6, <1>7

LEMMA ImportInitInv == ImportInit => ImportInv
<1> SUFFICES ASSUME ImportInit PROVE ImportInv
  OBVIOUS
<1>1. work \in Seq(Range(work))
  BY UploadsAssumption DEF ImportInit
<1>2. Len(work) \in Nat /\ <<>> \in Seq(Range(<<>>)) /\ Len(<<>>) = 0 /\ DOMAIN <<>> = {}
  BY <1>1, LenProperties
<1>3. ImportTypeOK
  <2>1. work \in Uploads /\ DOMAIN stance = DOMAIN work /\ prepared = <<>> /\ rendered = <<>>
        /\ command = "read" /\ stored = FALSE /\ applied = FALSE
    BY DEF ImportInit
  <2>2. IsSequence(<<>>)
    BY <1>2 DEF IsSequence
  <2>3. IsSequence(prepared) /\ IsSequence(rendered)
    BY <2>1, <2>2
  <2>4. Len(prepared) <= Len(work) /\ Len(rendered) <= Len(work)
    BY <2>1, <1>2
  <2> QED
    BY <2>1, <2>3, <2>4 DEF ImportTypeOK
<1> QED
  BY <1>2, <1>3 DEF ImportInit, ImportInv, Selected, PreparedWell, RenderedWell, Uploaded

\* A command that gives up before it has uploaded leaves nothing to show.
LEMMA StopStep ==
    ASSUME ImportTypeOK, Stop, ~applied, UNCHANGED <<work, prepared, rendered, stored, applied>>,
           DOMAIN stance' = DOMAIN stance
    PROVE  ImportInv'
BY DEF Stop, ImportInv, ImportTypeOK, GivenUpBefore, IsSequence

LEMMA ReadStep ==
    ASSUME ImportInv, Read
    PROVE  ImportInv'
<1>t. ImportTypeOK /\ Selected /\ PreparedWell /\ RenderedWell /\ Uploaded /\ ~applied
  BY DEF ImportInv, GivenUpBefore, Read, Uploaded
<1>1. CASE Stop /\ UNCHANGED stance
  BY <1>1, <1>t, StopStep DEF Read
<1>2. CASE /\ command' = "prepare"
           /\ stance' = [i \in DOMAIN work |->
                CASE work[i].kind = "reusable" -> "ignored"
                  [] work[i].kind = "unselected" -> "unselected"
                  [] work[i].kind = "valid" /\ ~(work[i].reads /\ variables' = "failed") -> "open"
                  [] OTHER -> "reported"]
  <2>0. UNCHANGED <<work, prepared, rendered, stored, applied, runtimes>> /\ command = "read"
    BY DEF Read
  <2>1. ImportTypeOK'
    BY <2>0, <1>2, <1>t DEF ImportTypeOK, IsSequence
  <2>2. Selected'
    <3>1. DOMAIN stance' = DOMAIN work
      BY <1>2
    <3> SUFFICES ASSUME NEW i \in DOMAIN work
                 PROVE  /\ stance'[i] = "open" => work[i].kind = "valid"
                        /\ (stance'[i] = "ignored") = (work[i].kind = "reusable")
                        /\ (stance'[i] = "unselected") = (work[i].kind = "unselected")
      BY <2>0 DEF Selected
    <3>2. stance'[i] = CASE work[i].kind = "reusable" -> "ignored"
                         [] work[i].kind = "unselected" -> "unselected"
                         [] work[i].kind = "valid" /\ ~(work[i].reads /\ variables' = "failed") -> "open"
                         [] OTHER -> "reported"
      BY <1>2
    <3>3. CASE work[i].kind = "reusable"
      BY <3>2, <3>3
    <3>4. CASE work[i].kind = "unselected"
      BY <3>2, <3>4
    <3>5. CASE work[i].kind \notin {"reusable", "unselected"}
      <4>1. stance'[i] \in {"open", "reported"} /\ (stance'[i] = "open" => work[i].kind = "valid")
        BY <3>2, <3>5
      <4> QED
        BY <4>1, <3>5
    <3> QED
      BY <3>3, <3>4, <3>5
  <2>3. prepared' = <<>> /\ rendered' = <<>> /\ ~applied'
    BY <2>0, <1>t DEF PreparedWell, RenderedWell
  <2>4. DOMAIN prepared' = {} /\ DOMAIN rendered' = {}
    BY <2>3
  <2>5. PreparedWell' /\ RenderedWell' /\ Uploaded'
    BY <2>3, <2>4, <1>2 DEF PreparedWell, RenderedWell, Uploaded
  <2> QED
    BY <2>1, <2>2, <2>5 DEF ImportInv
<1> QED
  BY <1>1, <1>2 DEF Read

LEMMA PrepareStep ==
    ASSUME ImportInv, Prepare
    PROVE  ImportInv'
<1>t. ImportTypeOK /\ Selected /\ PreparedWell /\ RenderedWell /\ Uploaded /\ ~applied
  BY DEF ImportInv, GivenUpBefore, Prepare, Uploaded
<1> DEFINE i == Len(prepared) + 1
           w == work[i]
           available == Provided \cup {p : p \in Range(w.platform)}
<1>0. /\ command = "prepare" /\ i <= Len(work)
      /\ UNCHANGED <<work, stance, runtimes, rendered, command, stored, applied>>
  BY DEF Prepare
<1>1. PICK c : prepared' = Append(prepared,
                 IF stance[i] # "open" THEN NoWork
                 ELSE [platforms |-> (IF c.barred = {} THEN {w.platform[j] : j \in c.planned} ELSE {})
                                     \cup (IF c.complete /\ w.deferred THEN Provided \cup {Own} ELSE {}),
                       barred |-> c.barred # {}, planned |-> c.planned])
  BY DEF Prepare
<1> DEFINE new == IF stance[i] # "open" THEN NoWork
                  ELSE [platforms |-> (IF c.barred = {} THEN {w.platform[j] : j \in c.planned} ELSE {})
                                      \cup (IF c.complete /\ w.deferred THEN Provided \cup {Own} ELSE {}),
                        barred |-> c.barred # {}, planned |-> c.planned]
<1>2. ~new.barred => \A j \in new.planned : w.platform[j] \in new.platforms
  <2>1. CASE stance[i] # "open"
    BY <2>1 DEF NoWork
  <2>2. CASE stance[i] = "open"
    <3>1. /\ new.barred = (c.barred # {}) /\ new.planned = c.planned
          /\ new.platforms = (IF c.barred = {} THEN {w.platform[j] : j \in c.planned} ELSE {})
                             \cup (IF c.complete /\ w.deferred THEN Provided \cup {Own} ELSE {})
      BY <2>2
    <3> HIDE DEF new
    <3> QED
      BY <3>1
  <2> QED
    BY <2>1, <2>2
<1>3. prepared' = Append(prepared, new)
  BY <1>1
<1> HIDE DEF new
<1>4. /\ IsSequence(prepared') /\ Len(prepared') = i /\ DOMAIN prepared' = DOMAIN prepared \cup {i}
      /\ \A k \in DOMAIN prepared : prepared'[k] = prepared[k]
      /\ prepared'[i] = new
  BY <1>3, <1>t, AppendFacts DEF ImportTypeOK
<1>5. ImportTypeOK'
  BY <1>0, <1>4, <1>t DEF ImportTypeOK, IsSequence
<1>6. PreparedWell'
  BY <1>0, <1>2, <1>4, <1>t DEF PreparedWell
<1>7. rendered = <<>> /\ rendered' = <<>>
  BY <1>0, <1>t DEF RenderedWell
<1>8. DOMAIN rendered' = {}
  BY <1>7
<1>9. RenderedWell' /\ Selected' /\ Uploaded'
  BY <1>0, <1>7, <1>8, <1>t DEF RenderedWell, Selected, Uploaded
<1> QED
  BY <1>5, <1>6, <1>9 DEF ImportInv

LEMMA AcquireStep ==
    ASSUME ImportInv, Acquire
    PROVE  ImportInv'
<1>t. ImportTypeOK /\ Selected /\ PreparedWell /\ RenderedWell /\ Uploaded /\ ~applied
  BY DEF ImportInv, GivenUpBefore, Acquire, Uploaded
<1> DEFINE required == UNION {p.platforms : p \in Range(prepared)}
<1>0. /\ command = "prepare" /\ Len(prepared) = Len(work)
      /\ UNCHANGED <<work, stance, prepared, rendered, stored, applied>>
  BY DEF Acquire
<1>1. CASE Stop
  BY <1>0, <1>1, <1>t, StopStep
<1>2. CASE command' = "finish" /\ runtimes' = required
  <2>1. \A i \in DOMAIN prepared : prepared[i].platforms \subseteq required
    BY DEF Range
  <2>2. ImportTypeOK'
    BY <1>0, <1>2, <1>t DEF ImportTypeOK, IsSequence
  <2>3. PreparedWell'
    <3> HIDE DEF required
    <3> QED
      BY <1>0, <1>2, <2>1, <1>t DEF PreparedWell
  <2>4. rendered' = <<>> /\ ~applied'
    BY <1>0, <1>t DEF RenderedWell
  <2>5. DOMAIN rendered' = {}
    BY <2>4
  <2>6. RenderedWell' /\ Selected' /\ Uploaded'
    BY <1>0, <1>2, <2>4, <2>5, <1>t DEF RenderedWell, Selected, Uploaded
  <2> QED
    BY <2>2, <2>3, <2>6 DEF ImportInv
<1> QED
  BY <1>1, <1>2 DEF Acquire

LEMMA RenderStep ==
    ASSUME ImportInv, Render
    PROVE  ImportInv'
<1>t. ImportTypeOK /\ Selected /\ PreparedWell /\ RenderedWell /\ Uploaded /\ ~applied
  BY DEF ImportInv, GivenUpBefore, Render, Uploaded
<1> DEFINE i == Len(rendered) + 1
<1>0. /\ command = "finish" /\ i <= Len(work)
      /\ UNCHANGED <<work, stance, prepared, runtimes, stored, applied>>
  BY DEF Render
<1>i. i \in DOMAIN work /\ i \in DOMAIN stance
  BY <1>0, <1>t, WorkFacts, SequenceFacts DEF ImportTypeOK
<1>1. \/ Stop /\ UNCHANGED rendered
      \/ UNCHANGED command /\ \E r : /\ rendered' = Append(rendered, r)
                                     /\ (r.form = "absent") = (stance[i] = "ignored")
                                     /\ (r.form = "skipped") = (stance[i] = "unselected")
                                     /\ r.form = "jobs" =>
                                          /\ stance[i] = "open"
                                          /\ Accounted(work[i], r, runtimes)
                                          /\ prepared[i].barred => StepsIn(work[i], r, {"run"}) = {}
  <2>1. CASE stance[i] = "open"
    <3>1. Settled(i)
      BY <2>1, <1>t, <1>i, CompileStep DEF Render
    <3> QED
      BY <2>1, <3>1 DEF Settled, CompiledWell
  <2>2. CASE stance[i] # "open"
    <3> DEFINE r == CASE stance[i] = "ignored" -> Absent
                      [] stance[i] = "unselected" -> Skipped
                      [] OTHER -> Whole
    <3>1. rendered' = Append(rendered, r) /\ UNCHANGED command
      BY <2>2 DEF Render
    <3>2. Absent.form = "absent" /\ Skipped.form = "skipped" /\ Whole.form = "whole"
      BY DEF Absent, Skipped, Whole
    <3>3. r.form = IF stance[i] = "ignored" THEN "absent"
                   ELSE IF stance[i] = "unselected" THEN "skipped" ELSE "whole"
      BY <3>2
    <3> HIDE DEF r
    <3> QED
      BY <3>1, <3>3
  <2> QED
    BY <2>1, <2>2
<1>2. CASE Stop /\ UNCHANGED rendered
  BY <1>0, <1>2, <1>t, StopStep
<1>3. ASSUME NEW r, UNCHANGED command, rendered' = Append(rendered, r),
             (r.form = "absent") = (stance[i] = "ignored"),
             (r.form = "skipped") = (stance[i] = "unselected"),
             r.form = "jobs" => /\ stance[i] = "open"
                                /\ Accounted(work[i], r, runtimes)
                                /\ prepared[i].barred => StepsIn(work[i], r, {"run"}) = {}
      PROVE  ImportInv'
  <2>1. /\ IsSequence(rendered') /\ Len(rendered') = i /\ DOMAIN rendered' = DOMAIN rendered \cup {i}
        /\ \A k \in DOMAIN rendered : rendered'[k] = rendered[k]
        /\ rendered'[i] = r
    BY <1>3, <1>t, AppendFacts DEF ImportTypeOK
  <2>2. ImportTypeOK'
    BY <1>0, <1>3, <2>1, <1>t DEF ImportTypeOK, IsSequence
  <2>3. RenderedWell'
    <3> SUFFICES ASSUME NEW k \in DOMAIN rendered'
                 PROVE  /\ (rendered'[k].form = "absent") = (stance[k] = "ignored")
                        /\ (rendered'[k].form = "skipped") = (stance[k] = "unselected")
                        /\ rendered'[k].form = "jobs" =>
                             /\ stance[k] = "open"
                             /\ Accounted(work[k], rendered'[k], runtimes)
                             /\ prepared[k].barred => StepsIn(work[k], rendered'[k], {"run"}) = {}
      BY <1>0, <1>3 DEF RenderedWell
    <3>1. CASE k = i
      BY <3>1, <2>1, <1>3
    <3>2. CASE k \in DOMAIN rendered
      BY <3>2, <2>1, <1>t DEF RenderedWell
    <3> QED
      BY <3>1, <3>2, <2>1
  <2>4. Selected' /\ PreparedWell' /\ Uploaded'
    BY <1>0, <1>3, <1>t DEF Selected, PreparedWell, Uploaded
  <2> QED
    BY <2>2, <2>3, <2>4 DEF ImportInv
<1> QED
  BY <1>1, <1>2, <1>3

LEMMA StoreStep ==
    ASSUME ImportInv, Store
    PROVE  ImportInv'
<1>t. ImportTypeOK /\ Selected /\ PreparedWell /\ RenderedWell /\ Uploaded /\ ~applied
  BY DEF ImportInv, GivenUpBefore, Store, Uploaded
<1>0. /\ command = "finish" /\ Len(rendered) = Len(work)
      /\ UNCHANGED <<work, stance, prepared, runtimes, rendered, applied>>
  BY DEF Store
<1>1. CASE Stop /\ UNCHANGED stored
  BY <1>0, <1>1, <1>t, StopStep
<1>2. CASE command' = "send" /\ stored' \in BOOLEAN
           /\ (stored' \/ \A r \in Range(rendered) : r.form \in {"absent", "skipped"})
  <2>1. ImportTypeOK'
    BY <1>0, <1>2, <1>t DEF ImportTypeOK, IsSequence
  <2>2. Selected' /\ PreparedWell'
    BY <1>0, <1>2, <1>t DEF Selected, PreparedWell
  <2>3. RenderedWell'
    BY <1>0, <1>2, <1>t DEF RenderedWell
  <2>4. Uploaded'
    BY <1>0, <1>2, <1>t DEF Uploaded
  <2> QED
    BY <2>1, <2>2, <2>3, <2>4 DEF ImportInv
<1> QED
  BY <1>t, <1>1, <1>2 DEF Store, ImportTypeOK

LEMMA SendStep ==
    ASSUME ImportInv, Send
    PROVE  ImportInv'
<1>t. ImportTypeOK /\ Selected /\ PreparedWell /\ RenderedWell /\ Uploaded /\ ~applied
  BY DEF ImportInv, GivenUpBefore, Send, Uploaded
<1>0. /\ command = "send" /\ command' \in {"done", "stopped"} /\ applied' \in BOOLEAN
      /\ UNCHANGED <<work, stance, prepared, runtimes, rendered, stored>>
  BY DEF Send, Stop
<1>1. ImportTypeOK'
  BY <1>0, <1>t DEF ImportTypeOK, IsSequence
<1>2. Selected' /\ PreparedWell'
  BY <1>0, <1>t DEF Selected, PreparedWell
<1>3. RenderedWell'
  BY <1>0, <1>t DEF RenderedWell
<1>4. Uploaded'
  BY <1>0, <1>t DEF Uploaded
<1> QED
  BY <1>1, <1>2, <1>3, <1>4 DEF ImportInv

LEMMA ImportStep == ImportInv /\ [ImportNext]_importVars => ImportInv'
<1> SUFFICES ASSUME ImportInv, [ImportNext]_importVars PROVE ImportInv'
  OBVIOUS
<1>1. CASE UNCHANGED importVars
  <2>1. UNCHANGED <<work, stance, prepared, runtimes, rendered, command, stored, applied>>
    BY <1>1 DEF importVars
  <2>2. ImportTypeOK' /\ (GivenUpBefore => GivenUpBefore')
    BY <2>1 DEF ImportInv, ImportTypeOK, IsSequence, GivenUpBefore
  <2>3. ~GivenUpBefore => Selected' /\ PreparedWell' /\ Uploaded'
    BY <2>1 DEF ImportInv, Selected, PreparedWell, Uploaded
  <2>4. ~GivenUpBefore => RenderedWell'
    BY <2>1 DEF ImportInv, RenderedWell
  <2> QED
    BY <2>2, <2>3, <2>4 DEF ImportInv
<1> QED
  BY <1>1, ReadStep, PrepareStep, AcquireStep, RenderStep, StoreStep, SendStep DEF ImportNext

\* Whatever workflows a repository has and however their compilations go: what
\* is kept of each is what the preparation, the runtimes and the pipeline need
\* (internal/cli/upload.go).
THEOREM ImportInvariant == ImportSpec => []ImportInv
BY ImportInitInv, ImportStep, PTL DEF ImportSpec

\* A pipeline that is uploaded accounts for every job of every workflow that
\* the event selects (finishUpload).
THEOREM UploadDropsNothing == ImportSpec => []NothingDropped
<1>1. ImportInv => NothingDropped
  <2> SUFFICES ASSUME ImportInv, applied PROVE NothingDropped
    BY DEF NothingDropped
  <2>1. ImportTypeOK /\ Selected /\ PreparedWell /\ RenderedWell /\ Uploaded
        /\ command \in {"done", "stopped"}
    BY DEF ImportInv, GivenUpBefore, Uploaded
  <2> DEFINE in(i, set) == StepsIn(work[i], rendered[i], set)
             placed(i, j) == \/ work[i].platform[j] \in runtimes
                             \/ work[i].platform[j] = "linux" /\ j \notin prepared[i].planned
  <2>2. ASSUME NEW i \in DOMAIN work
        PROVE  /\ i \in DOMAIN rendered /\ i \in DOMAIN prepared
               /\ (rendered[i].form = "absent") = (work[i].kind = "reusable")
               /\ (rendered[i].form = "skipped") = (work[i].kind = "unselected")
    <3>1. i \in DOMAIN rendered /\ i \in DOMAIN prepared
      BY <2>1, WorkFacts, SequenceFacts DEF ImportTypeOK, PreparedWell, Uploaded
    <3> QED
      BY <2>1, <3>1 DEF RenderedWell, Selected
  <2>3. ASSUME NEW i \in DOMAIN work, rendered[i].form = "jobs"
        PROVE  /\ stored /\ work[i].kind = "valid" /\ Accounted(work[i], rendered[i], runtimes)
               /\ \A j \in in(i, {"run"}) : ~prepared[i].barred /\ placed(i, j)
    <3>1. rendered[i] \in Range(rendered)
      BY <2>2 DEF Range
    <3>2. stored
      BY <3>1, <2>1, <2>3 DEF Uploaded
    <3>3. work[i].kind = "valid" /\ Accounted(work[i], rendered[i], runtimes)
      BY <2>1, <2>2, <2>3 DEF RenderedWell, Selected
    <3>4. ASSUME NEW j \in in(i, {"run"}) PROVE ~prepared[i].barred /\ placed(i, j)
      <4>1. ~prepared[i].barred
        BY <2>1, <2>2, <2>3, <3>4 DEF RenderedWell
      <4>2. work[i].platform[j] \in runtimes \cup {"linux"}
        BY <3>3, <3>4 DEF Accounted
      <4>3. j \in prepared[i].planned => work[i].platform[j] \in runtimes
        BY <4>1, <2>1, <2>2 DEF PreparedWell
      <4>4. placed(i, j)
        BY <4>2, <4>3
      <4> QED
        BY <4>1, <4>4
    <3> QED
      BY <3>2, <3>3, <3>4
  <2> QED
    BY <2>2, <2>3 DEF NothingDropped, Accounted, StepsIn
<1> QED
  BY <1>1, ImportInvariant, PTL

-----------------------------------------------------------------------------
(* Builds of called workflows: first, of numbers and recursive functions.  *)

LEMMA BelowWellFounded == IsWellFoundedOn({ss \in Nat \X Nat : ss[1] < ss[2]}, Nat)
BY ONLY NatLessThanWellFounded DEF OpToRel

LEMMA LeastNatural ==
    ASSUME NEW S \in SUBSET Nat, S # {}
    PROVE  \E m \in S : \A k \in S : m <= k
<1> DEFINE R == {ss \in Nat \X Nat : ss[1] < ss[2]}
<1>1. \A k, m \in Nat : <<k, m>> \in R <=> k < m
  OBVIOUS
<1>2. IsWellFoundedOn(R, Nat)
  BY BelowWellFounded
<1> HIDE DEF R
<1>3. PICK m \in S : \A k \in S : <<k, m>> \notin R
  BY <1>2, WFMin
<1>4. \A k \in S : m <= k
  <2> TAKE k \in S
  <2>1. ~ (k < m)
    BY <1>1, <1>3
  <2> QED
    BY <2>1
<1> QED
  BY <1>4

LEMMA MinOf ==
    ASSUME NEW S \in SUBSET Nat, S # {}
    PROVE  Min(S) \in S /\ \A k \in S : Min(S) <= k
BY LeastNatural DEF Min

LEMMA UpTo ==
    ASSUME NEW P, NEW n \in Nat, 0 \in P, \A i \in 1 .. n : i - 1 \in P => i \in P
    PROVE  \A i \in 0 .. n : i \in P
<1> DEFINE Wrong == {i \in 0 .. n : i \notin P}
<1> SUFFICES ASSUME Wrong # {} PROVE FALSE
  OBVIOUS
<1>0. Wrong \in SUBSET Nat
  OBVIOUS
<1>1. PICK i \in Wrong : \A k \in Wrong : i <= k
  <2> HIDE DEF Wrong
  <2> QED
    BY <1>0, LeastNatural
<1>2. i \in 1 .. n
  BY <1>1
<1>3. i - 1 \notin Wrong
  BY <1>1, <1>2
<1> QED
  BY <1>1, <1>2, <1>3

\* What starts with a and takes n steps, the i-th of them h[i].
Iterates(g, S, a, n, h) ==
    g \in [0 .. n -> S] /\ g[0] = a /\ \A i \in 1 .. n : g[i] = h[i][g[i - 1]]

LEMMA Iterated ==
    ASSUME NEW S, NEW a \in S, NEW n \in Nat, NEW h, \A i \in 1 .. n : h[i] \in [S -> S]
    PROVE  \E g : Iterates(g, S, a, n, h)
<1> DEFINE Good(m, g) ==
             g \in [0 .. m -> S] /\ g[0] = a /\ \A i \in 1 .. m : g[i] = h[i][g[i - 1]]
           P == {m \in 0 .. n : \E g : Good(m, g)}
<1>1. 0 \in P
  <2>1. Good(0, [i \in 0 .. 0 |-> a])
    OBVIOUS
  <2> HIDE DEF Good
  <2> QED
    BY <2>1
<1>2. ASSUME NEW m \in 1 .. n, m - 1 \in P
      PROVE  m \in P
  <2>1. PICK g : Good(m - 1, g)
    BY <1>2
  <2> DEFINE next == [i \in 0 .. m |-> IF i = m THEN h[m][g[m - 1]] ELSE g[i]]
  <2>2. g[m - 1] \in S /\ h[m][g[m - 1]] \in S
    BY <2>1
  <2>3. next[m] = h[m][g[m - 1]] /\ \A i \in 0 .. m - 1 : next[i] = g[i]
    OBVIOUS
  <2>4. next \in [0 .. m -> S] /\ next[0] = a
    BY <2>1, <2>2, <2>3
  <2>5. ASSUME NEW i \in 1 .. m
        PROVE  next[i] = h[i][next[i - 1]]
    <3>1. next[i - 1] = g[i - 1]
      BY <2>3
    <3>2. CASE i = m
      BY <2>3, <3>1, <3>2
    <3>3. CASE i # m
      BY <2>1, <2>3, <3>1, <3>3
    <3> QED
      BY <3>2, <3>3
  <2>6. Good(m, next)
    BY <2>4, <2>5
  <2> HIDE DEF Good
  <2> QED
    BY <2>6
<1>3. n \in P
  <2> HIDE DEF P
  <2> QED
    BY <1>1, <1>2, UpTo
<1> QED
  BY <1>3 DEF Iterates

-----------------------------------------------------------------------------
\* A topological order lists nodes, none twice and each after what it needs.
IsOrder(order, nodes, needs) ==
    /\ order \in Seq(nodes)
    /\ \A i, j \in 1 .. Len(order) : order[i] = order[j] => i = j
    /\ \A i \in 1 .. Len(order) : needs[order[i]] \subseteq {order[j] : j \in 1 .. i - 1}

LEMMA NextInOrder ==
    ASSUME NEW nodes \in SUBSET Nat, NEW needs, NEW order, IsOrder(order, nodes, needs)
    PROVE  IsOrder(WithNext(order, nodes, needs), nodes, needs)
<1> DEFINE ready == Ready(nodes, needs, ToSet(order))
           n == Len(order)
<1>1. order \in Seq(nodes) /\ n \in Nat /\ ToSet(order) = {order[i] : i \in 1 .. n}
  BY DEF IsOrder, ToSet
<1>2. CASE ready = {}
  BY <1>2 DEF WithNext
<1>3. CASE ready # {}
  <2> DEFINE m == Min(ready)
             next == Append(order, m)
  <2>1. ready \in SUBSET Nat
    BY DEF Ready
  <2>2. m \in ready
    <3> HIDE DEF ready
    <3> QED
      BY <1>3, <2>1, MinOf
  <2>3. m \in nodes /\ m \notin ToSet(order) /\ needs[m] \subseteq ToSet(order)
    BY <2>2 DEF Ready
  <2>4. WithNext(order, nodes, needs) = next
    BY <1>3 DEF WithNext
  <2> HIDE DEF ready, m
  <2>5. /\ next \in Seq(nodes) /\ Len(next) = n + 1 /\ next[n + 1] = m
        /\ \A i \in 1 .. n : next[i] = order[i]
    BY <1>1, <2>3
  <2> HIDE DEF next
  <2>6. ASSUME NEW i \in 1 .. n + 1, NEW j \in 1 .. n + 1, next[i] = next[j]
        PROVE  i = j
    BY <1>1, <2>3, <2>5, <2>6 DEF IsOrder
  <2>7. ASSUME NEW i \in 1 .. n + 1
        PROVE  needs[next[i]] \subseteq {next[j] : j \in 1 .. i - 1}
    <3>1. CASE i = n + 1
      <4>1. {order[j] : j \in 1 .. n} \subseteq {next[j] : j \in 1 .. i - 1}
        BY <1>1, <2>5, <3>1
      <4> QED
        BY <1>1, <2>3, <2>5, <3>1, <4>1
    <3>2. CASE i # n + 1
      <4>1. i \in 1 .. n /\ next[i] = order[i]
        BY <1>1, <2>5, <3>2
      <4>2. {order[j] : j \in 1 .. i - 1} \subseteq {next[j] : j \in 1 .. i - 1}
        BY <1>1, <2>5, <4>1
      <4> QED
        BY <4>1, <4>2 DEF IsOrder
    <3> QED
      BY <3>1, <3>2
  <2>8. 1 .. Len(next) = 1 .. n + 1
    BY <2>5
  <2>9. IsOrder(next, nodes, needs)
    BY <2>5, <2>6, <2>7, <2>8 DEF IsOrder
  <2> QED
    BY <2>4, <2>9
<1> QED
  BY <1>2, <1>3

LEMMA OrderIs ==
    ASSUME NEW nodes \in SUBSET Nat, NEW needs, IsFiniteSet(nodes)
    PROVE  IsOrder(TopologicalOrder(nodes, needs), nodes, needs)
<1> DEFINE c == Cardinality(nodes)
           S == {s \in Seq(nodes) : IsOrder(s, nodes, needs)}
           Level(g, n) == IF n = 0 THEN <<>> ELSE WithNext(g[n - 1], nodes, needs)
           Is(g) == g = [n \in 0 .. c |-> Level(g, n)]
           order == CHOOSE g : Is(g)
           h == [i \in 1 .. c |-> [s \in S |-> WithNext(s, nodes, needs)]]
<1>1. TopologicalOrder(nodes, needs) = order[c]
  BY DEF TopologicalOrder
<1>2. c \in Nat
  BY FS_CardinalityType
<1>3. <<>> \in S /\ \A s \in S : WithNext(s, nodes, needs) \in S
  <2>1. IsOrder(<<>>, nodes, needs)
    BY DEF IsOrder
  <2> QED
    BY <2>1, NextInOrder DEF IsOrder
<1>4. PICK g : Iterates(g, S, <<>>, c, h)
  <2>1. \A i \in 1 .. c : h[i] \in [S -> S]
    BY <1>3
  <2> HIDE DEF h, c, S
  <2> QED
    BY <1>2, <1>3, <2>1, Iterated
<1>5. g \in [0 .. c -> S] /\ \A n \in 0 .. c : g[n] = Level(g, n)
  <2>1. g \in [0 .. c -> S] /\ g[0] = <<>> /\ \A i \in 1 .. c : g[i] = h[i][g[i - 1]]
    <3> HIDE DEF h, c, S
    <3> QED
      BY <1>4 DEF Iterates
  <2>2. ASSUME NEW i \in 1 .. c
        PROVE  g[i] = WithNext(g[i - 1], nodes, needs)
    <3>1. h[i] = [s \in S |-> WithNext(s, nodes, needs)]
      OBVIOUS
    <3> HIDE DEF h, c, S
    <3>2. g[i - 1] \in S /\ g[i] = h[i][g[i - 1]]
      BY <1>2, <2>1
    <3> QED
      BY <3>1, <3>2
  <2> HIDE DEF c, S, h
  <2> QED
    BY <1>2, <2>1, <2>2
<1>6. Is(g)
  <2> HIDE DEF Level, c, S, h
  <2> QED
    BY <1>5
<1>7. Is(order)
  <2> HIDE DEF Is
  <2> QED
    BY <1>6
<1> HIDE DEF order, h, c, S
<1>8. \A n \in 0 .. c : order[n] = Level(order, n)
  BY ONLY <1>7
<1> DEFINE P == {n \in 0 .. c : order[n] \in S}
<1>9. 0 \in P /\ \A n \in 1 .. c : n - 1 \in P => n \in P
  BY <1>2, <1>3, <1>8
<1>10. c \in P
  <2> HIDE DEF P
  <2> QED
    BY <1>2, <1>9, UpTo
<1> QED
  BY <1>1, <1>10 DEF S

\* The order of a graph without cycles has every node.
LEMMA OrderIsComplete ==
    ASSUME NEW nodes \in SUBSET Nat, NEW needs, IsFiniteSet(nodes), Acyclic(nodes, needs)
    PROVE  ToSet(TopologicalOrder(nodes, needs)) = nodes
<1> DEFINE order == TopologicalOrder(nodes, needs)
<1>1. IsOrder(order, nodes, needs) /\ Len(order) = Cardinality(nodes)
  BY OrderIs DEF Acyclic
<1> HIDE DEF order
<1>2. order \in [1 .. Len(order) -> nodes] /\ Len(order) \in Nat /\ ToSet(order) = {order[i] : i \in 1 .. Len(order)}
  BY <1>1 DEF IsOrder, ToSet
<1>3. order \in Injection(1 .. Len(order), nodes)
  BY <1>1, <1>2 DEF IsOrder, Injection, IsInjective
<1>4. Cardinality(1 .. Len(order)) = Cardinality(nodes)
  BY <1>1, <1>2, FS_Interval
<1>5. order \in Surjection(1 .. Len(order), nodes)
  BY <1>3, <1>4, FS_Injection
<1> QED
  BY <1>2, <1>5 DEF Surjection, order

-----------------------------------------------------------------------------
\* Gates of called workflows, none twice, each around some job.
Frames(w) == DOMAIN w.gate \ {0}

IsCollection(gates, w, jobs) ==
    /\ gates \in Seq(Frames(w))
    /\ \A i, j \in 1 .. Len(gates) : gates[i] = gates[j] => i = j
    /\ \A i \in 1 .. Len(gates) : \E j \in 1 .. Len(jobs) : gates[i] \in ToSet(InstanceGates(w, jobs[j]))

HasAllGates(gates, w, jobs) ==
    \A j \in 1 .. Len(jobs) : ToSet(InstanceGates(w, jobs[j])) \subseteq ToSet(gates)

LEMMA NextCollected ==
    ASSUME NEW w, IsFlat(w), NEW jobs \in Seq(w.instances), NEW gates, IsCollection(gates, w, jobs)
    PROVE  /\ IsCollection(WithNextGate(gates, w, jobs), w, jobs)
           /\ \/ HasAllGates(gates, w, jobs) /\ WithNextGate(gates, w, jobs) = gates
              \/ Len(WithNextGate(gates, w, jobs)) = Len(gates) + 1
<1> DEFINE n == Len(gates)
           new == [i \in DOMAIN jobs |-> {d \in DOMAIN InstanceGates(w, jobs[i]) :
                                         InstanceGates(w, jobs[i])[d] \notin ToSet(gates)}]
           behind == {i \in DOMAIN jobs : new[i] # {}}
           first == Min(behind)
           f == InstanceGates(w, jobs[first])[Min(new[first])]
<1>1. /\ gates \in Seq(Frames(w)) /\ n \in Nat /\ ToSet(gates) = {gates[i] : i \in 1 .. n}
      /\ DOMAIN jobs = 1 .. Len(jobs) /\ Len(jobs) \in Nat
  BY DEF IsCollection, ToSet
<1>2. ASSUME NEW i \in DOMAIN jobs
      PROVE  /\ InstanceGates(w, jobs[i]) \in Seq(Frames(w))
             /\ DOMAIN InstanceGates(w, jobs[i]) = 1 .. Len(InstanceGates(w, jobs[i]))
             /\ Len(InstanceGates(w, jobs[i])) \in Nat
  <2>1. jobs[i] \in w.instances
    OBVIOUS
  <2>2. InstanceGates(w, jobs[i]) \in Seq(Frames(w))
    BY <2>1 DEF IsFlat, InstanceGates, Frames
  <2> QED
    BY <2>2
<1>3. WithNextGate(gates, w, jobs) =
        IF \A i \in DOMAIN jobs : new[i] = {} THEN gates ELSE Append(gates, f)
  BY DEF WithNextGate
<1>4. CASE \A i \in DOMAIN jobs : new[i] = {}
  <2>1. HasAllGates(gates, w, jobs)
    BY <1>1, <1>4 DEF HasAllGates, ToSet
  <2> QED
    BY <1>3, <1>4, <2>1
<1>5. CASE ~ \A i \in DOMAIN jobs : new[i] = {}
  <2> DEFINE next == Append(gates, f)
  <2>1. behind # {} /\ behind \in SUBSET Nat
    BY <1>1, <1>5
  <2>2. first \in DOMAIN jobs /\ new[first] # {}
    <3>1. first \in behind
      <4> HIDE DEF behind
      <4> QED
        BY <2>1, MinOf
    <3> HIDE DEF new, first
    <3> QED
      BY <3>1
  <2> HIDE DEF first
  <2>3. new[first] \in SUBSET Nat
    BY <1>2, <2>2
  <2>4. Min(new[first]) \in new[first]
    <3> HIDE DEF new
    <3> QED
      BY <2>2, <2>3, MinOf
  <2>5. f \in Frames(w) /\ f \notin ToSet(gates) /\ f \in ToSet(InstanceGates(w, jobs[first]))
    <3>1. /\ Min(new[first]) \in DOMAIN InstanceGates(w, jobs[first])
          /\ f \notin ToSet(gates)
      BY <2>2, <2>4
    <3> HIDE DEF new
    <3> QED
      BY <1>2, <2>2, <3>1 DEF ToSet
  <2> HIDE DEF f, new
  <2>6. /\ next \in Seq(Frames(w)) /\ Len(next) = n + 1 /\ next[n + 1] = f
        /\ \A i \in 1 .. n : next[i] = gates[i]
    BY <1>1, <2>5
  <2> HIDE DEF next, n
  <2>7. ASSUME NEW i \in 1 .. n + 1, NEW j \in 1 .. n + 1, next[i] = next[j]
        PROVE  i = j
    <3>1. n \in Nat /\ \A k \in 1 .. n : gates[k] # f
      BY <1>1, <2>5 DEF IsCollection, ToSet, n
    <3>2. \A k, l \in 1 .. n : gates[k] = gates[l] => k = l
      BY <1>1 DEF IsCollection, n
    <3>3. CASE i = n + 1
      BY <2>6, <2>7, <3>1, <3>3
    <3>4. CASE j = n + 1
      BY <2>6, <2>7, <3>1, <3>4
    <3>5. CASE i \in 1 .. n /\ j \in 1 .. n
      BY <2>6, <2>7, <3>2, <3>5
    <3> QED
      BY <3>1, <3>3, <3>4, <3>5
  <2>8. ASSUME NEW i \in 1 .. n + 1
        PROVE  \E j \in 1 .. Len(jobs) : next[i] \in ToSet(InstanceGates(w, jobs[j]))
    <3>1. CASE i = n + 1
      BY <1>1, <2>2, <2>5, <2>6, <3>1
    <3>2. CASE i # n + 1
      <4>1. i \in 1 .. n /\ next[i] = gates[i]
        BY <1>1, <2>6, <3>2
      <4> QED
        BY <4>1 DEF IsCollection, n
    <3> QED
      BY <3>1, <3>2
  <2>9. 1 .. Len(next) = 1 .. n + 1
    BY <2>6
  <2>10. IsCollection(next, w, jobs)
    BY <2>6, <2>7, <2>8, <2>9 DEF IsCollection
  <2>11. WithNextGate(gates, w, jobs) = next /\ Len(next) = Len(gates) + 1
    BY <1>3, <1>5, <2>6 DEF next, n
  <2> QED
    BY <2>10, <2>11
<1> QED
  BY <1>4, <1>5

LEMMA GatesAre ==
    ASSUME NEW w, IsFlat(w), NEW jobs \in Seq(w.instances)
    PROVE  IsCollection(GatesOf(w, jobs), w, jobs) /\ HasAllGates(GatesOf(w, jobs), w, jobs)
<1> DEFINE c == Cardinality(DOMAIN w.gate)
           S == {s \in Seq(Frames(w)) : IsCollection(s, w, jobs)}
           Level(g, n) == IF n = 0 THEN <<>> ELSE WithNextGate(g[n - 1], w, jobs)
           Is(g) == g = [n \in 0 .. c |-> Level(g, n)]
           gates == CHOOSE g : Is(g)
           h == [i \in 1 .. c |-> [s \in S |-> WithNextGate(s, w, jobs)]]
<1>1. GatesOf(w, jobs) = gates[c]
  BY DEF GatesOf
<1>2. c \in Nat
  BY FS_CardinalityType DEF IsFlat
<1>3. <<>> \in S /\ \A s \in S : WithNextGate(s, w, jobs) \in S
  <2>1. IsCollection(<<>>, w, jobs)
    BY DEF IsCollection
  <2> QED
    BY <2>1, NextCollected DEF IsCollection
<1>4. PICK g : Iterates(g, S, <<>>, c, h)
  <2>1. \A i \in 1 .. c : h[i] \in [S -> S]
    BY <1>3
  <2> HIDE DEF h, c, S
  <2> QED
    BY <1>2, <1>3, <2>1, Iterated
<1>5. g \in [0 .. c -> S] /\ \A n \in 0 .. c : g[n] = Level(g, n)
  <2>1. g \in [0 .. c -> S] /\ g[0] = <<>> /\ \A i \in 1 .. c : g[i] = h[i][g[i - 1]]
    <3> HIDE DEF h, c, S
    <3> QED
      BY <1>4 DEF Iterates
  <2>2. ASSUME NEW i \in 1 .. c
        PROVE  g[i] = WithNextGate(g[i - 1], w, jobs)
    <3>1. h[i] = [s \in S |-> WithNextGate(s, w, jobs)]
      OBVIOUS
    <3> HIDE DEF h, c, S
    <3>2. g[i - 1] \in S /\ g[i] = h[i][g[i - 1]]
      BY <1>2, <2>1
    <3> QED
      BY <3>1, <3>2
  <2> HIDE DEF c, S, h
  <2> QED
    BY <1>2, <2>1, <2>2
<1>6. Is(g)
  <2> HIDE DEF Level, c, S, h
  <2> QED
    BY <1>5
<1>7. Is(gates)
  <2> HIDE DEF Is
  <2> QED
    BY <1>6
<1> HIDE DEF gates, h, c, S
<1>8. \A n \in 0 .. c : gates[n] = Level(gates, n)
  BY ONLY <1>7
<1> DEFINE P == {n \in 0 .. c : gates[n] \in S /\ (HasAllGates(gates[n], w, jobs) \/ Len(gates[n]) = n)}
<1>9. 0 \in P
  BY <1>2, <1>3, <1>8
<1>10. ASSUME NEW n \in 1 .. c, n - 1 \in P
       PROVE  n \in P
  <2> DEFINE before == gates[n - 1]
             after == gates[n]
  <2>1. after = WithNextGate(before, w, jobs)
    <3>1. n \in 0 .. c /\ n # 0
      BY <1>2
    <3> QED
      BY ONLY <1>8, <3>1
  <2>2. before \in S /\ (HasAllGates(before, w, jobs) \/ Len(before) = n - 1)
    BY <1>10
  <2> HIDE DEF before, after
  <2>3. /\ after \in S
        /\ (HasAllGates(before, w, jobs) /\ after = before) \/ Len(after) = Len(before) + 1
    BY <1>3, <2>1, <2>2, NextCollected DEF S
  <2>4. before \in Seq(Frames(w)) /\ after \in Seq(Frames(w))
    BY <2>2, <2>3, SMTT(30) DEF S
  <2>5. HasAllGates(before, w, jobs) => after = before
    <3>1. HasAllGates(before, w, jobs) => \A j \in 1 .. Len(jobs) : ToSet(InstanceGates(w, jobs[j])) \subseteq ToSet(before)
      BY DEF HasAllGates
    <3>2. \A j \in DOMAIN jobs : \A d \in DOMAIN InstanceGates(w, jobs[j]) :
             InstanceGates(w, jobs[j])[d] \in ToSet(InstanceGates(w, jobs[j]))
      BY DEF ToSet
    <3>3. DOMAIN jobs = 1 .. Len(jobs)
      OBVIOUS
    <3> QED
      BY <2>1, <3>1, <3>2, <3>3 DEF WithNextGate
  <2>6. HasAllGates(after, w, jobs) \/ Len(after) = n
    BY <1>2, <2>2, <2>3, <2>4, <2>5
  <2> QED
    BY <1>2, <2>3, <2>6 DEF after
<1>11. c \in P
  <2> HIDE DEF P
  <2>1. \A n \in 1 .. c : n - 1 \in P => n \in P
    BY <1>10
  <2>2. \A n \in 0 .. c : n \in P
    BY <1>2, <1>9, <2>1, UpTo
  <2> QED
    BY <1>2, <2>2
<1>12. IsCollection(gates[c], w, jobs) /\ (HasAllGates(gates[c], w, jobs) \/ Len(gates[c]) = c)
  BY <1>11 DEF S
<1>13. ASSUME Len(gates[c]) = c
       PROVE  HasAllGates(gates[c], w, jobs)
  <2> DEFINE s == gates[c]
  <2>1. s \in [1 .. c -> DOMAIN w.gate] /\ ToSet(s) = {s[i] : i \in 1 .. c} /\ s \in Seq(Frames(w)) /\ Len(s) = c
    BY <1>12, <1>13 DEF IsCollection, ToSet, Frames
  <2>2. \A i, j \in 1 .. c : s[i] = s[j] => i = j
    BY <1>12, <1>13 DEF IsCollection
  <2> HIDE DEF s
  <2>3. s \in Injection(1 .. c, DOMAIN w.gate)
    BY <2>1, <2>2 DEF Injection, IsInjective
  <2>4. Cardinality(1 .. c) = Cardinality(DOMAIN w.gate)
    <3>1. Cardinality(1 .. c) = c
      BY <1>2, FS_Interval
    <3> QED
      BY <3>1 DEF c
  <2>5. s \in Surjection(1 .. c, DOMAIN w.gate)
    BY <2>3, <2>4, FS_Injection DEF IsFlat
  <2>6. DOMAIN w.gate \subseteq ToSet(s)
    BY <2>1, <2>5 DEF Surjection
  <2>7. \A j \in 1 .. Len(jobs) : ToSet(InstanceGates(w, jobs[j])) \subseteq DOMAIN w.gate
    <3> TAKE j \in 1 .. Len(jobs)
    <3>1. jobs[j] \in w.instances
      OBVIOUS
    <3>2. InstanceGates(w, jobs[j]) \in Seq(DOMAIN w.gate)
      BY <3>1 DEF IsFlat, InstanceGates
    <3> QED
      BY <3>2 DEF ToSet
  <2> QED
    BY <2>6, <2>7 DEF HasAllGates, s
<1> QED
  BY <1>1, <1>12, <1>13

-----------------------------------------------------------------------------
\* The steps of a pipeline.
OpenStep(w, f) ==
    IF f = 0 THEN Step(Open(0), w.gate[0], 1, w.gateCancel[0], {Importer}, {})
    ELSE Step(Open(f), w.gate[f], 1, w.gateCancel[f], OpenStrict(w, f), OpenLenient(w, f))
CloseStep(w, f) ==
    IF f = 0 THEN Step(Close(0), w.gate[0], 1, FALSE, {Importer}, WorkflowCloseLenient(w))
    ELSE Step(Close(f), w.gate[f], 1, FALSE, {}, CloseLenient(w, f))
StepOfJob(w, k) ==
    Step(JobStep(k), JobGroup(w, JobOf(k)), JobLimit(w, JobOf(k)), w.cancel[JobOf(k)], JobStrict(w, k), JobLenient(w, k))
ApprovalStep == Step(Approval, 0, 0, FALSE, {Importer}, {})

\* The frames with markers.
Marked(w) == ToSet(ReusableGates(w)) \cup (IF w.gate[0] = 0 THEN {} ELSE {0})

AllSteps(w) ==
    {OpenStep(w, f) : f \in Marked(w)} \cup {CloseStep(w, f) : f \in Marked(w)}
    \cup {StepOfJob(w, k) : k \in ToSet(OrderedJobs(w))}
    \cup (IF w.approval = {} THEN {} ELSE {ApprovalStep})

LEMMA OrderedJobsAre ==
    ASSUME NEW w, IsFlat(w)
    PROVE  OrderedJobs(w) \in Seq(w.instances)
BY OrderIs DEF OrderedJobs, IsOrder, IsFlat

LEMMA ReusableGatesAre ==
    ASSUME NEW w, IsFlat(w)
    PROVE  /\ ReusableGates(w) \in Seq(Frames(w))
           /\ \A i, j \in 1 .. Len(ReusableGates(w)) : ReusableGates(w)[i] = ReusableGates(w)[j] => i = j
           /\ \A f \in ToSet(ReusableGates(w)) : f # 0 /\ \E k \in w.instances : f \in ToSet(InstanceGates(w, k))
           /\ \A k \in ToSet(OrderedJobs(w)) : ToSet(InstanceGates(w, k)) \subseteq ToSet(ReusableGates(w))
<1> DEFINE jobs == OrderedJobs(w)
           gates == ReusableGates(w)
<1>1. jobs \in Seq(w.instances)
  BY OrderedJobsAre
<1>2. IsCollection(gates, w, jobs) /\ HasAllGates(gates, w, jobs)
  BY <1>1, GatesAre DEF ReusableGates
<1> HIDE DEF jobs, gates
<1>3. \A f \in ToSet(gates) : f # 0 /\ \E k \in w.instances : f \in ToSet(InstanceGates(w, k))
  <2> TAKE f \in ToSet(gates)
  <2>1. PICK i \in 1 .. Len(gates) : f = gates[i]
    BY <1>2 DEF IsCollection, ToSet
  <2>2. PICK j \in 1 .. Len(jobs) : gates[i] \in ToSet(InstanceGates(w, jobs[j]))
    BY <1>2 DEF IsCollection
  <2>3. jobs[j] \in w.instances /\ gates[i] \in Frames(w)
    BY <1>1, <1>2 DEF IsCollection
  <2> QED
    BY <2>1, <2>2, <2>3 DEF Frames
<1>4. \A k \in ToSet(jobs) : ToSet(InstanceGates(w, k)) \subseteq ToSet(gates)
  <2> TAKE k \in ToSet(jobs)
  <2>1. PICK j \in 1 .. Len(jobs) : k = jobs[j]
    BY <1>1 DEF ToSet
  <2> QED
    BY <1>2, <2>1 DEF HasAllGates
<1> QED
  BY <1>2, <1>3, <1>4 DEF IsCollection, jobs, gates

LEMMA PartsAre ==
    ASSUME NEW w, IsFlat(w)
    PROVE  /\ WorkflowGateSteps(w) = IF w.gate[0] = 0 THEN <<>> ELSE <<OpenStep(w, 0), CloseStep(w, 0)>>
           /\ ReusableGateSteps(w) \in [1 .. 2 * Len(ReusableGates(w)) -> AllSteps(w)]
           /\ \A i \in 1 .. Len(ReusableGates(w)) :
                /\ ReusableGateSteps(w)[2 * i - 1] = OpenStep(w, ReusableGates(w)[i])
                /\ ReusableGateSteps(w)[2 * i] = CloseStep(w, ReusableGates(w)[i])
           /\ JobSteps(w) \in [1 .. Len(OrderedJobs(w)) -> AllSteps(w)]
           /\ \A i \in 1 .. Len(OrderedJobs(w)) : JobSteps(w)[i] = StepOfJob(w, OrderedJobs(w)[i])
           /\ ApprovalSteps(w) = IF w.approval = {} THEN <<>> ELSE <<ApprovalStep>>
<1> DEFINE gates == ReusableGates(w)
           jobs == OrderedJobs(w)
           n == Len(gates)
<1>1. /\ gates \in Seq(Frames(w)) /\ n \in Nat /\ jobs \in Seq(w.instances) /\ DOMAIN jobs = 1 .. Len(jobs)
      /\ ToSet(gates) = {gates[i] : i \in 1 .. n} /\ ToSet(jobs) = {jobs[i] : i \in 1 .. Len(jobs)}
      /\ \A i \in 1 .. n : gates[i] # 0
  <2>1. gates \in Seq(Frames(w)) /\ jobs \in Seq(w.instances)
    BY OrderedJobsAre, ReusableGatesAre
  <2> HIDE DEF gates, jobs
  <2>2. \A i \in 1 .. n : gates[i] \in Frames(w)
    BY <2>1
  <2> QED
    BY <2>1, <2>2 DEF ToSet, Frames
<1> DEFINE B == ReusableGateSteps(w)
<1>2. B = [i \in 1..2 * n |->
              IF i % 2 = 1
              THEN Step(Open(gates[(i + 1) \div 2]), w.gate[gates[(i + 1) \div 2]], 1, w.gateCancel[gates[(i + 1) \div 2]],
                        OpenStrict(w, gates[(i + 1) \div 2]), OpenLenient(w, gates[(i + 1) \div 2]))
              ELSE Step(Close(gates[(i + 1) \div 2]), w.gate[gates[(i + 1) \div 2]], 1, FALSE, {}, CloseLenient(w, gates[(i + 1) \div 2]))]
  BY DEF ReusableGateSteps
<1>3. \A i \in 1 .. Len(jobs) : JobSteps(w)[i] = StepOfJob(w, jobs[i])
  BY <1>1 DEF JobSteps, StepOfJob
<1> HIDE DEF gates, jobs, n, B
<1>4. ASSUME NEW i \in 1 .. n
      PROVE  B[2 * i - 1] = OpenStep(w, gates[i]) /\ B[2 * i] = CloseStep(w, gates[i])
  <2>1. /\ 2 * i - 1 \in 1 .. 2 * n /\ (2 * i - 1) % 2 = 1 /\ ((2 * i - 1) + 1) \div 2 = i
        /\ 2 * i \in 1 .. 2 * n /\ (2 * i) % 2 # 1 /\ (2 * i + 1) \div 2 = i
    <3>1. i \in Nat /\ 1 <= i /\ i <= n /\ n \in Nat
      BY <1>1
    <3>2. 2 * i - 1 \in 1 .. 2 * n /\ 2 * i \in 1 .. 2 * n /\ (2 * i - 1) + 1 = 2 * i
      BY <3>1
    <3>3. (2 * i - 1) % 2 = 1 /\ (2 * i) % 2 # 1
      BY <3>1
    <3>4. (2 * i) \div 2 = i /\ (2 * i + 1) \div 2 = i
      BY <3>1
    <3> QED
      BY <3>2, <3>3, <3>4
  <2>2. gates[i] # 0
    BY <1>1
  <2>3. B[2 * i - 1] = Step(Open(gates[i]), w.gate[gates[i]], 1, w.gateCancel[gates[i]], OpenStrict(w, gates[i]), OpenLenient(w, gates[i]))
    BY <1>2, <2>1
  <2>4. B[2 * i] = Step(Close(gates[i]), w.gate[gates[i]], 1, FALSE, {}, CloseLenient(w, gates[i]))
    BY <1>2, <2>1
  <2> QED
    BY <2>2, <2>3, <2>4 DEF OpenStep, CloseStep
<1>5. \A i \in 1 .. n : gates[i] \in Marked(w)
  BY <1>1 DEF Marked, gates
<1>6. B \in [1 .. 2 * n -> AllSteps(w)]
  <2> SUFFICES ASSUME NEW i \in 1 .. 2 * n
               PROVE  B[i] \in AllSteps(w)
    BY <1>2
  <2>1. PICK j \in 1 .. n : i = 2 * j - 1 \/ i = 2 * j
    <3> DEFINE j == (i + 1) \div 2
    <3>1. i \in Nat /\ 1 <= i /\ i <= 2 * n /\ n \in Nat
      BY <1>1
    <3>2. j \in 1 .. n /\ (i = 2 * j - 1 \/ i = 2 * j)
      BY ONLY <3>1, SMTT(30)
    <3> QED
      BY <3>2
  <2> QED
    BY <1>4, <1>5, <2>1 DEF AllSteps
<1>7. JobSteps(w) \in [1 .. Len(jobs) -> AllSteps(w)]
  <2>1. \A i \in 1 .. Len(jobs) : jobs[i] \in ToSet(OrderedJobs(w))
    BY <1>1 DEF jobs
  <2>2. JobSteps(w) = [i \in 1 .. Len(jobs) |-> StepOfJob(w, jobs[i])]
    BY <1>1 DEF JobSteps, StepOfJob, jobs
  <2>3. \A i \in 1 .. Len(jobs) : StepOfJob(w, jobs[i]) \in AllSteps(w)
    BY <2>1 DEF AllSteps
  <2> QED
    BY <2>2, <2>3
<1>8. WorkflowGateSteps(w) = IF w.gate[0] = 0 THEN <<>> ELSE <<OpenStep(w, 0), CloseStep(w, 0)>>
  BY DEF WorkflowGateSteps, OpenStep, CloseStep
<1>9. ApprovalSteps(w) = IF w.approval = {} THEN <<>> ELSE <<ApprovalStep>>
  BY DEF ApprovalSteps, ApprovalStep
<1> QED
  BY <1>3, <1>4, <1>6, <1>7, <1>8, <1>9 DEF n, gates, jobs, B

Joined(v, s, u, S) ==
    /\ v \in Seq(S) /\ Len(v) = Len(s) + Len(u)
    /\ \A i \in 1 .. Len(s) : v[i] = s[i]
    /\ \A i \in 1 .. Len(u) : v[Len(s) + i] = u[i]

LEMMA JoinedIs ==
    ASSUME NEW S, NEW s \in Seq(S), NEW u \in Seq(S)
    PROVE  Joined(s \o u, s, u, S)
<1> DEFINE p == Len(s)
           q == Len(u)
<1>1. /\ s \o u \in Seq(S) /\ Len(s \o u) = p + q
      /\ \A i \in 1 .. p + q : (s \o u)[i] = IF i <= p THEN s[i] ELSE u[i - p]
  BY ConcatProperties
<1>2. p \in Nat /\ q \in Nat
  OBVIOUS
<1> HIDE DEF p, q
<1>3. \A i \in 1 .. p : i \in 1 .. p + q /\ i <= p
  BY <1>2
<1>4. \A i \in 1 .. q : p + i \in 1 .. p + q /\ ~(p + i <= p) /\ (p + i) - p = i
  BY <1>2
<1>5. \A i \in 1 .. p : (s \o u)[i] = s[i]
  BY <1>1, <1>3
<1>6. \A i \in 1 .. q : (s \o u)[p + i] = u[i]
  <2> TAKE i \in 1 .. q
  <2> QED
    BY <1>1, <1>4
<1> QED
  BY <1>1, <1>5, <1>6 DEF p, q, Joined

\* Where the parts of a pipeline are in it.
Opening(w) == IF w.gate[0] = 0 THEN 0 ELSE 2
Gates(w) == Len(ReusableGates(w))
JobCount(w) == Len(OrderedJobs(w))
Closing(w) == IF w.approval = {} THEN 0 ELSE 1

LEMMA EmissionIs ==
    ASSUME NEW w, IsFlat(w)
    PROVE  /\ Opening(w) \in {0, 2} /\ Gates(w) \in Nat /\ JobCount(w) \in Nat /\ Closing(w) \in {0, 1}
           /\ Emission(w) \in Seq(AllSteps(w))
           /\ Len(Emission(w)) = Opening(w) + 2 * Gates(w) + JobCount(w) + Closing(w)
           /\ w.gate[0] # 0 => Emission(w)[1] = OpenStep(w, 0) /\ Emission(w)[2] = CloseStep(w, 0)
           /\ \A i \in 1 .. Gates(w) :
                /\ Emission(w)[Opening(w) + 2 * i - 1] = OpenStep(w, ReusableGates(w)[i])
                /\ Emission(w)[Opening(w) + 2 * i] = CloseStep(w, ReusableGates(w)[i])
           /\ \A i \in 1 .. JobCount(w) : Emission(w)[Opening(w) + 2 * Gates(w) + i] = StepOfJob(w, OrderedJobs(w)[i])
           /\ w.approval # {} => Emission(w)[Opening(w) + 2 * Gates(w) + JobCount(w) + 1] = ApprovalStep
<1> DEFINE S == AllSteps(w)
           A == WorkflowGateSteps(w)
           B == ReusableGateSteps(w)
           C == JobSteps(w)
           D == ApprovalSteps(w)
           n == Gates(w)
           m == JobCount(w)
           a == Opening(w)
           d == Closing(w)
<1>1. n \in Nat /\ m \in Nat /\ a \in {0, 2} /\ d \in {0, 1}
  BY OrderedJobsAre, ReusableGatesAre DEF Gates, JobCount, Opening, Closing
<1>2. A \in Seq(S) /\ Len(A) = a /\ (w.gate[0] # 0 => A[1] = OpenStep(w, 0) /\ A[2] = CloseStep(w, 0))
  <2>1. w.gate[0] # 0 => 0 \in Marked(w)
    BY DEF Marked
  <2>2. w.gate[0] # 0 => OpenStep(w, 0) \in S /\ CloseStep(w, 0) \in S
    BY <2>1 DEF AllSteps
  <2>3. A = IF w.gate[0] = 0 THEN <<>> ELSE <<OpenStep(w, 0), CloseStep(w, 0)>>
    BY PartsAre
  <2> HIDE DEF A, S
  <2> QED
    BY <2>2, <2>3 DEF Opening
<1>3. D \in Seq(S) /\ Len(D) = d /\ (w.approval # {} => D[1] = ApprovalStep)
  <2>1. w.approval # {} => ApprovalStep \in S
    BY DEF AllSteps
  <2>2. D = IF w.approval = {} THEN <<>> ELSE <<ApprovalStep>>
    BY PartsAre
  <2> HIDE DEF D, S
  <2> QED
    BY <2>1, <2>2 DEF Closing
<1>4. /\ B \in Seq(S) /\ Len(B) = 2 * n /\ C \in Seq(S) /\ Len(C) = m
      /\ \A i \in 1 .. n : B[2 * i - 1] = OpenStep(w, ReusableGates(w)[i]) /\ B[2 * i] = CloseStep(w, ReusableGates(w)[i])
      /\ \A i \in 1 .. m : C[i] = StepOfJob(w, OrderedJobs(w)[i])
  <2>1. /\ B \in [1 .. 2 * n -> S] /\ C \in [1 .. m -> S]
        /\ \A i \in 1 .. n : B[2 * i - 1] = OpenStep(w, ReusableGates(w)[i]) /\ B[2 * i] = CloseStep(w, ReusableGates(w)[i])
        /\ \A i \in 1 .. m : C[i] = StepOfJob(w, OrderedJobs(w)[i])
    BY PartsAre DEF Gates, JobCount
  <2> HIDE DEF B, C, S, n, m
  <2> QED
    BY <1>1, <2>1
<1> DEFINE e == Emission(w)
<1>5. e = ((A \o B) \o C) \o D
  BY DEF Emission
<1> HIDE DEF A, B, C, D, S, n, m, a, d, e
<1>6. /\ A \o B \in Seq(S) /\ Len(A \o B) = a + 2 * n
      /\ \A i \in 1 .. a : (A \o B)[i] = A[i]
      /\ \A i \in 1 .. 2 * n : (A \o B)[a + i] = B[i]
  <2>1. A \in Seq(S) /\ B \in Seq(S) /\ Len(A) = a /\ Len(B) = 2 * n /\ 2 * n \in Nat
    BY <1>1, <1>2, <1>4
  <2> QED
    <3> HIDE DEF S
    <3>1. Joined(A \o B, A, B, S)
      BY ONLY <2>1, JoinedIs
    <3> QED
      BY ONLY <2>1, <3>1 DEF Joined
<1> DEFINE AB == A \o B
<1> HIDE DEF AB
<1>7. /\ AB \o C \in Seq(S) /\ Len(AB \o C) = a + 2 * n + m
      /\ \A i \in 1 .. a + 2 * n : (AB \o C)[i] = AB[i]
      /\ \A i \in 1 .. m : (AB \o C)[a + 2 * n + i] = C[i]
  <2>1. AB \in Seq(S) /\ C \in Seq(S) /\ Len(AB) = a + 2 * n /\ Len(C) = m /\ a + 2 * n \in Nat
    BY <1>1, <1>4, <1>6 DEF AB
  <2> QED
    <3> HIDE DEF S
    <3>1. Joined(AB \o C, AB, C, S)
      BY ONLY <2>1, JoinedIs
    <3> QED
      BY ONLY <2>1, <3>1 DEF Joined
<1> DEFINE ABC == AB \o C
<1> HIDE DEF ABC
<1>8. /\ e \in Seq(S) /\ Len(e) = a + 2 * n + m + d
      /\ \A i \in 1 .. a + 2 * n + m : e[i] = ABC[i]
      /\ \A i \in 1 .. d : e[a + 2 * n + m + i] = D[i]
  <2>1. ABC \in Seq(S) /\ D \in Seq(S) /\ Len(ABC) = a + 2 * n + m /\ Len(D) = d /\ a + 2 * n + m \in Nat
    BY <1>1, <1>3, <1>7 DEF ABC
  <2>2. e = ABC \o D
    BY <1>5 DEF ABC, AB
  <2> QED
    <3> HIDE DEF S
    <3>1. Joined(ABC \o D, ABC, D, S)
      BY ONLY <2>1, JoinedIs
    <3> QED
      BY ONLY <2>1, <2>2, <3>1 DEF Joined
<1>9. \A i \in 1 .. a : e[i] = A[i]
  <2> TAKE i \in 1 .. a
  <2>1. i \in 1 .. a + 2 * n /\ i \in 1 .. a + 2 * n + m
    BY <1>1
  <2>2. AB[i] = A[i]
    BY <1>6 DEF AB
  <2>3. ABC[i] = AB[i]
    BY <1>7, <2>1 DEF ABC
  <2> QED
    BY <1>8, <2>1, <2>2, <2>3
<1>10. \A i \in 1 .. 2 * n : e[a + i] = B[i]
  <2> TAKE i \in 1 .. 2 * n
  <2>1. a + i \in 1 .. a + 2 * n /\ a + i \in 1 .. a + 2 * n + m
    BY <1>1
  <2>2. AB[a + i] = B[i]
    BY <1>6 DEF AB
  <2>3. ABC[a + i] = AB[a + i]
    BY <1>7, <2>1 DEF ABC
  <2> QED
    BY <1>8, <2>1, <2>2, <2>3
<1>11. \A i \in 1 .. m : e[a + 2 * n + i] = C[i]
  <2> TAKE i \in 1 .. m
  <2>1. a + 2 * n + i \in 1 .. a + 2 * n + m
    BY <1>1
  <2>2. ABC[a + 2 * n + i] = C[i]
    BY <1>7 DEF ABC
  <2> QED
    BY <1>8, <2>1, <2>2
<1>12. w.gate[0] # 0 => e[1] = OpenStep(w, 0) /\ e[2] = CloseStep(w, 0)
  BY <1>1, <1>2, <1>9 DEF a, Opening
<1>13. \A i \in 1 .. n : e[a + 2 * i - 1] = OpenStep(w, ReusableGates(w)[i]) /\ e[a + 2 * i] = CloseStep(w, ReusableGates(w)[i])
  <2> TAKE i \in 1 .. n
  <2>1. 2 * i - 1 \in 1 .. 2 * n /\ 2 * i \in 1 .. 2 * n /\ a + (2 * i - 1) = a + 2 * i - 1
    BY <1>1
  <2> QED
    BY <1>4, <1>10, <2>1
<1>14. \A i \in 1 .. m : e[a + 2 * n + i] = StepOfJob(w, OrderedJobs(w)[i])
  BY <1>4, <1>11
<1>15. w.approval # {} => e[a + 2 * n + m + 1] = ApprovalStep
  BY <1>1, <1>3, <1>8 DEF d, Closing
<1> QED
  BY <1>1, <1>8, <1>12, <1>13, <1>14, <1>15 DEF e, S, n, m, a, d

LEMMA StepsAre ==
    /\ \A w, f : /\ OpenStep(w, f).key = Open(f) /\ OpenStep(w, f).group = w.gate[f]
                 /\ OpenStep(w, f).limit = 1 /\ OpenStep(w, f).optIn = w.gateCancel[f]
    /\ \A w, f : /\ CloseStep(w, f).key = Close(f) /\ CloseStep(w, f).group = w.gate[f]
                 /\ CloseStep(w, f).limit = 1 /\ CloseStep(w, f).optIn = FALSE
    /\ \A w, k : /\ StepOfJob(w, k).key = JobStep(k) /\ StepOfJob(w, k).group = JobGroup(w, JobOf(k))
                 /\ StepOfJob(w, k).limit = JobLimit(w, JobOf(k)) /\ StepOfJob(w, k).optIn = w.cancel[JobOf(k)]
                 /\ StepOfJob(w, k).strict = JobStrict(w, k) /\ StepOfJob(w, k).lenient = JobLenient(w, k)
    /\ ApprovalStep.key = Approval /\ ApprovalStep.group = 0
<1>1. \A w, f : /\ OpenStep(w, f).key = Open(f) /\ OpenStep(w, f).group = w.gate[f]
                /\ OpenStep(w, f).limit = 1 /\ OpenStep(w, f).optIn = w.gateCancel[f]
  <2> TAKE w, f
  <2>1. CASE f = 0
    BY <2>1 DEF OpenStep, Step
  <2>2. CASE f # 0
    BY <2>2 DEF OpenStep, Step
  <2> QED
    BY <2>1, <2>2
<1>2. \A w, f : /\ CloseStep(w, f).key = Close(f) /\ CloseStep(w, f).group = w.gate[f]
                /\ CloseStep(w, f).limit = 1 /\ CloseStep(w, f).optIn = FALSE
  <2> TAKE w, f
  <2>1. CASE f = 0
    BY <2>1 DEF CloseStep, Step
  <2>2. CASE f # 0
    BY <2>2 DEF CloseStep, Step
  <2> QED
    BY <2>1, <2>2
<1>3. \A w, k : /\ StepOfJob(w, k).key = JobStep(k) /\ StepOfJob(w, k).group = JobGroup(w, JobOf(k))
                /\ StepOfJob(w, k).limit = JobLimit(w, JobOf(k)) /\ StepOfJob(w, k).optIn = w.cancel[JobOf(k)]
                /\ StepOfJob(w, k).strict = JobStrict(w, k) /\ StepOfJob(w, k).lenient = JobLenient(w, k)
  BY DEF StepOfJob, Step
<1>4. ApprovalStep.key = Approval /\ ApprovalStep.group = 0
  BY DEF ApprovalStep, Step
<1> QED
  BY <1>1, <1>2, <1>3, <1>4

LEMMA KeysDiffer ==
    /\ \A f, g : (Open(f) = Open(g) => f = g) /\ (Close(f) = Close(g) => f = g) /\ (JobStep(f) = JobStep(g) => f = g)
    /\ \A f, g : Open(f) # Close(g) /\ Open(f) # JobStep(g) /\ Close(f) # JobStep(g)
    /\ \A f : Open(f) # Approval /\ Close(f) # Approval /\ JobStep(f) # Approval
    /\ \A f : Open(f) # Importer /\ Close(f) # Importer /\ JobStep(f) # Importer
    /\ Approval # Importer
BY DEF Open, Close, JobStep, Approval, Importer

\* A step of a pipeline is known by its key.
LEMMA SameKey ==
    ASSUME NEW w, NEW s \in AllSteps(w), NEW u \in AllSteps(w), s.key = u.key
    PROVE  s = u
<1>1. ASSUME NEW x \in AllSteps(w)
      PROVE  \/ \E f \in Marked(w) : x = OpenStep(w, f) /\ x.key = Open(f)
             \/ \E f \in Marked(w) : x = CloseStep(w, f) /\ x.key = Close(f)
             \/ \E k \in ToSet(OrderedJobs(w)) : x = StepOfJob(w, k) /\ x.key = JobStep(k)
             \/ x = ApprovalStep /\ x.key = Approval
  BY StepsAre DEF AllSteps
<1> QED
  BY <1>1, KeysDiffer

LEMMA PositionsAre ==
    ASSUME NEW w, IsFlat(w), NEW q \in DOMAIN Emission(w)
    PROVE  \/ w.gate[0] # 0 /\ q = 1 /\ Emission(w)[q] = OpenStep(w, 0)
           \/ w.gate[0] # 0 /\ q = 2 /\ Emission(w)[q] = CloseStep(w, 0)
           \/ \E i \in 1 .. Gates(w) : q = Opening(w) + 2 * i - 1 /\ Emission(w)[q] = OpenStep(w, ReusableGates(w)[i])
           \/ \E i \in 1 .. Gates(w) : q = Opening(w) + 2 * i /\ Emission(w)[q] = CloseStep(w, ReusableGates(w)[i])
           \/ \E i \in 1 .. JobCount(w) : Emission(w)[q] = StepOfJob(w, OrderedJobs(w)[i])
           \/ Emission(w)[q] = ApprovalStep
<1> DEFINE e == Emission(w)
           a == Opening(w)
           n == Gates(w)
           m == JobCount(w)
           d == Closing(w)
<1>1. /\ a \in {0, 2} /\ n \in Nat /\ m \in Nat /\ d \in {0, 1}
      /\ Len(e) = a + 2 * n + m + d /\ DOMAIN e = 1 .. Len(e)
      /\ w.gate[0] # 0 => e[1] = OpenStep(w, 0) /\ e[2] = CloseStep(w, 0)
      /\ \A i \in 1 .. n : /\ e[a + 2 * i - 1] = OpenStep(w, ReusableGates(w)[i])
                           /\ e[a + 2 * i] = CloseStep(w, ReusableGates(w)[i])
      /\ \A i \in 1 .. m : e[a + 2 * n + i] = StepOfJob(w, OrderedJobs(w)[i])
      /\ w.approval # {} => e[a + 2 * n + m + 1] = ApprovalStep
  <2>1. e \in Seq(AllSteps(w))
    BY EmissionIs
  <2>2. DOMAIN e = 1 .. Len(e)
    <3> HIDE DEF e
    <3> QED
      BY <2>1
  <2> QED
    BY <2>2, EmissionIs
<1>2. (w.gate[0] = 0 => a = 0) /\ (w.gate[0] # 0 => a = 2) /\ (w.approval = {} => d = 0)
  BY DEF Opening, Closing
<1> HIDE DEF e, a, n, m, d
<1>3. q \in Nat /\ 1 <= q /\ q <= a + 2 * n + m + d
  BY <1>1 DEF e
<1>4. CASE q <= a
  BY <1>1, <1>2, <1>3, <1>4 DEF e
<1>5. CASE a < q /\ q <= a + 2 * n
  <2>1. PICK i \in 1 .. n : q = a + 2 * i - 1 \/ q = a + 2 * i
    <3> DEFINE x == q - a
               j == (x + 1) \div 2
    <3>1. x \in 1 .. 2 * n /\ q = a + x
      BY <1>1, <1>3, <1>5
    <3> HIDE DEF x
    <3>2. j \in 1 .. n /\ (x = 2 * j - 1 \/ x = 2 * j)
      BY <1>1, <3>1
    <3> HIDE DEF j
    <3> QED
      BY <1>1, <3>1, <3>2
  <2>2. CASE q = a + 2 * i - 1
    BY <1>1, <2>1, <2>2 DEF e, a, n
  <2>3. CASE q = a + 2 * i
    BY <1>1, <2>1, <2>3 DEF e, a, n
  <2> QED
    BY <2>1, <2>2, <2>3
<1>6. CASE a + 2 * n < q /\ q <= a + 2 * n + m
  <2> DEFINE i == q - (a + 2 * n)
  <2>1. i \in 1 .. m /\ q = a + 2 * n + i
    BY <1>1, <1>3, <1>6
  <2> HIDE DEF i
  <2>2. e[q] = StepOfJob(w, OrderedJobs(w)[i])
    BY <1>1, <2>1
  <2> QED
    BY <2>1, <2>2 DEF e, m
<1>7. CASE a + 2 * n + m < q
  <2>1. q = a + 2 * n + m + 1 /\ w.approval # {}
    BY <1>1, <1>2, <1>3, <1>7
  <2> QED
    BY <1>1, <2>1 DEF e
<1> QED
  BY <1>1, <1>3, <1>4, <1>5, <1>6, <1>7

\* The markers of a gate are next to each other, and no others are for it.
LEMMA GatePlaces ==
    ASSUME NEW w, IsFlat(w), NEW f \in Marked(w)
    PROVE  \E p \in DOMAIN Emission(w) :
              /\ p + 1 \in DOMAIN Emission(w)
              /\ Emission(w)[p] = OpenStep(w, f) /\ Emission(w)[p + 1] = CloseStep(w, f)
              /\ \A q \in DOMAIN Emission(w) :
                   /\ Emission(w)[q].key = Open(f) => q = p
                   /\ Emission(w)[q].key = Close(f) => q = p + 1
<1> DEFINE e == Emission(w)
           a == Opening(w)
           n == Gates(w)
           gates == ReusableGates(w)
<1>1. /\ a \in {0, 2} /\ n \in Nat /\ JobCount(w) \in Nat /\ Closing(w) \in {0, 1}
      /\ Len(e) = a + 2 * n + JobCount(w) + Closing(w) /\ DOMAIN e = 1 .. Len(e)
      /\ w.gate[0] # 0 => e[1] = OpenStep(w, 0) /\ e[2] = CloseStep(w, 0) /\ a = 2
      /\ \A i \in 1 .. n : e[a + 2 * i - 1] = OpenStep(w, gates[i]) /\ e[a + 2 * i] = CloseStep(w, gates[i])
  BY EmissionIs DEF Opening
<1>2. /\ gates \in Seq(Frames(w)) /\ Len(gates) = n
      /\ \A i, j \in 1 .. n : gates[i] = gates[j] => i = j
      /\ \A i \in 1 .. n : gates[i] # 0
      /\ ToSet(gates) = {gates[i] : i \in 1 .. n}
  <2>1. gates \in Seq(Frames(w)) /\ Len(gates) = n /\ \A i, j \in 1 .. n : gates[i] = gates[j] => i = j
    BY ReusableGatesAre DEF Gates
  <2> HIDE DEF gates, n
  <2>2. \A i \in 1 .. n : gates[i] \in Frames(w)
    BY <2>1
  <2> QED
    BY <2>1, <2>2 DEF Frames, ToSet
<1>3. \A q \in DOMAIN e : /\ \A g : e[q].key = Open(g) =>
                                 \/ g = 0 /\ q = 1
                                 \/ \E i \in 1 .. n : q = a + 2 * i - 1 /\ g = gates[i]
                          /\ \A g : e[q].key = Close(g) =>
                                 \/ g = 0 /\ q = 2
                                 \/ \E i \in 1 .. n : q = a + 2 * i /\ g = gates[i]
  <2> TAKE q \in DOMAIN e
  <2>1. \/ w.gate[0] # 0 /\ q = 1 /\ e[q].key = Open(0)
        \/ w.gate[0] # 0 /\ q = 2 /\ e[q].key = Close(0)
        \/ \E i \in 1 .. n : q = a + 2 * i - 1 /\ e[q].key = Open(gates[i])
        \/ \E i \in 1 .. n : q = a + 2 * i /\ e[q].key = Close(gates[i])
        \/ \E i \in 1 .. JobCount(w) : e[q].key = JobStep(OrderedJobs(w)[i])
        \/ e[q].key = Approval
    BY PositionsAre, StepsAre
  <2> HIDE DEF e, a, n, gates
  <2> QED
    BY <2>1, KeysDiffer
<1> HIDE DEF e, a, n
<1>4. CASE f = 0
  <2>1. w.gate[0] # 0
    BY <1>2, <1>4 DEF Marked, gates
  <2>2. 1 \in DOMAIN e /\ 1 + 1 \in DOMAIN e /\ e[1] = OpenStep(w, f) /\ e[1 + 1] = CloseStep(w, f)
    BY <1>1, <1>4, <2>1
  <2>3. \A q \in DOMAIN e : (e[q].key = Open(f) => q = 1) /\ (e[q].key = Close(f) => q = 1 + 1)
    BY <1>2, <1>3, <1>4
  <2> QED
    BY <2>2, <2>3 DEF e
<1>5. CASE f # 0
  <2>1. PICK i \in 1 .. n : f = gates[i]
    BY <1>2, <1>5 DEF Marked, gates
  <2> DEFINE p == a + 2 * i - 1
  <2>2. p \in DOMAIN e /\ p + 1 \in DOMAIN e /\ p + 1 = a + 2 * i
    BY <1>1
  <2>3. e[p] = OpenStep(w, f) /\ e[p + 1] = CloseStep(w, f)
    BY <1>1, <2>1, <2>2
  <2>4. \A q \in DOMAIN e : (e[q].key = Open(f) => q = p) /\ (e[q].key = Close(f) => q = p + 1)
    BY <1>2, <1>3, <1>5, <2>1, <2>2
  <2> HIDE DEF p
  <2> QED
    BY <2>2, <2>3, <2>4 DEF e
<1> QED
  BY <1>4, <1>5

LEMMA AllEmitted ==
    ASSUME NEW w, IsFlat(w), NEW s \in AllSteps(w)
    PROVE  \E q \in DOMAIN Emission(w) : Emission(w)[q] = s
<1> DEFINE e == Emission(w)
           a == Opening(w)
           n == Gates(w)
           m == JobCount(w)
<1>1. CASE \E f \in Marked(w) : s = OpenStep(w, f) \/ s = CloseStep(w, f)
  BY <1>1, GatePlaces
<1>2. CASE \E k \in ToSet(OrderedJobs(w)) : s = StepOfJob(w, k)
  <2>1. /\ a \in {0, 2} /\ n \in Nat /\ m \in Nat /\ Closing(w) \in {0, 1}
        /\ Len(e) = a + 2 * n + m + Closing(w)
        /\ \A i \in 1 .. m : e[a + 2 * n + i] = StepOfJob(w, OrderedJobs(w)[i])
    BY EmissionIs
  <2>2. e \in Seq(AllSteps(w)) /\ OrderedJobs(w) \in Seq(w.instances)
    BY EmissionIs, OrderedJobsAre
  <2>3. PICK i \in 1 .. m : s = StepOfJob(w, OrderedJobs(w)[i])
    BY <1>2, <2>2 DEF ToSet, JobCount
  <2> HIDE DEF e, a, n, m
  <2>4. DOMAIN e = 1 .. Len(e)
    BY <2>2
  <2>5. a + 2 * n + i \in DOMAIN e
    BY <2>1, <2>4
  <2> QED
    BY <2>1, <2>3, <2>5 DEF e
<1>3. CASE w.approval # {} /\ s = ApprovalStep
  <2>1. /\ a \in {0, 2} /\ n \in Nat /\ m \in Nat /\ Closing(w) = 1
        /\ Len(e) = a + 2 * n + m + Closing(w) /\ e[a + 2 * n + m + 1] = ApprovalStep
    BY <1>3, EmissionIs DEF Closing
  <2>2. e \in Seq(AllSteps(w))
    BY EmissionIs
  <2> HIDE DEF e, a, n, m
  <2>3. DOMAIN e = 1 .. Len(e)
    BY <2>2
  <2>4. a + 2 * n + m + 1 \in DOMAIN e
    BY <2>1, <2>3
  <2> QED
    BY <1>3, <2>1, <2>4 DEF e
<1> QED
  BY <1>1, <1>2, <1>3 DEF AllSteps

\* Where the graph of the instances has no cycle all of them are emitted, and
\* no step waits for one that is not in the pipeline.
LEMMA InstancesEmitted ==
    ASSUME NEW w, IsFlat(w), Acyclic(w.instances, w.instanceNeeds)
    PROVE  ToSet(OrderedJobs(w)) = w.instances
BY OrderIsComplete DEF OrderedJobs, IsFlat

LEMMA OuterGateMarked ==
    ASSUME NEW w, IsFlat(w), Acyclic(w.instances, w.instanceNeeds),
           NEW f \in ToSet(ReusableGates(w)), OuterGates(w, f) # <<>>
    PROVE  Last(OuterGates(w, f)) \in ToSet(ReusableGates(w))
<1> DEFINE k == CHOOSE x \in Held(w, f) : TRUE
           gates == InstanceGates(w, k)
           place == CHOOSE i \in DOMAIN gates : gates[i] = f
           outer == SubSeq(gates, 1, place - 1)
<1>1. k \in w.instances /\ f \in ToSet(gates)
  <2>1. \E x \in w.instances : f \in ToSet(InstanceGates(w, x))
    BY ReusableGatesAre
  <2>2. k \in Held(w, f)
    BY <2>1 DEF Held
  <2> QED
    BY <2>2 DEF Held
<1>2. gates \in Seq(Frames(w)) /\ ToSet(gates) \subseteq ToSet(ReusableGates(w))
  <2>1. k \in ToSet(OrderedJobs(w))
    BY <1>1, InstancesEmitted
  <2> QED
    BY <1>1, <2>1, ReusableGatesAre DEF IsFlat, InstanceGates, Frames
<1>3. OuterGates(w, f) = outer
  BY DEF OuterGates
<1> HIDE DEF k, gates
<1>4. place \in 1 .. Len(gates)
  BY <1>1, <1>2 DEF ToSet
<1> HIDE DEF place
<1>5. Len(outer) = place - 1 /\ \A i \in 1 .. place - 1 : outer[i] = gates[i]
  BY <1>2, <1>4
<1> HIDE DEF outer
<1>6. place - 1 # 0
  <2>1. CASE place - 1 = 0
    <3>1. outer = <<>>
      BY <1>2, <1>4, <2>1 DEF outer
    <3> QED
      BY <1>3, <3>1
  <2> QED
    BY <2>1
<1>7. Last(outer) = gates[place - 1] /\ place - 1 \in 1 .. Len(gates)
  BY <1>2, <1>4, <1>5, <1>6 DEF Last
<1>8. gates[place - 1] \in ToSet(gates)
  BY <1>2, <1>7 DEF ToSet
<1> QED
  BY <1>2, <1>3, <1>7, <1>8

LEMMA PrerequisitesEmitted ==
    ASSUME NEW w, IsFlat(w), Acyclic(w.instances, w.instanceNeeds),
           NEW s \in AllSteps(w), NEW d \in s.strict \cup s.lenient
    PROVE  d = Importer \/ \E u \in AllSteps(w) : u.key = d
<1>1. \A k \in w.instances : \E u \in AllSteps(w) : u.key = JobStep(k)
  BY InstancesEmitted, StepsAre DEF AllSteps
<1>2. \A f \in Marked(w) : (\E u \in AllSteps(w) : u.key = Open(f)) /\ (\E u \in AllSteps(w) : u.key = Close(f))
  BY StepsAre DEF AllSteps
<1>3. w.approval # {} => \E u \in AllSteps(w) : u.key = Approval
  BY StepsAre DEF AllSteps
<1>4. w.gate[0] # 0 => 0 \in Marked(w)
  BY DEF Marked
<1>5. \A f \in ToSet(ReusableGates(w)) : f \in Marked(w) /\ f # 0
  BY ReusableGatesAre DEF Marked
<1>6. \A f : Held(w, f) \subseteq w.instances /\ GatePrerequisites(w, f) \subseteq w.instances
  BY DEF Held, GatePrerequisites, IsFlat
<1>7. CASE \E f \in Marked(w) : s = OpenStep(w, f)
  <2>1. PICK f \in Marked(w) : s = OpenStep(w, f)
    BY <1>7
  <2>2. CASE f = 0
    <3>1. s.strict = {Importer} /\ s.lenient = {}
      BY <2>1, <2>2 DEF OpenStep, Step
    <3> QED
      BY <3>1
  <2>3. CASE f # 0
    <3>1. s.strict = OpenStrict(w, f) /\ s.lenient = {JobStep(k) : k \in GatePrerequisites(w, f)}
      BY <2>1, <2>3 DEF OpenStep, OpenLenient, Step
    <3>2. f \in ToSet(ReusableGates(w))
      BY <2>3 DEF Marked
    <3>3. CASE d \in s.lenient
      BY <1>1, <1>6, <3>1, <3>3
    <3>4. CASE d \in s.strict
      <4>1. CASE OuterGates(w, f) # <<>>
        <5>1. d = Open(Last(OuterGates(w, f)))
          BY <3>1, <3>4, <4>1 DEF OpenStrict
        <5> QED
          BY <1>2, <1>5, <3>2, <4>1, <5>1, OuterGateMarked
      <4>2. CASE OuterGates(w, f) = <<>>
        BY <1>2, <1>4, <3>1, <3>4, <4>2 DEF OpenStrict
      <4> QED
        BY <4>1, <4>2
    <3> QED
      BY <3>3, <3>4
  <2> QED
    BY <2>2, <2>3
<1>8. CASE \E f \in Marked(w) : s = CloseStep(w, f)
  <2>1. PICK f \in Marked(w) : s = CloseStep(w, f)
    BY <1>8
  <2>2. CASE f = 0
    <3>1. s.strict = {Importer} /\ s.lenient = WorkflowCloseLenient(w)
      BY <2>1, <2>2 DEF CloseStep, Step
    <3> QED
      BY <1>1, <1>2, <1>5, <3>1 DEF WorkflowCloseLenient
  <2>3. CASE f # 0
    <3>1. s.strict = {} /\ s.lenient = CloseLenient(w, f)
      BY <2>1, <2>3 DEF CloseStep, Step
    <3> QED
      BY <1>1, <1>2, <1>5, <1>6, <3>1 DEF CloseLenient
  <2> QED
    BY <2>2, <2>3
<1>9. CASE \E k \in ToSet(OrderedJobs(w)) : s = StepOfJob(w, k)
  <2>1. PICK k \in ToSet(OrderedJobs(w)) : s = StepOfJob(w, k)
    BY <1>9
  <2>2. k \in w.instances
    BY InstancesEmitted
  <2>3. s.strict = JobStrict(w, k) /\ s.lenient = {JobStep(l) : l \in w.instanceNeeds[k]}
    BY <2>1, StepsAre DEF JobLenient
  <2>4. w.instanceNeeds[k] \subseteq w.instances /\ ToSet(InstanceGates(w, k)) \subseteq ToSet(ReusableGates(w))
    BY <2>2, ReusableGatesAre DEF IsFlat
  <2>5. CASE d \in s.lenient
    BY <1>1, <2>3, <2>4, <2>5
  <2>6. CASE d \in s.strict
    BY <1>2, <1>3, <1>4, <1>5, <2>3, <2>4, <2>6 DEF JobStrict
  <2> QED
    BY <2>5, <2>6
<1>10. CASE s = ApprovalStep
  BY <1>10 DEF ApprovalStep, Step
<1> QED
  BY <1>7, <1>8, <1>9, <1>10 DEF AllSteps

-----------------------------------------------------------------------------
\* The graph of a pipeline that is uploaded has no cycle.
LEMMA MaxOf ==
    ASSUME NEW n \in Nat, NEW S \in SUBSET (0 .. n), S # {}
    PROVE  Max(S) \in S /\ \A s \in S : s <= Max(S)
<1> DEFINE T == {n - s : s \in S}
<1>1. T \in SUBSET Nat /\ T # {}
  <2>1. \A s \in S : n - s \in Nat
    OBVIOUS
  <2> QED
    BY <2>1
<1> HIDE DEF T
<1>2. PICK m \in T : \A k \in T : m <= k
  BY <1>1, LeastNatural
<1>3. PICK x \in S : m = n - x
  BY DEF T
<1>4. \A s \in S : x >= s
  <2> TAKE s \in S
  <2>1. n - s \in T
    BY DEF T
  <2> QED
    BY <1>2, <1>3, <2>1
<1>5. \E y \in S : \A s \in S : y >= s
  BY <1>4
<1>6. Max(S) \in S /\ \A s \in S : Max(S) >= s
  BY <1>5 DEF Max
<1> QED
  BY <1>6

\* r numbers the steps so that each comes after those it waits for, and after
\* all that are before it in its group.
IsRank(r, e) ==
    /\ r \in [DOMAIN e -> Nat]
    /\ \A i \in DOMAIN e : \A p \in WaitsFor(e, i) : r[p] < r[i]

LEMMA RankExists ==
    ASSUME NEW w, IsFlat(w), QueuesAcyclic(w)
    PROVE  \E r : IsRank(r, Emission(w))
<1> DEFINE e == Emission(w)
           nodes == DOMAIN e
           needs == [i \in nodes |-> WaitsFor(e, i)]
           order == TopologicalOrder(nodes, needs)
           r == [p \in nodes |-> CHOOSE i \in 1 .. Len(order) : order[i] = p]
<1>1. e \in Seq(AllSteps(w))
  BY EmissionIs
<1>2. Acyclic(nodes, needs)
  BY DEF QueuesAcyclic
<1> HIDE DEF e
<1>3. nodes \in SUBSET Nat /\ IsFiniteSet(nodes)
  <2>1. nodes = 1 .. Len(e) /\ Len(e) \in Nat
    BY <1>1
  <2> QED
    BY <2>1, FS_Interval
<1> HIDE DEF needs, nodes
<1>4. IsOrder(order, nodes, needs) /\ ToSet(order) = nodes
  BY <1>2, <1>3, OrderIs, OrderIsComplete
<1> HIDE DEF order
<1>5. order \in Seq(nodes) /\ ToSet(order) = {order[i] : i \in 1 .. Len(order)} /\ Len(order) \in Nat
  BY <1>4 DEF IsOrder, ToSet
<1>6. \A p \in nodes : r[p] \in 1 .. Len(order) /\ order[r[p]] = p
  BY <1>4, <1>5
<1> HIDE DEF r
<1>7. r \in [nodes -> Nat]
  BY <1>5, <1>6 DEF r
<1>8. ASSUME NEW i \in nodes, NEW p \in WaitsFor(e, i)
      PROVE  r[p] < r[i]
  <2>1. needs[i] = WaitsFor(e, i)
    BY DEF needs
  <2>2. PICK j \in 1 .. r[i] - 1 : order[j] = p
    <3>1. r[i] \in 1 .. Len(order) /\ order[r[i]] = i
      BY <1>6
    <3>2. needs[order[r[i]]] \subseteq {order[j] : j \in 1 .. r[i] - 1}
      BY <1>4, <3>1 DEF IsOrder
    <3>3. p \in needs[i]
      BY <2>1
    <3> QED
      BY <3>1, <3>2, <3>3
  <2>3. j \in 1 .. Len(order) /\ p \in nodes
    BY <1>5, <1>6, <2>2
  <2>4. r[p] = j
    BY <1>4, <1>6, <2>2, <2>3 DEF IsOrder
  <2> QED
    BY <1>5, <1>6, <2>2, <2>4
<1> QED
  BY <1>7, <1>8 DEF IsRank, nodes, e

LEMMA RankOfGroup ==
    ASSUME NEW e, NEW S, e \in Seq(S), NEW r, IsRank(r, e),
           NEW i \in DOMAIN e, NEW q \in DOMAIN e, q < i, e[i].group # 0, e[q].group = e[i].group
    PROVE  r[q] < r[i]
<1> DEFINE Earlier(j) == {p \in 1 .. (j - 1) : e[j].group # 0 /\ e[p].group = e[j].group}
           Wrong == {j \in DOMAIN e : \E p \in DOMAIN e : /\ p < j /\ e[j].group # 0 /\ e[p].group = e[j].group
                                                        /\ ~(r[p] < r[j])}
<1> SUFFICES ASSUME Wrong # {} PROVE FALSE
  OBVIOUS
<1>1. DOMAIN e = 1 .. Len(e) /\ Len(e) \in Nat
  OBVIOUS
<1>2. PICK j \in Wrong : \A k \in Wrong : j <= k
  <2>1. Wrong \in SUBSET Nat
    BY <1>1
  <2> HIDE DEF Wrong
  <2> QED
    BY <2>1, LeastNatural
<1>3. PICK p \in DOMAIN e : p < j /\ e[j].group # 0 /\ e[p].group = e[j].group /\ ~(r[p] < r[j])
  BY <1>2
<1>4. j \in DOMAIN e
  BY <1>2
<1> DEFINE m == Max(Earlier(j))
<1>5. p \in Earlier(j) /\ Earlier(j) \in SUBSET (0 .. (j - 1)) /\ j - 1 \in Nat
  BY <1>1, <1>3, <1>4
<1>6. m \in Earlier(j) /\ p <= m
  <2> HIDE DEF Earlier
  <2> QED
    BY <1>5, MaxOf
<1>7. m \in WaitsFor(e, j)
  <2>1. Earlier(j) # {}
    BY <1>5
  <2> QED
    BY <2>1 DEF WaitsFor
<1> HIDE DEF m
<1>8. r[m] < r[j] /\ m \in DOMAIN e /\ m < j /\ e[m].group = e[j].group
  <2>1. m \in 1 .. (j - 1) /\ e[m].group = e[j].group
    BY <1>6
  <2>2. r[m] < r[j]
    BY <1>4, <1>7 DEF IsRank
  <2> QED
    BY <1>1, <1>4, <2>1, <2>2
<1>9. CASE p = m
  BY <1>3, <1>8, <1>9
<1>10. CASE p # m
  <2>1. p < m
    BY <1>1, <1>3, <1>6, <1>8, <1>10
  <2>2. m \notin Wrong
    BY <1>1, <1>2, <1>4, <1>8
  <2>3. r[p] < r[m]
    BY <1>3, <1>8, <2>1, <2>2
  <2>4. r[p] \in Nat /\ r[m] \in Nat /\ r[j] \in Nat
    BY <1>3, <1>4, <1>8 DEF IsRank
  <2> QED
    BY <1>3, <1>8, <2>3, <2>4
<1> QED
  BY <1>9, <1>10

-----------------------------------------------------------------------------
(* The invariant of builds.                                                *)

States == {"waiting", "running", "cancelling"} \cup Ended

\* A step that had its turn.
Taken(b, key) == state[b][key] \in {"running", "cancelling", "passed", "failed"}

BuildsTyped ==
    /\ IsFiniteSet(Builds) /\ \A b \in Builds : IsFlat(flat[b])
    /\ pipeline = [b \in Builds |-> pipeline[b]] /\ state = [b \in Builds |-> state[b]]
    /\ \A b \in Builds : state[b] \in [Keys(b) \cup {Importer} -> States]
    /\ \A b \in Builds : state[b][Importer] \in {"running", "passed", "failed"}

UploadedWhole ==
    /\ \A b \in Builds : pipeline[b] = <<>> \/ (pipeline[b] = Emission(flat[b]) /\ Accepted(flat[b]))
    /\ uploads \in Seq(Builds)
    /\ \A i, j \in DOMAIN uploads : uploads[i] = uploads[j] => i = j
    /\ \A b \in Builds : pipeline[b] # <<>> <=> \E i \in DOMAIN uploads : uploads[i] = b

\* Who had a turn had what it depends on, and in a group with one slot nobody
\* before it was left; what else has ended was unreachable, or cancelled by
\* its group.
StepsInTurn ==
    \A b \in Builds : \A key \in Keys(b) :
        /\ Taken(b, key) => Met(b, key) /\ (StepOf(b, key).limit = 1 => Ahead(b, key) = {})
        /\ state[b][key] = "broken" => Unreachable(b, key)
        /\ state[b][key] \in {"cancelling", "cancelled"} => OptsIn(StepOf(b, key).group)

BuildInv == BuildsTyped /\ UploadedWhole /\ StepsInTurn

LEMMA StepsOfBuild ==
    ASSUME BuildsTyped, UploadedWhole, NEW b \in Builds
    PROVE  /\ pipeline[b] \in Seq(AllSteps(flat[b]))
           /\ \A s, u \in ToSet(pipeline[b]) : s.key = u.key => s = u
           /\ \A key \in Keys(b) :
                /\ Place(b, key) \in DOMAIN pipeline[b] /\ pipeline[b][Place(b, key)].key = key
                /\ StepOf(b, key) = pipeline[b][Place(b, key)]
                /\ StepOf(b, key) \in AllSteps(flat[b]) /\ StepOf(b, key).key = key
                /\ pipeline[b] = Emission(flat[b]) /\ Accepted(flat[b])
           /\ \A i \in DOMAIN pipeline[b] : pipeline[b][i].key \in Keys(b) /\ StepOf(b, pipeline[b][i].key) = pipeline[b][i]
<1> DEFINE e == pipeline[b]
<1>1. e \in Seq(AllSteps(flat[b]))
  <2>1. CASE e = <<>>
    BY <2>1
  <2>2. CASE e # <<>>
    <3>1. e = Emission(flat[b]) /\ IsFlat(flat[b]) /\ Acyclic(flat[b].instances, flat[b].instanceNeeds)
      BY <2>2 DEF BuildsTyped, UploadedWhole, Accepted
    <3> HIDE DEF e
    <3> QED
      BY <3>1, EmissionIs
  <2> QED
    BY <2>1, <2>2
<1>2. ToSet(e) = {e[i] : i \in DOMAIN e} /\ ToSet(e) \subseteq AllSteps(flat[b])
  BY <1>1 DEF ToSet
<1>3. \A s, u \in ToSet(e) : s.key = u.key => s = u
  BY <1>2, SameKey
<1>4. \A i \in DOMAIN e : e[i].key \in Keys(b) /\ StepOf(b, e[i].key) = e[i]
  <2> TAKE i \in DOMAIN e
  <2>1. e[i] \in ToSet(e)
    BY <1>2
  <2>2. e[i].key \in Keys(b)
    BY DEF Keys
  <2>3. StepOf(b, e[i].key) \in ToSet(e) /\ StepOf(b, e[i].key).key = e[i].key
    BY <2>1 DEF StepOf
  <2> QED
    BY <1>3, <2>1, <2>2, <2>3
<1>5. ASSUME NEW key \in Keys(b)
      PROVE  /\ Place(b, key) \in DOMAIN e /\ e[Place(b, key)].key = key
             /\ e = Emission(flat[b]) /\ Accepted(flat[b])
  <2>1. PICK i \in DOMAIN e : e[i].key = key
    BY DEF Keys
  <2>2. e # <<>>
    BY <2>1
  <2> QED
    BY <2>1, <2>2 DEF Place, UploadedWhole
<1>6. ASSUME NEW key \in Keys(b)
      PROVE  /\ StepOf(b, key) = e[Place(b, key)] /\ StepOf(b, key) \in AllSteps(flat[b]) /\ StepOf(b, key).key = key
  <2>1. StepOf(b, e[Place(b, key)].key) = e[Place(b, key)]
    BY <1>4, <1>5
  <2>2. e[Place(b, key)] \in AllSteps(flat[b])
    BY <1>2, <1>5
  <2> HIDE DEF e
  <2> QED
    BY <1>5, <2>1, <2>2
<1> QED
  BY <1>1, <1>3, <1>4, <1>5, <1>6

\* What a step depends on is in its pipeline, or is the importer.
LEMMA DependenciesInBuild ==
    ASSUME BuildsTyped, UploadedWhole, NEW b \in Builds, NEW key \in Keys(b),
           NEW d \in StepOf(b, key).strict \cup StepOf(b, key).lenient
    PROVE  d \in Keys(b) \cup {Importer}
<1>1. /\ StepOf(b, key) \in AllSteps(flat[b]) /\ pipeline[b] = Emission(flat[b])
      /\ IsFlat(flat[b]) /\ Acyclic(flat[b].instances, flat[b].instanceNeeds)
  BY StepsOfBuild DEF BuildsTyped, Accepted
<1>2. CASE d = Importer
  BY <1>2
<1>3. CASE d # Importer
  <2>1. PICK u \in AllSteps(flat[b]) : u.key = d
    BY <1>1, <1>3, PrerequisitesEmitted
  <2>2. PICK q \in DOMAIN Emission(flat[b]) : Emission(flat[b])[q] = u
    BY <1>1, AllEmitted
  <2> QED
    BY <1>1, <2>1, <2>2 DEF Keys
<1> QED
  BY <1>2, <1>3

LEMMA InstancesInBuild ==
    ASSUME BuildsTyped, UploadedWhole, NEW b \in Builds, pipeline[b] # <<>>, NEW k \in flat[b].instances
    PROVE  JobStep(k) \in Keys(b)
<1>1. /\ pipeline[b] = Emission(flat[b]) /\ IsFlat(flat[b])
      /\ Acyclic(flat[b].instances, flat[b].instanceNeeds)
  BY DEF BuildsTyped, UploadedWhole, Accepted
<1>2. StepOfJob(flat[b], k) \in AllSteps(flat[b]) /\ StepOfJob(flat[b], k).key = JobStep(k)
  BY <1>1, InstancesEmitted, StepsAre DEF AllSteps
<1>3. PICK q \in DOMAIN Emission(flat[b]) : Emission(flat[b])[q] = StepOfJob(flat[b], k)
  BY <1>1, <1>2, AllEmitted
<1> QED
  BY <1>1, <1>2, <1>3 DEF Keys

LEMMA ImporterNoKey ==
    ASSUME BuildsTyped, UploadedWhole, NEW b \in Builds
    PROVE  Importer \notin Keys(b)
<1>1. \A key \in Keys(b) : StepOf(b, key) \in AllSteps(flat[b]) /\ StepOf(b, key).key = key
  BY StepsOfBuild
<1>2. \A s \in AllSteps(flat[b]) : s.key # Importer
  BY StepsAre, KeysDiffer DEF AllSteps
<1> QED
  BY <1>1, <1>2

-----------------------------------------------------------------------------
(* All actions but Upload move one step.                                   *)

Moved(b, key, value) ==
    /\ SetState(b, key, value) /\ UNCHANGED <<flat, pipeline, uploads>>
    /\ \/ key = Importer /\ state[b][key] = "running" /\ value \in {"passed", "failed"}
       \/ /\ key \in Keys(b)
          /\ \/ state[b][key] = "waiting" /\ Unreachable(b, key) /\ value = "broken"
             \/ state[b][key] = "waiting" /\ Met(b, key) /\ HasTurn(b, key) /\ value \in {"passed", "failed", "running"}
             \/ OptsIn(StepOf(b, key).group) /\ state[b][key] = "waiting" /\ value = "cancelled"
             \/ OptsIn(StepOf(b, key).group) /\ state[b][key] = "running" /\ value = "cancelling"
             \/ state[b][key] = "running" /\ value \in {"passed", "failed"}
             \/ state[b][key] = "cancelling" /\ value = "cancelled"

LEMMA AheadAre ==
    ASSUME NEW b, NEW key, NEW e \in Ahead(b, key)
    PROVE  /\ StepOf(b, key).group # 0
           /\ e[1] \in Builds /\ e[2] \in Keys(e[1]) /\ state[e[1]][e[2]] \notin Ended
           /\ StepOf(e[1], e[2]).group = StepOf(b, key).group /\ Precedes(e[1], e[2], b, key)
BY DEF Ahead

LEMMA CancelMoves ==
    ASSUME BuildsTyped, UploadedWhole, NEW b \in Builds, NEW key \in Keys(b), NEW e \in Ahead(b, key),
           CancelBlocker(b, key, e)
    PROVE  \E c \in Builds : \E k, value : Moved(c, k, value)
<1> DEFINE c == e[1]
           k == e[2]
<1>1. /\ c \in Builds /\ k \in Keys(c) /\ state[c][k] \notin Ended /\ state[c][k] # "cancelling"
      /\ StepOf(c, k).group = StepOf(b, key).group
  BY AheadAre DEF CancelBlocker
<1>2. OptsIn(StepOf(c, k).group)
  <2>1. Place(b, key) \in DOMAIN pipeline[b] /\ StepOf(b, key) = pipeline[b][Place(b, key)]
    BY StepsOfBuild
  <2>2. StepOf(b, key).optIn
    BY DEF CancelBlocker
  <2> QED
    BY <1>1, <2>1, <2>2 DEF OptsIn
<1>3. state[c][k] \in {"waiting", "running"}
  <2>1. state[c][k] \in States
    BY <1>1 DEF BuildsTyped
  <2> QED
    BY <1>1, <2>1 DEF States
<1>4. SetState(c, k, IF state[c][k] = "running" THEN "cancelling" ELSE "cancelled") /\ UNCHANGED <<flat, pipeline, uploads>>
  BY DEF CancelBlocker
<1> HIDE DEF c, k
<1>5. CASE state[c][k] = "running"
  <2>1. Moved(c, k, "cancelling")
    BY <1>1, <1>2, <1>4, <1>5 DEF Moved
  <2> QED
    BY <1>1, <2>1
<1>6. CASE state[c][k] = "waiting"
  <2>1. Moved(c, k, "cancelled")
    BY <1>1, <1>2, <1>4, <1>6 DEF Moved
  <2> QED
    BY <1>1, <2>1
<1> QED
  BY <1>3, <1>5, <1>6

LEMMA NextMoves ==
    ASSUME BuildsTyped, UploadedWhole, Next
    PROVE  \/ \E b \in Builds : Upload(b)
           \/ \E b \in Builds : \E key, value : Moved(b, key, value)
           \/ UNCHANGED <<flat, pipeline, state, uploads>>
<1>1. CASE AllEnded
  BY <1>1 DEF AllEnded, vars
<1>2. CASE \E b \in Builds : Upload(b)
  BY <1>2
<1>3. ASSUME NEW b \in Builds, NEW ending \in {"passed", "failed"}, ImporterEnds(b, ending)
      PROVE  Moved(b, Importer, ending)
  BY <1>3 DEF ImporterEnds, Moved, SetState
<1>4. ASSUME NEW b \in Builds, NEW key \in Keys(b), StepAction(b, key)
      PROVE  \E c \in Builds : \E k, value : Moved(c, k, value)
  <2>1. CASE Break(b, key)
    <3>1. Moved(b, key, "broken")
      BY <2>1 DEF Break, Moved
    <3> QED
      BY <3>1
  <2>2. ASSUME NEW ending \in {"passed", "failed"}, RunMarker(b, key, ending)
        PROVE  Moved(b, key, ending)
    BY <2>2 DEF RunMarker, Moved
  <2>3. CASE StartJob(b, key)
    <3>1. Moved(b, key, "running")
      BY <2>3 DEF StartJob, Moved
    <3> QED
      BY <3>1
  <2>4. CASE \E blocker \in Ahead(b, key) : CancelBlocker(b, key, blocker)
    BY <2>4, CancelMoves
  <2> QED
    BY <1>4, <2>1, <2>2, <2>3, <2>4 DEF StepAction
<1>5. ASSUME NEW b \in Builds, NEW key \in flat[b].instances, pipeline[b] # <<>>, JobAction(b, key)
      PROVE  \E k, value : Moved(b, k, value)
  <2>1. JobStep(key) \in Keys(b)
    BY <1>5, InstancesInBuild
  <2>2. CASE FailHydration(b, key) \/ LoseJob(b, key)
    <3>1. Moved(b, JobStep(key), "failed")
      BY <2>1, <2>2 DEF FailHydration, LoseJob, Moved
    <3> QED
      BY <3>1
  <2>3. CASE SkipJob(b, key)
    <3>1. Moved(b, JobStep(key), "passed")
      BY <2>1, <2>3 DEF SkipJob, Moved
    <3> QED
      BY <3>1
  <2>4. ASSUME NEW ending \in {"success", "failure"}, RunJob(b, key, ending)
        PROVE  Moved(b, JobStep(key), IF ending = "success" THEN "passed" ELSE "failed")
    BY <2>1, <2>4 DEF RunJob, Moved
  <2>5. ASSUME NEW ending \in {"cancelled", "none"}, EndCancelledJob(b, key, ending)
        PROVE  Moved(b, JobStep(key), "cancelled")
    BY <2>1, <2>5 DEF EndCancelledJob, Moved
  <2> QED
    BY <1>5, <2>2, <2>3, <2>4, <2>5 DEF JobAction
<1> QED
  BY <1>1, <1>2, <1>3, <1>4, <1>5 DEF Next

-----------------------------------------------------------------------------
\* What a move of one step leaves behind.
LEMMA MovedIs ==
    ASSUME BuildsTyped, UploadedWhole, NEW b \in Builds, NEW key, NEW value, Moved(b, key, value)
    PROVE  /\ key \in Keys(b) \cup {Importer} /\ value \in States
           /\ Builds' = Builds /\ flat' = flat /\ pipeline' = pipeline /\ uploads' = uploads
           /\ \A c \in Builds : \A k \in Keys(c) \cup {Importer} :
                state'[c][k] = IF c = b /\ k = key THEN value ELSE state[c][k]
           /\ state' = [c \in Builds |-> state'[c]]
           /\ \A c \in Builds : state'[c] \in [Keys(c) \cup {Importer} -> States]
<1>1. key \in Keys(b) \cup {Importer} /\ value \in States
  BY DEF Moved, States, Ended
<1>2. flat' = flat /\ pipeline' = pipeline /\ uploads' = uploads
  BY DEF Moved
<1>3. Builds' = Builds
  BY <1>2 DEF Builds
<1>4. state' = [state EXCEPT ![b][key] = value]
  BY DEF Moved, SetState
<1>5. /\ DOMAIN state = Builds
      /\ \A c \in Builds : state[c] \in [Keys(c) \cup {Importer} -> States]
  BY DEF BuildsTyped
<1>6. state' = [c \in Builds |-> state'[c]]
  BY <1>4, <1>5
<1>7. ASSUME NEW c \in Builds
      PROVE  state'[c] = IF c = b THEN [state[b] EXCEPT ![key] = value] ELSE state[c]
  BY <1>4, <1>5
<1>8. ASSUME NEW c \in Builds
      PROVE  /\ state'[c] \in [Keys(c) \cup {Importer} -> States]
             /\ \A k \in Keys(c) \cup {Importer} :
                  state'[c][k] = IF c = b /\ k = key THEN value ELSE state[c][k]
  <2>1. CASE c = b
    <3>1. state'[c] = [state[c] EXCEPT ![key] = value]
      BY <1>7, <2>1
    <3>2. state[c] \in [Keys(c) \cup {Importer} -> States] /\ key \in Keys(c) \cup {Importer}
      BY <1>1, <1>5, <2>1
    <3> HIDE DEF Importer
    <3> QED
      BY <1>1, <2>1, <3>1, <3>2
  <2>2. CASE c # b
    BY <1>5, <1>7, <2>2
  <2> QED
    BY <2>1, <2>2
<1> QED
  BY <1>1, <1>2, <1>3, <1>6, <1>8

LEMMA MovedKeeps ==
    ASSUME BuildsTyped, UploadedWhole, NEW b \in Builds, NEW key, NEW value, Moved(b, key, value)
    PROVE  \A c \in Builds : \A k \in Keys(c) \cup {Importer} :
             /\ state[c][k] = "passed" => state'[c][k] = "passed"
             /\ state[c][k] \in Ended => state'[c][k] = state[c][k]
<1>1. state[b][key] \in {"waiting", "running", "cancelling"}
  BY DEF Moved
<1> QED
  BY <1>1, MovedIs DEF Ended

LEMMA MovedTyped ==
    ASSUME BuildsTyped, UploadedWhole, NEW b \in Builds, NEW key, NEW value, Moved(b, key, value)
    PROVE  BuildsTyped' /\ UploadedWhole'
<1>1. /\ Builds' = Builds /\ flat' = flat /\ pipeline' = pipeline /\ uploads' = uploads
      /\ \A c \in Builds : Keys(c)' = Keys(c)
  BY MovedIs DEF Keys
<1>2. \A c \in Builds : state'[c][Importer] \in {"running", "passed", "failed"}
  <2> TAKE c \in Builds
  <2>1. key = Importer => value \in {"passed", "failed"}
    BY ImporterNoKey DEF Moved
  <2>2. state'[c][Importer] = IF c = b /\ Importer = key THEN value ELSE state[c][Importer]
    BY MovedIs
  <2>3. state[c][Importer] \in {"running", "passed", "failed"}
    BY DEF BuildsTyped
  <2> QED
    BY <2>1, <2>2, <2>3
<1>3. UploadedWhole'
  BY <1>1 DEF UploadedWhole
<1>4. BuildsTyped'
  BY <1>1, <1>2, MovedIs DEF BuildsTyped
<1> QED
  BY <1>3, <1>4

LEMMA ImageFinite ==
    ASSUME NEW f, IsFiniteSet(DOMAIN f)
    PROVE  IsFiniteSet({f[x] : x \in DOMAIN f})
<1> DEFINE T == {f[x] : x \in DOMAIN f}
           h == [x \in DOMAIN f |-> f[x]]
<1>1. h \in Surjection(DOMAIN f, T)
  BY DEF Surjection
<1> QED
  BY <1>1, FS_Surjection

LEMMA AheadFinite ==
    ASSUME BuildsTyped, UploadedWhole, NEW b, NEW key
    PROVE  IsFiniteSet(Ahead(b, key))
<1> DEFINE All == UNION {Keys(c) : c \in Builds}
<1>1. ASSUME NEW c \in Builds PROVE IsFiniteSet(Keys(c))
  <2>1. pipeline[c] \in Seq(AllSteps(flat[c]))
    BY StepsOfBuild
  <2>2. IsFiniteSet(DOMAIN pipeline[c])
    <3>1. DOMAIN pipeline[c] = 1 .. Len(pipeline[c]) /\ Len(pipeline[c]) \in Nat
      BY <2>1
    <3> QED
      BY <3>1, FS_Interval
  <2> DEFINE f == [i \in DOMAIN pipeline[c] |-> pipeline[c][i].key]
  <2>3. IsFiniteSet({f[i] : i \in DOMAIN f})
    BY <2>2, ImageFinite
  <2> QED
    BY <2>3 DEF Keys
<1>2. IsFiniteSet(All)
  <2>1. IsFiniteSet({Keys(c) : c \in Builds})
    <3>1. IsFiniteSet(Builds)
      BY DEF BuildsTyped
    <3> DEFINE f == [c \in Builds |-> Keys(c)]
    <3>2. IsFiniteSet({f[c] : c \in DOMAIN f})
      BY <3>1, ImageFinite
    <3> QED
      BY <3>2
  <2> QED
    BY <1>1, <2>1, FS_UNION
<1>3. IsFiniteSet(Builds \X All)
  BY <1>2, FS_Product DEF BuildsTyped
<1>4. Ahead(b, key) \subseteq Builds \X All
  BY DEF Ahead
<1> QED
  BY <1>3, <1>4, FS_Subset

LEMMA TurnAlone ==
    ASSUME BuildsTyped, UploadedWhole, NEW b, NEW key, HasTurn(b, key), StepOf(b, key).limit = 1
    PROVE  Ahead(b, key) = {}
<1>1. CASE StepOf(b, key).group = 0
  BY <1>1 DEF Ahead
<1>2. CASE StepOf(b, key).group # 0
  <2>1. Cardinality(Ahead(b, key)) < 1
    BY <1>2 DEF HasTurn
  <2>2. IsFiniteSet(Ahead(b, key))
    BY AheadFinite
  <2> QED
    BY <2>1, <2>2, FS_CardinalityType, FS_EmptySet
<1> QED
  BY <1>1, <1>2

\* Nothing that a step has come past returns.
LEMMA MovedLasts ==
    ASSUME BuildsTyped, UploadedWhole, NEW b \in Builds, NEW key, NEW value, Moved(b, key, value),
           NEW c \in Builds, NEW k \in Keys(c)
    PROVE  /\ StepOf(c, k)' = StepOf(c, k)
           /\ Met(c, k) => Met(c, k)'
           /\ Unreachable(c, k) => Unreachable(c, k)'
           /\ Ahead(c, k)' \subseteq Ahead(c, k)
           /\ \A g : OptsIn(g)' = OptsIn(g)
<1>1. /\ Builds' = Builds /\ pipeline' = pipeline /\ uploads' = uploads
      /\ \A d \in Builds : Keys(d)' = Keys(d)
  BY MovedIs DEF Keys
<1>2. \A d, l : StepOf(d, l)' = StepOf(d, l) /\ Place(d, l)' = Place(d, l)
  BY <1>1 DEF StepOf, Place
<1>3. \A d, e, l, m : Precedes(d, l, e, m)' = Precedes(d, l, e, m)
  BY <1>1, <1>2 DEF Precedes, UploadedBefore
<1>4. \A d \in StepOf(c, k).strict \cup StepOf(c, k).lenient :
        /\ state[c][d] = "passed" => state'[c][d] = "passed"
        /\ state[c][d] \in Ended => state'[c][d] = state[c][d]
  BY DependenciesInBuild, MovedKeeps
<1>5. Ahead(c, k)' \subseteq Ahead(c, k)
  <2>1. \A d \in Builds : \A l \in Keys(d) : state'[d][l] \notin Ended => state[d][l] \notin Ended
    BY MovedKeeps
  <2> QED
    BY <1>1, <1>2, <1>3, <2>1 DEF Ahead
<1>6. \A g : OptsIn(g)' = OptsIn(g)
  BY <1>1 DEF OptsIn
<1>7. Met(c, k) => Met(c, k)'
  BY <1>2, <1>4 DEF Met
<1>8. Unreachable(c, k) => Unreachable(c, k)'
  BY <1>2, <1>4 DEF Unreachable
<1> QED
  BY <1>2, <1>5, <1>6, <1>7, <1>8

LEMMA MovedInTurn ==
    ASSUME BuildInv, NEW b \in Builds, NEW key, NEW value, Moved(b, key, value)
    PROVE  BuildInv'
<1> USE DEF BuildInv
<1>1. BuildsTyped' /\ UploadedWhole'
  BY MovedTyped
<1>2. ASSUME NEW c \in Builds, NEW k \in Keys(c)
      PROVE  /\ Taken(c, k)' => Met(c, k)' /\ (StepOf(c, k)'.limit = 1 => Ahead(c, k)' = {})
             /\ state'[c][k] = "broken" => Unreachable(c, k)'
             /\ state'[c][k] \in {"cancelling", "cancelled"} => OptsIn(StepOf(c, k).group)'
  <2>1. /\ StepOf(c, k)' = StepOf(c, k)
        /\ Met(c, k) => Met(c, k)'
        /\ Unreachable(c, k) => Unreachable(c, k)'
        /\ Ahead(c, k)' \subseteq Ahead(c, k)
        /\ OptsIn(StepOf(c, k).group)' = OptsIn(StepOf(c, k).group)
    BY MovedLasts
  <2>2. /\ Taken(c, k) => Met(c, k) /\ (StepOf(c, k).limit = 1 => Ahead(c, k) = {})
        /\ state[c][k] = "broken" => Unreachable(c, k)
        /\ state[c][k] \in {"cancelling", "cancelled"} => OptsIn(StepOf(c, k).group)
    BY DEF StepsInTurn
  <2>3. CASE ~(c = b /\ k = key)
    <3>1. state'[c][k] = state[c][k]
      BY <2>3, MovedIs
    <3> QED
      BY <2>1, <2>2, <3>1 DEF Taken
  <2>4. CASE c = b /\ k = key
    <3>1. state'[c][k] = value /\ k # Importer
      BY <2>4, MovedIs, ImporterNoKey
    <3>2. CASE state[c][k] = "waiting" /\ Unreachable(c, k) /\ value = "broken"
      BY <2>1, <3>1, <3>2 DEF Taken
    <3>3. CASE state[c][k] = "waiting" /\ Met(c, k) /\ HasTurn(c, k) /\ value \in {"passed", "failed", "running"}
      BY <2>1, <3>1, <3>3, TurnAlone DEF Taken
    <3>4. CASE OptsIn(StepOf(c, k).group) /\ state[c][k] = "waiting" /\ value = "cancelled"
      BY <2>1, <3>1, <3>4 DEF Taken
    <3>5. CASE OptsIn(StepOf(c, k).group) /\ state[c][k] = "running" /\ value = "cancelling"
      BY <2>1, <2>2, <3>1, <3>5 DEF Taken
    <3>6. CASE state[c][k] = "running" /\ value \in {"passed", "failed"}
      BY <2>1, <2>2, <3>1, <3>6 DEF Taken
    <3>7. CASE state[c][k] = "cancelling" /\ value = "cancelled"
      BY <2>1, <2>2, <3>1, <3>7 DEF Taken
    <3> QED
      BY <2>4, <3>1, <3>2, <3>3, <3>4, <3>5, <3>6, <3>7 DEF Moved
  <2> QED
    BY <2>3, <2>4
<1>3. Builds' = Builds /\ \A c \in Builds : Keys(c)' = Keys(c)
  BY MovedIs DEF Keys
<1>4. StepsInTurn'
  BY <1>2, <1>3 DEF StepsInTurn
<1> QED
  BY <1>1, <1>4

-----------------------------------------------------------------------------
\* What an upload leaves behind.
LEMMA UploadIs ==
    ASSUME BuildsTyped, UploadedWhole, NEW b \in Builds, Upload(b)
    PROVE  /\ Builds' = Builds /\ flat' = flat /\ uploads' = Append(uploads, b)
           /\ pipeline[b] = <<>> /\ Keys(b) = {} /\ Emission(flat[b]) # <<>>
           /\ \A i \in DOMAIN uploads : uploads[i] # b
           /\ pipeline' = [c \in Builds |-> IF c = b THEN Emission(flat[b]) ELSE pipeline[c]]
           /\ \A c \in Builds : Keys(c)' = {pipeline'[c][i].key : i \in DOMAIN pipeline'[c]}
           /\ state' = [c \in Builds |-> state'[c]]
           /\ \A c \in Builds : c # b => state'[c] = state[c]
           /\ \A k \in Keys(b)' : state'[b][k] = "waiting"
           /\ state'[b][Importer] = "running"
           /\ state'[b] \in [Keys(b)' \cup {Importer} -> States]
<1> DEFINE steps == Emission(flat[b])
           K == {steps[i].key : i \in DOMAIN steps}
<1>1. Builds' = Builds /\ flat' = flat /\ uploads' = Append(uploads, b)
  BY DEF Upload, Builds
<1>2. Keys(b) = {}
  <2>1. DOMAIN state[b] = Keys(b) \cup {Importer}
    BY DEF BuildsTyped
  <2>2. DOMAIN state[b] = {Importer}
    BY DEF Upload, Started
  <2> QED
    BY <2>1, <2>2, ImporterNoKey
<1>3. pipeline[b] = <<>>
  <2>1. pipeline[b] \in Seq(AllSteps(flat[b]))
    BY StepsOfBuild
  <2>2. DOMAIN pipeline[b] = {}
    BY <1>2 DEF Keys
  <2>3. Len(pipeline[b]) = 0
    <3>1. DOMAIN pipeline[b] = 1 .. Len(pipeline[b]) /\ Len(pipeline[b]) \in Nat
      BY <2>1
    <3>2. ASSUME Len(pipeline[b]) # 0 PROVE 1 \in DOMAIN pipeline[b]
      BY <3>1, <3>2
    <3> QED
      BY <2>2, <3>2
  <2> QED
    BY <2>1, <2>3
<1>4. \A i \in DOMAIN uploads : uploads[i] # b
  BY <1>3 DEF UploadedWhole
<1>5. IsFlat(flat[b]) /\ Acyclic(flat[b].instances, flat[b].instanceNeeds)
  BY DEF BuildsTyped, Upload, Accepted
<1>6. steps # <<>>
  <2>1. PICK k \in flat[b].instances : TRUE
    BY <1>5 DEF IsFlat
  <2>2. StepOfJob(flat[b], k) \in AllSteps(flat[b])
    BY <1>5, <2>1, InstancesEmitted DEF AllSteps
  <2> QED
    BY <1>5, <2>2, AllEmitted
<1>7. pipeline' = [c \in Builds |-> IF c = b THEN steps ELSE pipeline[c]]
  <2>1. pipeline = [c \in Builds |-> pipeline[c]] /\ pipeline' = [pipeline EXCEPT ![b] = steps]
    BY DEF Upload, BuildsTyped
  <2> HIDE DEF steps
  <2> QED
    BY <2>1
<1>8. \A c \in Builds : Keys(c)' = {pipeline'[c][i].key : i \in DOMAIN pipeline'[c]}
  BY DEF Keys
<1>9. Keys(b)' = K
  BY <1>7 DEF Keys
<1>10. state' = [state EXCEPT ![b] = [k \in K \cup {Importer} |-> IF k = Importer THEN "running" ELSE "waiting"]]
  BY DEF Upload
<1> HIDE DEF K, steps
<1>11. state' = [c \in Builds |-> state'[c]] /\ \A c \in Builds : c # b => state'[c] = state[c]
  BY <1>10 DEF BuildsTyped
<1>12. state'[b] = [k \in K \cup {Importer} |-> IF k = Importer THEN "running" ELSE "waiting"]
  BY <1>10 DEF BuildsTyped
<1>13. Importer \notin K
  <2>1. ASSUME NEW i \in DOMAIN steps PROVE steps[i].key # Importer
    <3>1. steps[i] \in AllSteps(flat[b])
      BY <1>5, EmissionIs DEF steps
    <3> QED
      BY <3>1, StepsAre, KeysDiffer DEF AllSteps
  <2> QED
    BY <2>1 DEF K
<1>14. /\ \A k \in K : state'[b][k] = "waiting"
       /\ state'[b][Importer] = "running"
       /\ state'[b] \in [K \cup {Importer} -> States]
  BY <1>12, <1>13 DEF States
<1> QED
  BY <1>1, <1>2, <1>3, <1>4, <1>6, <1>7, <1>8, <1>9, <1>11, <1>14 DEF steps

LEMMA UploadTyped ==
    ASSUME BuildsTyped, UploadedWhole, NEW b \in Builds, Upload(b)
    PROVE  BuildsTyped' /\ UploadedWhole'
<1> DEFINE new == Emission(flat[b])
<1>0. pipeline' = [c \in Builds |-> IF c = b THEN new ELSE pipeline[c]] /\ new # <<>>
  BY UploadIs
<1> HIDE DEF new
<1>1. pipeline'[b] = new /\ \A c \in Builds : c # b => pipeline'[c] = pipeline[c] /\ Keys(c)' = Keys(c)
  BY <1>0 DEF Keys
<1>2. \A c \in Builds : state'[c] \in [Keys(c)' \cup {Importer} -> States]
  <2> TAKE c \in Builds
  <2>1. CASE c = b
    BY <2>1, UploadIs
  <2>2. CASE c # b
    BY <1>1, <2>2, UploadIs, ZenonT(40) DEF BuildsTyped
  <2> QED
    BY <2>1, <2>2
<1>3. \A c \in Builds : state'[c][Importer] \in {"running", "passed", "failed"}
  BY UploadIs DEF BuildsTyped
<1>4. BuildsTyped'
  <2>1. pipeline' = [c \in Builds |-> pipeline'[c]]
    BY UploadIs
  <2> QED
    BY <1>2, <1>3, <2>1, UploadIs DEF BuildsTyped
<1>5. uploads \in Seq(Builds) /\ uploads' = Append(uploads, b)
  BY UploadIs DEF UploadedWhole
<1>6. /\ uploads' \in Seq(Builds) /\ DOMAIN uploads' = 1 .. Len(uploads) + 1
      /\ \A i \in DOMAIN uploads : i \in DOMAIN uploads' /\ uploads'[i] = uploads[i]
      /\ uploads'[Len(uploads) + 1] = b /\ Len(uploads) \in Nat /\ DOMAIN uploads = 1 .. Len(uploads)
  BY <1>5
<1>7. \A i, j \in DOMAIN uploads' : uploads'[i] = uploads'[j] => i = j
  <2> SUFFICES ASSUME NEW i \in DOMAIN uploads', NEW j \in DOMAIN uploads', uploads'[i] = uploads'[j]
               PROVE  i = j
    OBVIOUS
  <2>1. (i = Len(uploads) + 1 \/ i \in DOMAIN uploads) /\ (j = Len(uploads) + 1 \/ j \in DOMAIN uploads)
    BY <1>6
  <2>2. \A k \in DOMAIN uploads : uploads[k] # b
    BY UploadIs
  <2>3. \A k, l \in DOMAIN uploads : uploads[k] = uploads[l] => k = l
    BY DEF UploadedWhole
  <2> QED
    BY <1>6, <2>1, <2>2, <2>3
<1>8. \A c \in Builds' : pipeline'[c] # <<>> <=> \E i \in DOMAIN uploads' : uploads'[i] = c
  <2> SUFFICES ASSUME NEW c \in Builds
               PROVE  pipeline'[c] # <<>> <=> \E i \in DOMAIN uploads' : uploads'[i] = c
    BY UploadIs
  <2>1. CASE c = b
    <3>1. pipeline'[c] # <<>>
      BY <1>0, <1>1, <2>1
    <3> QED
      BY <1>6, <2>1, <3>1
  <2>2. CASE c # b
    <3>1. pipeline[c] # <<>> <=> \E i \in DOMAIN uploads : uploads[i] = c
      BY DEF UploadedWhole
    <3> QED
      BY <1>1, <1>6, <2>2, <3>1
  <2> QED
    BY <2>1, <2>2
<1>9. \A c \in Builds' : pipeline'[c] = <<>> \/ (pipeline'[c] = Emission(flat'[c]) /\ Accepted(flat'[c]))
  <2>1. Accepted(flat[b]) /\ Builds' = Builds /\ flat' = flat
    BY UploadIs DEF Upload
  <2>2. pipeline'[b] = Emission(flat[b])
    BY <1>1 DEF new
  <2> QED
    BY <1>1, <2>1, <2>2 DEF UploadedWhole
<1>10. UploadedWhole'
  <2>1. uploads' \in Seq(Builds')
    BY <1>6, UploadIs
  <2> QED
    BY <1>7, <1>8, <1>9, <2>1 DEF UploadedWhole
<1> QED
  BY <1>4, <1>10

\* A build that is uploaded comes after all that are.
LEMMA UploadInTurn ==
    ASSUME BuildInv, NEW b \in Builds, Upload(b)
    PROVE  BuildInv'
<1> USE DEF BuildInv
<1>1. BuildsTyped' /\ UploadedWhole'
  BY UploadTyped
<1> DEFINE new == Emission(flat[b])
<1>0. pipeline' = [c \in Builds |-> IF c = b THEN new ELSE pipeline[c]] /\ Builds' = Builds
  BY UploadIs
<1> HIDE DEF new
<1>2. Builds' = Builds /\ \A c \in Builds : c # b => pipeline'[c] = pipeline[c] /\ Keys(c)' = Keys(c) /\ state'[c] = state[c]
  <2>1. \A c \in Builds : c # b => state'[c] = state[c]
    BY UploadIs
  <2> QED
    BY <1>0, <2>1 DEF Keys
<1>3. ASSUME NEW c \in Builds, NEW d \in Builds, d # b, UploadedBefore(c, d)'
      PROVE  c # b /\ UploadedBefore(c, d)
  <2>1. PICK i \in DOMAIN uploads', j \in DOMAIN uploads' : i < j /\ uploads'[i] = c /\ uploads'[j] = d
    BY <1>3 DEF UploadedBefore
  <2>2. uploads \in Seq(Builds) /\ uploads' = Append(uploads, b)
    BY UploadIs DEF UploadedWhole
  <2>3. j # Len(uploads) + 1
    BY <1>3, <2>1, <2>2
  <2>4. i \in DOMAIN uploads /\ j \in DOMAIN uploads /\ uploads[i] = c /\ uploads[j] = d
    BY <2>1, <2>2, <2>3
  <2>5. uploads[i] # b
    BY <2>4, UploadIs
  <2>6. UploadedBefore(c, d)
    BY <2>1, <2>4 DEF UploadedBefore
  <2> QED
    BY <2>4, <2>5, <2>6
<1>4. ASSUME NEW g, OptsIn(g)
      PROVE  OptsIn(g)'
  <2>1. PICK c \in Builds : \E i \in DOMAIN pipeline[c] : pipeline[c][i].group = g /\ pipeline[c][i].optIn
    BY <1>4 DEF OptsIn
  <2>2. c # b
    <3>1. pipeline[b] = <<>>
      BY UploadIs
    <3> QED
      BY <2>1, <3>1
  <2> QED
    BY <1>2, <2>1, <2>2 DEF OptsIn
<1>5. ASSUME NEW c \in Builds, NEW k \in Keys(c)'
      PROVE  /\ Taken(c, k)' => Met(c, k)' /\ (StepOf(c, k)'.limit = 1 => Ahead(c, k)' = {})
             /\ state'[c][k] = "broken" => Unreachable(c, k)'
             /\ state'[c][k] \in {"cancelling", "cancelled"} => OptsIn(StepOf(c, k).group)'
  <2>1. CASE c = b
    <3>1. state'[c][k] = "waiting"
      BY <2>1, UploadIs, ZenonT(40)
    <3> QED
      BY <3>1 DEF Taken
  <2>2. CASE c # b
    <3>1. k \in Keys(c) /\ state'[c] = state[c] /\ pipeline'[c] = pipeline[c]
      BY <1>2, <2>2
    <3>2. /\ Taken(c, k) => Met(c, k) /\ (StepOf(c, k).limit = 1 => Ahead(c, k) = {})
          /\ state[c][k] = "broken" => Unreachable(c, k)
          /\ state[c][k] \in {"cancelling", "cancelled"} => OptsIn(StepOf(c, k).group)
      BY <3>1 DEF StepsInTurn
    <3>3. StepOf(c, k)' = StepOf(c, k) /\ \A l : Place(c, l)' = Place(c, l)
      BY <3>1 DEF StepOf, Place
    <3>4. Met(c, k) => Met(c, k)'
      BY <3>1, <3>3 DEF Met
    <3>5. Unreachable(c, k) => Unreachable(c, k)'
      BY <3>1, <3>3 DEF Unreachable
    <3>6. ASSUME NEW e \in Ahead(c, k)'
          PROVE  e \in Ahead(c, k)
      <4>0. PICK d \in Builds : \E l :
                /\ l \in Keys(d)' /\ e = <<d, l>> /\ state'[d][l] \notin Ended
                /\ StepOf(d, l)'.group = StepOf(c, k).group /\ Precedes(d, l, c, k)'
                /\ StepOf(c, k).group # 0
        BY <1>2, <3>3, <3>6 DEF Ahead
      <4>1. PICK l :
                /\ l \in Keys(d)' /\ e = <<d, l>> /\ state'[d][l] \notin Ended
                /\ StepOf(d, l)'.group = StepOf(c, k).group /\ Precedes(d, l, c, k)'
                /\ StepOf(c, k).group # 0
        BY <4>0
      <4>2. d # b /\ Precedes(d, l, c, k)
        BY <1>3, <2>2, <3>3, <4>1 DEF Precedes
      <4>3. l \in Keys(d) /\ state[d][l] \notin Ended /\ StepOf(d, l)' = StepOf(d, l)
        BY <1>2, <4>1, <4>2 DEF StepOf
      <4> QED
        BY <4>1, <4>2, <4>3 DEF Ahead
    <3>7. Taken(c, k)' => Taken(c, k)
      BY <3>1 DEF Taken
    <3> QED
      BY <1>4, <3>1, <3>2, <3>3, <3>4, <3>5, <3>6, <3>7
  <2> QED
    BY <2>1, <2>2
<1>6. StepsInTurn'
  BY <1>2, <1>5 DEF StepsInTurn
<1> QED
  BY <1>1, <1>6

LEMMA BuildInit ==
    ASSUME Init PROVE BuildInv
<1>1. PICK workflows \in Pairings : flat = [b \in DOMAIN workflows |-> Flatten(workflows[b])]
  BY DEF Init
<1>2. Builds = DOMAIN workflows
  BY <1>1 DEF Builds
<1>3. IsFiniteSet(Builds) /\ \A b \in Builds : IsFlat(flat[b])
  BY <1>1, <1>2, PairingsAssumption
<1>4. /\ pipeline = [b \in Builds |-> <<>>] /\ uploads = <<>>
      /\ state = [b \in Builds |-> [k \in {Importer} |-> "running"]]
  BY DEF Init, Started
<1>5. \A b \in Builds : Keys(b) = {}
  BY <1>4 DEF Keys
<1>6. BuildsTyped
  BY <1>3, <1>4, <1>5 DEF BuildsTyped, States
<1>7. UploadedWhole
  BY <1>4 DEF UploadedWhole
<1>8. StepsInTurn
  BY <1>5 DEF StepsInTurn
<1> QED
  BY <1>6, <1>7, <1>8 DEF BuildInv

\* In every build only whole pipelines are uploaded, and every step that had a
\* turn waited for it (the actions of Buildkite, Emit).
THEOREM BuildInvariant == Spec => []BuildInv
<1>1. Init => BuildInv
  BY BuildInit
<1>2. BuildInv /\ [Next]_vars => BuildInv'
  <2> SUFFICES ASSUME BuildInv, [Next]_vars PROVE BuildInv'
    OBVIOUS
  <2>1. CASE UNCHANGED <<flat, pipeline, state, uploads>>
    <3>1. Builds' = Builds /\ \A b : Keys(b)' = Keys(b)
      BY <2>1 DEF Builds, Keys
    <3>2. BuildsTyped' /\ UploadedWhole'
      BY <2>1, <3>1 DEF BuildInv, BuildsTyped, UploadedWhole
    <3>3. \A b, k : StepOf(b, k)' = StepOf(b, k) /\ Place(b, k)' = Place(b, k)
      BY <2>1 DEF StepOf, Place
    <3>4. \A b, k : Met(b, k)' = Met(b, k) /\ Unreachable(b, k)' = Unreachable(b, k) /\ Taken(b, k)' = Taken(b, k)
      BY <2>1, <3>3 DEF Met, Unreachable, Taken
    <3>5. \A b, k : Ahead(b, k)' = Ahead(b, k)
      <4>1. \A c, l, b, k : Precedes(c, l, b, k)' = Precedes(c, l, b, k)
        BY <2>1, <3>3 DEF Precedes, UploadedBefore
      <4>2. state' = state /\ Builds' = Builds
        BY <2>1, <3>1
      <4> TAKE b, k
      <4>3. \A x : x \in Ahead(b, k)' => x \in Ahead(b, k)
        BY <3>1, <3>3, <4>1, <4>2 DEF Ahead
      <4>4. \A x : x \in Ahead(b, k) => x \in Ahead(b, k)'
        BY <3>1, <3>3, <4>1, <4>2 DEF Ahead
      <4> QED
        BY <4>3, <4>4
    <3>6. \A g : OptsIn(g)' = OptsIn(g)
      BY <2>1, <3>1 DEF OptsIn
    <3>7. StepsInTurn'
      BY <2>1, <3>1, <3>3, <3>4, <3>5, <3>6 DEF BuildInv, StepsInTurn
    <3> QED
      BY <3>2, <3>7 DEF BuildInv
  <2>2. CASE \E b \in Builds : Upload(b)
    BY <2>2, UploadInTurn
  <2>3. CASE \E b \in Builds : \E key, value : Moved(b, key, value)
    BY <2>3, MovedInTurn
  <2>4. CASE UNCHANGED vars
    BY <2>1, <2>4 DEF vars
  <2> QED
    BY <2>1, <2>2, <2>3, <2>4, NextMoves DEF BuildInv
<1> QED
  BY <1>1, <1>2, PTL DEF Spec

-----------------------------------------------------------------------------
(* Groups are exclusive.                                                   *)

\* The steps that begin and end the use of a group by a holder.
First(x) == IF x[2] = "gate" THEN Open(x[3]) ELSE JobStep(x[3])
Final(x) == IF x[2] = "gate" THEN Close(x[3]) ELSE JobStep(x[3])

\* A gate that holds its group: the opening marker has passed, the closing one
\* waits for what runs.
LEMMA GateHolds ==
    ASSUME BuildInv, NEW b \in Builds, pipeline[b] # <<>>, NEW g, g # 0, ~OptsIn(g),
           NEW f \in {0} \cup ToSet(ReusableGates(flat[b])), flat[b].gate[f] = g,
           Running(b, IF f = 0 THEN flat[b].instances ELSE Held(flat[b], f))
    PROVE  /\ Open(f) \in Keys(b) /\ Close(f) \in Keys(b)
           /\ Taken(b, Open(f)) /\ state[b][Close(f)] \notin Ended
           /\ StepOf(b, Open(f)).limit = 1 /\ StepOf(b, Open(f)).group = g /\ StepOf(b, Close(f)).group = g
           /\ Place(b, Close(f)) = Place(b, Open(f)) + 1
<1> DEFINE w == flat[b]
<1> USE DEF BuildInv
<1>1. pipeline[b] = Emission(w) /\ IsFlat(w) /\ Acyclic(w.instances, w.instanceNeeds)
  BY DEF BuildsTyped, UploadedWhole, Accepted
<1> HIDE DEF w
<1>2. f \in Marked(w)
  BY DEF Marked, w
<1>3. PICK p \in DOMAIN Emission(w) :
              /\ p + 1 \in DOMAIN Emission(w)
              /\ Emission(w)[p] = OpenStep(w, f) /\ Emission(w)[p + 1] = CloseStep(w, f)
              /\ \A q \in DOMAIN Emission(w) :
                   /\ Emission(w)[q].key = Open(f) => q = p
                   /\ Emission(w)[q].key = Close(f) => q = p + 1
  BY <1>1, <1>2, GatePlaces
<1>4. /\ Open(f) \in Keys(b) /\ StepOf(b, Open(f)) = OpenStep(w, f)
      /\ Close(f) \in Keys(b) /\ StepOf(b, Close(f)) = CloseStep(w, f)
  BY <1>1, <1>3, StepsOfBuild, StepsAre
<1>5. Place(b, Open(f)) = p /\ Place(b, Close(f)) = p + 1
  <2>1. \A l \in Keys(b) : Place(b, l) \in DOMAIN Emission(w) /\ Emission(w)[Place(b, l)].key = l
    BY <1>1, StepsOfBuild
  <2>2. \A q \in DOMAIN Emission(w) : Emission(w)[q].key = Open(f) => q = p
    BY <1>3
  <2>3. \A q \in DOMAIN Emission(w) : Emission(w)[q].key = Close(f) => q = p + 1
    BY <1>3
  <2>4. Place(b, Open(f)) \in DOMAIN Emission(w) /\ Emission(w)[Place(b, Open(f))].key = Open(f)
    BY <1>4, <2>1
  <2>5. Place(b, Close(f)) \in DOMAIN Emission(w) /\ Emission(w)[Place(b, Close(f))].key = Close(f)
    BY <1>4, <2>1
  <2> QED
    BY <2>2, <2>3, <2>4, <2>5
<1>6. PICK k \in (IF f = 0 THEN w.instances ELSE Held(w, f)) : state[b][JobStep(k)] \in {"running", "cancelling"}
  BY DEF Running, w
<1>7. k \in w.instances /\ JobStep(k) \in Keys(b) /\ StepOf(b, JobStep(k)) = StepOfJob(w, k)
  <2>1. k \in w.instances
    BY <1>6 DEF Held
  <2>2. StepOfJob(w, k) \in AllSteps(w)
    BY <1>1, <2>1, InstancesEmitted DEF AllSteps
  <2>3. PICK q \in DOMAIN Emission(w) : Emission(w)[q] = StepOfJob(w, k)
    BY <1>1, <2>2, AllEmitted
  <2> QED
    BY <1>1, <2>1, <2>3, StepsOfBuild, StepsAre
<1>8. Open(f) \in StepOf(b, JobStep(k)).strict
  <2>1. CASE f = 0
    BY <1>7, <2>1, StepsAre DEF JobStrict, w
  <2>2. CASE f # 0
    BY <1>6, <1>7, <2>2, StepsAre DEF JobStrict, Held
  <2> QED
    BY <2>1, <2>2
<1>9. state[b][Open(f)] = "passed"
  <2>1. Met(b, JobStep(k))
    BY <1>6, <1>7 DEF StepsInTurn, Taken
  <2> QED
    BY <1>8, <2>1 DEF Met
<1>10. JobStep(k) \in StepOf(b, Close(f)).lenient
  <2>1. CASE f = 0
    <3>1. StepOf(b, Close(f)).lenient = WorkflowCloseLenient(w)
      BY <1>4, <2>1 DEF CloseStep, Step
    <3> QED
      BY <1>7, <3>1 DEF WorkflowCloseLenient
  <2>2. CASE f # 0
    <3>1. StepOf(b, Close(f)).lenient = CloseLenient(w, f)
      BY <1>4, <2>2 DEF CloseStep, Step
    <3> QED
      BY <1>6, <2>2, <3>1 DEF CloseLenient
  <2> QED
    BY <2>1, <2>2
<1>11. ~Taken(b, Close(f))
  <2>1. ~Met(b, Close(f))
    BY <1>6, <1>10 DEF Met, Ended
  <2> QED
    BY <1>4, <2>1 DEF StepsInTurn
<1>12. StepOf(b, Close(f)).group = g /\ StepOf(b, Open(f)).group = g /\ StepOf(b, Open(f)).limit = 1
  BY <1>4, StepsAre DEF w
<1>13. state[b][Close(f)] # "cancelled"
  BY <1>4, <1>12 DEF StepsInTurn
<1>14. state[b][Close(f)] # "broken"
  <2>1. ~Unreachable(b, Close(f))
    <3>1. CASE f = 0
      <4>1. StepOf(b, Close(f)).strict = {Importer} /\ StepOf(b, Open(f)).strict = {Importer}
        BY <1>4, <3>1 DEF CloseStep, OpenStep, Step
      <4>2. Met(b, Open(f))
        BY <1>4, <1>9 DEF StepsInTurn, Taken
      <4>3. state[b][Importer] = "passed"
        BY <4>1, <4>2 DEF Met
      <4> QED
        BY <4>1, <4>3 DEF Unreachable
    <3>2. CASE f # 0
      <4>1. StepOf(b, Close(f)).strict = {}
        BY <1>4, <3>2 DEF CloseStep, Step
      <4> QED
        BY <4>1 DEF Unreachable
    <3> QED
      BY <3>1, <3>2
  <2> QED
    BY <1>4, <2>1 DEF StepsInTurn
<1>15. state[b][Close(f)] \notin Ended
  BY <1>11, <1>13, <1>14 DEF Ended, Taken
<1> QED
  BY <1>4, <1>5, <1>9, <1>12, <1>15 DEF Taken

LEMMA JobHolds ==
    ASSUME BuildInv, NEW b \in Builds, pipeline[b] # <<>>, NEW g, g # 0,
           NEW k \in flat[b].instances, flat[b].group[JobOf(k)] = g, Running(b, {k})
    PROVE  /\ JobStep(k) \in Keys(b) /\ Taken(b, JobStep(k)) /\ state[b][JobStep(k)] \notin Ended
           /\ StepOf(b, JobStep(k)).limit = 1 /\ StepOf(b, JobStep(k)).group = g
<1> USE DEF BuildInv
<1>1. pipeline[b] = Emission(flat[b]) /\ IsFlat(flat[b]) /\ Acyclic(flat[b].instances, flat[b].instanceNeeds)
  BY DEF BuildsTyped, UploadedWhole, Accepted
<1>2. StepOfJob(flat[b], k) \in AllSteps(flat[b])
  BY <1>1, InstancesEmitted DEF AllSteps
<1>3. PICK q \in DOMAIN Emission(flat[b]) : Emission(flat[b])[q] = StepOfJob(flat[b], k)
  BY <1>1, <1>2, AllEmitted
<1>4. JobStep(k) \in Keys(b) /\ StepOf(b, JobStep(k)) = StepOfJob(flat[b], k)
  BY <1>1, <1>3, StepsOfBuild, StepsAre
<1>5. state[b][JobStep(k)] \in {"running", "cancelling"}
  BY DEF Running
<1> QED
  BY <1>4, <1>5, StepsAre DEF Taken, Ended, JobGroup, JobLimit

LEMMA HolderIs ==
    ASSUME BuildInv, NEW g, g # 0, ~OptsIn(g), NEW x \in Holders(g)
    PROVE  /\ x[1] \in Builds /\ x = <<x[1], x[2], x[3]>> /\ x[2] \in {"gate", "job"}
           /\ First(x) \in Keys(x[1]) /\ Final(x) \in Keys(x[1])
           /\ Taken(x[1], First(x)) /\ state[x[1]][Final(x)] \notin Ended
           /\ StepOf(x[1], First(x)).limit = 1
           /\ StepOf(x[1], First(x)).group = g /\ StepOf(x[1], Final(x)).group = g
           /\ \/ Final(x) = First(x)
              \/ Place(x[1], Final(x)) = Place(x[1], First(x)) + 1 /\ x[2] = "gate"
<1>1. PICK b \in Builds :
         /\ pipeline[b] # <<>>
         /\ \/ \E f \in {0} \cup ToSet(ReusableGates(flat[b])) :
                 /\ x = <<b, "gate", f>> /\ flat[b].gate[f] = g
                 /\ Running(b, IF f = 0 THEN flat[b].instances ELSE Held(flat[b], f))
            \/ \E k \in flat[b].instances :
                 x = <<b, "job", k>> /\ flat[b].group[JobOf(k)] = g /\ Running(b, {k})
  BY DEF Holders
<1>2. ASSUME NEW f \in {0} \cup ToSet(ReusableGates(flat[b])), x = <<b, "gate", f>>, flat[b].gate[f] = g,
             Running(b, IF f = 0 THEN flat[b].instances ELSE Held(flat[b], f))
      PROVE  First(x) = Open(f) /\ Final(x) = Close(f) /\ x[1] = b /\ x[2] = "gate" /\ x[3] = f
  BY <1>2 DEF First, Final
<1>3. ASSUME NEW k, x = <<b, "job", k>>
      PROVE  First(x) = JobStep(k) /\ Final(x) = JobStep(k) /\ x[1] = b /\ x[2] = "job" /\ x[3] = k
  BY <1>3 DEF First, Final
<1>4. ASSUME NEW f \in {0} \cup ToSet(ReusableGates(flat[b])), x = <<b, "gate", f>>, flat[b].gate[f] = g,
             Running(b, IF f = 0 THEN flat[b].instances ELSE Held(flat[b], f))
      PROVE  /\ Open(f) \in Keys(b) /\ Close(f) \in Keys(b)
             /\ Taken(b, Open(f)) /\ state[b][Close(f)] \notin Ended
             /\ StepOf(b, Open(f)).limit = 1 /\ StepOf(b, Open(f)).group = g /\ StepOf(b, Close(f)).group = g
             /\ Place(b, Close(f)) = Place(b, Open(f)) + 1
  BY <1>1, <1>4, GateHolds
<1>5. CASE \E f \in {0} \cup ToSet(ReusableGates(flat[b])) :
                 /\ x = <<b, "gate", f>> /\ flat[b].gate[f] = g
                 /\ Running(b, IF f = 0 THEN flat[b].instances ELSE Held(flat[b], f))
  <2>1. PICK f \in {0} \cup ToSet(ReusableGates(flat[b])) :
                 /\ x = <<b, "gate", f>> /\ flat[b].gate[f] = g
                 /\ Running(b, IF f = 0 THEN flat[b].instances ELSE Held(flat[b], f))
    BY <1>5
  <2>2. First(x) = Open(f) /\ Final(x) = Close(f) /\ x[1] = b /\ x[2] = "gate" /\ x[3] = f
    BY <1>2, <2>1
  <2> QED
    BY <1>4, <2>1, <2>2
<1>6. CASE \E k \in flat[b].instances :
                 x = <<b, "job", k>> /\ flat[b].group[JobOf(k)] = g /\ Running(b, {k})
  <2>1. PICK k \in flat[b].instances :
                 x = <<b, "job", k>> /\ flat[b].group[JobOf(k)] = g /\ Running(b, {k})
    BY <1>6
  <2>2. First(x) = JobStep(k) /\ Final(x) = JobStep(k) /\ x[1] = b /\ x[2] = "job" /\ x[3] = k
    BY <1>3, <2>1
  <2>3. /\ JobStep(k) \in Keys(b) /\ Taken(b, JobStep(k)) /\ state[b][JobStep(k)] \notin Ended
        /\ StepOf(b, JobStep(k)).limit = 1 /\ StepOf(b, JobStep(k)).group = g
    BY <1>1, <2>1, JobHolds, ZenonT(40)
  <2> QED
    BY <2>1, <2>2, <2>3
<1> QED
  BY <1>1, <1>5, <1>6

LEMMA HoldersAgree ==
    ASSUME BuildInv, NEW g, g # 0, ~OptsIn(g), NEW x \in Holders(g), NEW y \in Holders(g)
    PROVE  x = y
<1> USE DEF BuildInv
<1> SUFFICES ASSUME x # y PROVE FALSE
  OBVIOUS
<1>1. ASSUME NEW u \in Holders(g), NEW v \in Holders(g), Precedes(u[1], Final(u), v[1], First(v))
      PROVE  FALSE
  <2>1. /\ u[1] \in Builds /\ Final(u) \in Keys(u[1]) /\ state[u[1]][Final(u)] \notin Ended
        /\ StepOf(u[1], Final(u)).group = g
    BY HolderIs
  <2>2. /\ v[1] \in Builds /\ First(v) \in Keys(v[1]) /\ Taken(v[1], First(v))
        /\ StepOf(v[1], First(v)).limit = 1 /\ StepOf(v[1], First(v)).group = g
    BY HolderIs
  <2>3. Ahead(v[1], First(v)) = {}
    BY <2>2 DEF StepsInTurn
  <2>4. <<u[1], Final(u)>> \in Ahead(v[1], First(v))
    BY <1>1, <2>1, <2>2 DEF Ahead
  <2> QED
    BY <2>3, <2>4
<1>2. ASSUME NEW u \in Holders(g)
      PROVE  u[1] \in Builds /\ \E i \in DOMAIN uploads : uploads[i] = u[1]
  <2>1. u[1] \in Builds /\ First(u) \in Keys(u[1])
    BY HolderIs
  <2>2. pipeline[u[1]] # <<>>
    BY <2>1 DEF Keys
  <2> QED
    BY <2>1, <2>2 DEF UploadedWhole
<1>3. CASE x[1] # y[1]
  <2>1. PICK i \in DOMAIN uploads : uploads[i] = x[1]
    BY <1>2
  <2>2. PICK j \in DOMAIN uploads : uploads[j] = y[1]
    BY <1>2
  <2>3. i \in Nat /\ j \in Nat /\ i # j
    BY <1>3, <2>1, <2>2 DEF UploadedWhole
  <2>4. UploadedBefore(x[1], y[1]) \/ UploadedBefore(y[1], x[1])
    BY <2>1, <2>2, <2>3 DEF UploadedBefore
  <2> QED
    BY <1>1, <2>4 DEF Precedes
<1>4. CASE x[1] = y[1]
  <2> DEFINE b == x[1]
  <2>1. /\ b \in Builds /\ First(x) \in Keys(b) /\ First(y) \in Keys(b) /\ Final(x) \in Keys(b) /\ Final(y) \in Keys(b)
        /\ x = <<b, x[2], x[3]>> /\ y = <<b, y[2], y[3]>> /\ x[2] \in {"gate", "job"} /\ y[2] \in {"gate", "job"}
    BY <1>4, HolderIs
  <2>2. First(x) # First(y) /\ Final(x) # First(y) /\ Final(y) # First(x)
    <3>1. x[2] # y[2] \/ x[3] # y[3]
      BY <2>1
    <3> QED
      BY <2>1, <3>1, KeysDiffer DEF First, Final
  <2>3. \A k, l \in Keys(b) : k # l => Place(b, k) # Place(b, l)
    BY <2>1, StepsOfBuild
  <2>4. \A k \in Keys(b) : Place(b, k) \in Nat
    <3>1. pipeline[b] \in Seq(AllSteps(flat[b])) /\ \A k \in Keys(b) : Place(b, k) \in DOMAIN pipeline[b]
      BY <2>1, StepsOfBuild
    <3> QED
      BY <3>1
  <2>5. /\ Final(x) = First(x) \/ Place(b, Final(x)) = Place(b, First(x)) + 1
        /\ Final(y) = First(y) \/ Place(b, Final(y)) = Place(b, First(y)) + 1
    BY <1>4, HolderIs
  <2> HIDE DEF b
  <2>6. Place(b, Final(x)) < Place(b, First(y)) \/ Place(b, Final(y)) < Place(b, First(x))
    BY <2>1, <2>2, <2>3, <2>4, <2>5
  <2> QED
    BY <1>1, <1>4, <2>6 DEF Precedes, b
<1> QED
  BY <1>3, <1>4

-----------------------------------------------------------------------------
(* Nothing is stuck.                                                       *)

\* A step of an ordered group has a place for at least one.
LEMMA LimitPositive ==
    ASSUME NEW w, IsFlat(w), Acyclic(w.instances, w.instanceNeeds), NEW s \in AllSteps(w), s.group # 0
    PROVE  0 < s.limit
<1>1. ASSUME NEW k \in ToSet(OrderedJobs(w)), s = StepOfJob(w, k)
      PROVE  0 < s.limit
  <2>1. k \in w.instances /\ w.parallel[JobOf(k)] \in Nat
    BY InstancesEmitted DEF IsFlat
  <2>2. s.group = JobGroup(w, JobOf(k)) /\ s.limit = JobLimit(w, JobOf(k))
    BY <1>1, StepsAre
  <2> QED
    BY <2>1, <2>2 DEF JobGroup, JobLimit
<1>2. ASSUME NEW f, s = OpenStep(w, f) \/ s = CloseStep(w, f)
      PROVE  0 < s.limit
  BY <1>2, StepsAre
<1>3. s # ApprovalStep
  BY StepsAre
<1> QED
  BY <1>1, <1>2, <1>3 DEF AllSteps

\* The step that nothing waits before: the first of the earliest upload in the
\* order of its graph.
LEMMA FirstWaiting ==
    ASSUME BuildInv, NEW b0 \in Builds, NEW k0 \in Keys(b0), state[b0][k0] = "waiting"
    PROVE  \E b \in Builds : \E r : \E key \in Keys(b) :
             /\ state[b][key] = "waiting" /\ IsRank(r, pipeline[b])
             /\ \A c \in Builds : UploadedBefore(c, b) => \A k \in Keys(c) : state[c][k] # "waiting"
             /\ \A k \in Keys(b) : state[b][k] = "waiting" => r[Place(b, key)] <= r[Place(b, k)]
<1> USE DEF BuildInv
<1> DEFINE I == {i \in DOMAIN uploads : \E k \in Keys(uploads[i]) : state[uploads[i]][k] = "waiting"}
<1>1. uploads \in Seq(Builds)
  BY DEF UploadedWhole
<1>2. I # {} /\ I \in SUBSET Nat
  <2>1. pipeline[b0] # <<>>
    BY DEF Keys
  <2>2. PICK i \in DOMAIN uploads : uploads[i] = b0
    BY <2>1 DEF UploadedWhole
  <2>3. i \in I
    BY <2>2
  <2>4. DOMAIN uploads \subseteq Nat
    BY <1>1
  <2> QED
    BY <2>3, <2>4
<1>3. PICK i \in I : \A j \in I : i <= j
  <2> HIDE DEF I
  <2> QED
    BY <1>2, LeastNatural
<1> DEFINE b == uploads[i]
<1>4. b \in Builds /\ i \in DOMAIN uploads /\ i \in Nat
  BY <1>1, <1>3
<1>5. PICK k1 \in Keys(b) : state[b][k1] = "waiting"
  BY <1>3
<1>6. \A c \in Builds : UploadedBefore(c, b) => \A k \in Keys(c) : state[c][k] # "waiting"
  <2> SUFFICES ASSUME NEW c \in Builds, UploadedBefore(c, b), NEW k \in Keys(c), state[c][k] = "waiting"
               PROVE  FALSE
    OBVIOUS
  <2>1. PICK h \in DOMAIN uploads, j \in DOMAIN uploads : h < j /\ uploads[h] = c /\ uploads[j] = b
    BY DEF UploadedBefore
  <2>2. j = i
    BY <1>4, <2>1 DEF UploadedWhole
  <2>3. h \in I /\ h \in Nat
    BY <1>1, <2>1
  <2> QED
    BY <1>3, <1>4, <2>1, <2>2, <2>3
<1> HIDE DEF b
<1>7. pipeline[b] = Emission(flat[b]) /\ IsFlat(flat[b]) /\ QueuesAcyclic(flat[b])
  BY <1>4, <1>5, StepsOfBuild DEF BuildsTyped, Accepted
<1>8. PICK r : IsRank(r, pipeline[b])
  BY <1>7, RankExists
<1> DEFINE R == {r[Place(b, k)] : k \in {l \in Keys(b) : state[b][l] = "waiting"}}
<1>9. R # {} /\ R \in SUBSET Nat
  <2>1. \A k \in Keys(b) : Place(b, k) \in DOMAIN pipeline[b]
    BY <1>4, StepsOfBuild
  <2> QED
    BY <1>5, <1>8, <2>1 DEF IsRank
<1>10. PICK m \in R : \A n \in R : m <= n
  <2> HIDE DEF R
  <2> QED
    BY <1>9, LeastNatural
<1>11. PICK key \in Keys(b) : state[b][key] = "waiting" /\ m = r[Place(b, key)]
  BY <1>10
<1>12. \A k \in Keys(b) : state[b][k] = "waiting" => r[Place(b, key)] <= r[Place(b, k)]
  BY <1>10, <1>11
<1> QED
  BY <1>4, <1>6, <1>8, <1>11, <1>12

LEMMA StuckNot ==
    ASSUME BuildInv PROVE NothingStuck
<1> USE DEF BuildInv
<1> SUFFICES ASSUME NEW b0 \in Builds, NEW k0 \in DOMAIN state[b0], state[b0][k0] \notin Ended,
                    \A b \in Builds : \A key \in DOMAIN state[b] : ~CanAct(b, key)
             PROVE  FALSE
  BY DEF NothingStuck
<1>1. \A b \in Builds : DOMAIN state[b] = Keys(b) \cup {Importer}
  BY DEF BuildsTyped
<1>2. \A b \in Builds : state[b][Importer] \in Ended
  BY <1>1 DEF BuildsTyped, CanAct, Ended
<1>3. \A b \in Builds : \A key \in Keys(b) : state[b][key] = "waiting" \/ state[b][key] \in Ended
  <2> TAKE b \in Builds
  <2> TAKE key \in Keys(b)
  <2>1. state[b][key] \in States
    BY DEF BuildsTyped
  <2>2. ~CanAct(b, key)
    BY <1>1
  <2> QED
    BY <2>1, <2>2 DEF CanAct, States
<1>4. k0 \in Keys(b0) /\ state[b0][k0] = "waiting"
  BY <1>1, <1>2, <1>3
<1>0. PICK b \in Builds : \E r : \E key \in Keys(b) :
             /\ state[b][key] = "waiting" /\ IsRank(r, pipeline[b])
             /\ \A c \in Builds : UploadedBefore(c, b) => \A k \in Keys(c) : state[c][k] # "waiting"
             /\ \A k \in Keys(b) : state[b][k] = "waiting" => r[Place(b, key)] <= r[Place(b, k)]
  BY <1>4, FirstWaiting
<1>5. PICK r : \E key \in Keys(b) :
             /\ state[b][key] = "waiting" /\ IsRank(r, pipeline[b])
             /\ \A c \in Builds : UploadedBefore(c, b) => \A k \in Keys(c) : state[c][k] # "waiting"
             /\ \A k \in Keys(b) : state[b][k] = "waiting" => r[Place(b, key)] <= r[Place(b, k)]
  BY <1>0
<1>6. PICK key \in Keys(b) :
             /\ state[b][key] = "waiting" /\ IsRank(r, pipeline[b])
             /\ \A c \in Builds : UploadedBefore(c, b) => \A k \in Keys(c) : state[c][k] # "waiting"
             /\ \A k \in Keys(b) : state[b][k] = "waiting" => r[Place(b, key)] <= r[Place(b, k)]
  BY <1>5
<1> DEFINE e == pipeline[b]
           i == Place(b, key)
<1>7. /\ e \in Seq(AllSteps(flat[b])) /\ i \in DOMAIN e /\ e[i].key = key /\ StepOf(b, key) = e[i]
      /\ StepOf(b, key) \in AllSteps(flat[b]) /\ Accepted(flat[b]) /\ IsFlat(flat[b])
      /\ \A k \in Keys(b) : Place(b, k) \in DOMAIN e /\ e[Place(b, k)].key = k /\ StepOf(b, k) = e[Place(b, k)]
  BY <1>6, StepsOfBuild DEF BuildsTyped
<1> HIDE DEF e, i
<1>8. IsRank(r, e) /\ \A k \in Keys(b) : r[Place(b, k)] \in Nat
  BY <1>6, <1>7 DEF IsRank, e
<1>9. ASSUME NEW d \in StepOf(b, key).strict \cup StepOf(b, key).lenient
      PROVE  state[b][d] \in Ended
  <2>1. CASE d = Importer
    BY <1>2, <2>1
  <2>2. CASE d \in Keys(b)
    <3>1. Place(b, d) \in WaitsFor(e, i)
      BY <1>7, <2>2 DEF WaitsFor
    <3>2. r[Place(b, d)] < r[i]
      BY <1>7, <1>8, <3>1 DEF IsRank
    <3>3. state[b][d] # "waiting"
      BY <1>6, <1>8, <2>2, <3>2 DEF i
    <3> QED
      BY <1>3, <2>2, <3>3
  <2> QED
    BY <1>6, <2>1, <2>2, DependenciesInBuild
<1>10. ~Unreachable(b, key) /\ ~(Met(b, key) /\ HasTurn(b, key))
  BY <1>1, <1>6 DEF CanAct
<1>11. Met(b, key)
  BY <1>9, <1>10 DEF Met, Unreachable
<1>12. Ahead(b, key) = {}
  <2> SUFFICES ASSUME NEW x \in Ahead(b, key) PROVE FALSE
    OBVIOUS
  <2>1. /\ StepOf(b, key).group # 0
        /\ x[1] \in Builds /\ x[2] \in Keys(x[1]) /\ state[x[1]][x[2]] \notin Ended
        /\ StepOf(x[1], x[2]).group = StepOf(b, key).group /\ Precedes(x[1], x[2], b, key)
    BY AheadAre
  <2>2. state[x[1]][x[2]] = "waiting"
    BY <1>3, <2>1
  <2>3. x[1] = b /\ Place(b, x[2]) < i
    BY <1>6, <2>1, <2>2 DEF Precedes, i
  <2> DEFINE q == Place(b, x[2])
  <2>4. q \in DOMAIN e /\ e[q].group = e[i].group /\ e[i].group # 0 /\ q < i
    BY <1>7, <2>1, <2>3
  <2>5. r[q] < r[i]
    BY <1>7, <1>8, <2>4, RankOfGroup
  <2>6. r[i] <= r[q]
    BY <1>6, <2>1, <2>2, <2>3 DEF i
  <2> QED
    BY <1>6, <1>8, <2>1, <2>3, <2>5, <2>6 DEF i
<1>13. HasTurn(b, key)
  <2>1. StepOf(b, key).group # 0 => 0 < StepOf(b, key).limit
    BY <1>7, LimitPositive DEF Accepted
  <2> QED
    BY <1>12, <2>1, FS_EmptySet DEF HasTurn
<1> QED
  BY <1>10, <1>11, <1>13

\* A concurrency group admits one at a time, and the queues of the groups never
\* block each other, whatever builds share them (addConcurrencyGates,
\* validateConcurrencyDependencies).
THEOREM BuildsQueueSoundly == Spec => []QueuesSound
<1>1. BuildInv => QueuesSound
  <2> SUFFICES ASSUME BuildInv PROVE QueuesSound
    OBVIOUS
  <2>1. ASSUME NEW g \in Groups, g < 100, ~OptsIn(g)
        PROVE  Cardinality(Holders(g)) <= 1
    <3>1. g # 0
      BY PairingsAssumption
    <3>2. \A x, y \in Holders(g) : x = y
      BY <2>1, <3>1, HoldersAgree
    <3>3. Holders(g) = {} \/ \E x : Holders(g) = {x}
      BY <3>2
    <3>4. CASE Holders(g) = {}
      BY <3>4, FS_EmptySet
    <3>5. ASSUME NEW x, Holders(g) = {x}
          PROVE  Cardinality(Holders(g)) = 1
      BY <3>5, FS_Singleton
    <3> QED
      BY <3>3, <3>4, <3>5
  <2>2. GroupsExclusive
    BY <2>1 DEF GroupsExclusive
  <2> QED
    BY <2>2, StuckNot DEF QueuesSound
<1> QED
  BY <1>1, BuildInvariant, PTL
=============================================================================
