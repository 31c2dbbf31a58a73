---------------------------- MODULE RefResolution ----------------------------
(***************************************************************************)
(* Pinning a tag or branch of an action to a commit (source.Resolver).     *)
(*                                                                         *)
(* Processes resolve the same refs at the same time.  Within a process,    *)
(* goroutines share one flight per ref and one visibility check per        *)
(* repository; a flight whose leader was cancelled or timed out is flown   *)
(* again by a waiter.  All lookups of a process begin with its one call of *)
(* the token provider, made with the context of whoever comes first; what  *)
(* it returns is kept.                                                     *)
(*                                                                         *)
(* Across processes and restarts, a snapshot pins what a ref resolved to   *)
(* in the generation in use: an exclusive claim is created before the      *)
(* lookup and an entry is renamed into place after it, both under the file *)
(* lock of the ref.  Instead of a snapshot a process may use a cache of    *)
(* commits with a time to live, or neither.                                *)
(*                                                                         *)
(* Upstream, a ref can be moved, created and deleted between any two       *)
(* requests.                                                               *)
(***************************************************************************)
EXTENDS Naturals

CONSTANTS Resolvers,    \* goroutines that resolve a ref
          ProcOf,     \* the process of a caller
          Ref,        \* the ref a caller resolves
          Root,       \* refs of the repository that the importer's Git may fetch
          Setups,     \* what pins refs ("snapshot", "cache", "direct") and who runs
          Commits,    \* commits refs can point to
          Authenticated, \* what pins refs where processes have a token provider
          MaxMoves,   \* bound: changes upstream
          MaxGenerations, \* bound: generations of the snapshot
          MaxFaults,  \* bound: crashes, and writes and removals that fail
          absent,     \* no commit
          none        \* nobody, nothing

Procs == {ProcOf[c] : c \in Resolvers}
Refs  == {Ref[c] : c \in Resolvers}
Generations == 1 .. MaxGenerations

\* A lookup ends with a commit, or one of these.  "timeout" is a deadline the
\* lookup met that is not the caller's own, "closed" is the refusal to resolve
\* a claimed ref anew.
Errors == {"cancelled", "timeout", "missing", "denied", "limited", "broken", "closed"}
NotPublic == {"missing", "denied"}
Interrupted == {"cancelled", "timeout"}

\* What the token provider returns: a token, that none could be minted, or that
\* the context of its caller has ended.
Provisions == {"token", "anonymous", "cancelled"}

ASSUME RefAssumption ==
    /\ none \notin Resolvers \cup Procs \cup Commits \cup Nat \cup Errors \cup Provisions \cup {"public"}
    /\ absent \notin Commits /\ Commits \cap (Errors \cup {"public"}) = {}
    /\ Setups \subseteq {"snapshot", "cache", "direct"} \X SUBSET Resolvers
    /\ MaxMoves \in Nat /\ MaxGenerations \in Nat /\ MaxFaults \in Nat

VARIABLES
    mode,        \* how the processes are configured
    upstream,    \* what each ref points to
    moves,       \* changes upstream so far
    current,     \* current.json: the generation in use, or none
    generations, \* directories under generations/
    claimed,     \* refs with a .claimed file, by generation
    entry,       \* refs with an entry, by generation; of the cache: generation 0
    initLock,    \* who holds .snapshot.lock
    refLock,     \* who holds the lock of an entry
    process,     \* "new", "creating", "publishing", "open", or "over"
    generation,  \* the generation a process uses
    pc,          \* what a caller is doing
    flight,      \* the leader of the flight a process has for a ref, or none
    check,       \* the leader of the visibility check a process has, or none
    joined,      \* the leader of the flight or check a caller waits for
    landed,      \* what the flight of a leader ended with
    verdict,     \* what the check of a leader ended with
    provisioner, \* who called the token provider of a process, or none
    provided,    \* what it returned
    missed,      \* every answer of the caller's lookup was a 404
    cancelled,   \* callers whose context has ended
    late,        \* callers that met a deadline of their own lookup
    result,      \* what a caller returned, or is about to return
    faults

world == <<mode, upstream, moves>>
disk  == <<current, generations, claimed, entry>>
locks == <<initLock, refLock>>
procs == <<process, generation>>
credential == <<provisioner, provided>>
shared == <<flight, check, joined, landed, verdict, credential>>
calls == <<pc, shared, missed, cancelled, late, result>>
refVars == <<world, disk, locks, procs, calls, faults>>

Here(c) == <<ProcOf[c], Ref[c]>>
Slot(c) == <<IF mode = "snapshot" THEN generation[ProcOf[c]] ELSE 0, Ref[c]>>
Slots == (0 .. MaxGenerations) \X Refs

RefInit ==
    /\ \E setup \in Setups :
         /\ mode = setup[1]
         /\ pc = [c \in Resolvers |-> IF c \in setup[2] THEN "idle" ELSE "done"]
    /\ upstream \in [Refs -> Commits \cup {absent}]
    /\ moves = 0
    /\ current = none /\ generations = {}
    /\ claimed = {}
    /\ entry = [s \in Slots |-> none]
    /\ initLock = none
    /\ refLock = [s \in Slots |-> none]
    /\ process = [p \in Procs |-> CASE \A c \in Resolvers : ProcOf[c] = p => pc[c] = "done" -> "over"
                                     [] mode = "snapshot" -> "new"
                                     [] OTHER             -> "open"]
    /\ generation = [p \in Procs |-> 0]
    /\ flight = [h \in Procs \X Refs |-> none]
    /\ check = [p \in Procs |-> none]
    /\ joined = [c \in Resolvers |-> none]
    /\ landed = [c \in Resolvers |-> none]
    /\ verdict = [c \in Resolvers |-> none]
    /\ provisioner = [p \in Procs |-> none]
    /\ provided = [p \in Procs |-> none]
    /\ missed = [c \in Resolvers |-> TRUE]
    /\ cancelled = {} /\ late = {}
    /\ result = [c \in Resolvers |-> none]
    /\ faults = 0

Fault == faults < MaxFaults /\ faults' = faults + 1
Goto(c, stage) == pc' = [pc EXCEPT ![c] = stage]
Ends(c, r) == pc' = [pc EXCEPT ![c] = "done"] /\ result' = [result EXCEPT ![c] = r]

-----------------------------------------------------------------------------
(* newActionResolutionSnapshot, under .snapshot.lock                       *)

\* A generation has a random name: it is never one that was used before.
Unused == {g \in Generations : \A h \in generations \cup {generation[p] : p \in Procs} : g > h}

\* A process that does not ask for a refresh uses the current generation.  If
\* there is none it starts one, unless there are generations without one.
OpenSnapshot(p, refresh) ==
    /\ process[p] = "new" /\ initLock = none
    /\ refresh => Unused # {}
    /\ IF ~refresh /\ current # none
         THEN /\ process' = [process EXCEPT ![p] = "open"]
              /\ generation' = [generation EXCEPT ![p] = current]
              /\ UNCHANGED initLock
         ELSE IF ~refresh /\ generations # {}
                THEN process' = [process EXCEPT ![p] = "over"] /\ UNCHANGED <<initLock, generation>>
                ELSE /\ process' = [process EXCEPT ![p] = "creating"]
                     /\ initLock' = p
                     /\ UNCHANGED generation
    /\ UNCHANGED <<world, disk, refLock, calls, faults>>

CreateGeneration(p) ==
    /\ process[p] = "creating"
    /\ \E g \in Unused :
         /\ \A h \in Unused : g <= h
         /\ generations' = generations \cup {g}
         /\ generation' = [generation EXCEPT ![p] = g]
    /\ process' = [process EXCEPT ![p] = "publishing"]
    /\ UNCHANGED <<world, current, claimed, entry, locks, calls, faults>>

PublishGeneration(p) ==
    /\ process[p] = "publishing"
    /\ current' = generation[p]
    /\ process' = [process EXCEPT ![p] = "open"]
    /\ initLock' = none
    /\ UNCHANGED <<world, generations, claimed, entry, refLock, generation, calls, faults>>

\* The write fails, and perhaps the removal of the new directory too.
GenerationFails(p) ==
    /\ process[p] = "publishing" /\ Fault
    /\ \/ generations' = generations \ {generation[p]}
       \/ UNCHANGED generations
    /\ process' = [process EXCEPT ![p] = "over"]
    /\ initLock' = none
    /\ UNCHANGED <<world, current, claimed, entry, refLock, generation, calls>>

-----------------------------------------------------------------------------
(* Resolve: from the entry of the ref, or from a lookup that is pinned     *)

Begin(c) ==
    /\ pc[c] = "idle" /\ process[ProcOf[c]] = "open"
    /\ Goto(c, CASE mode = "snapshot"                      -> "lock"
                 [] mode = "cache" /\ Ref[c] \notin Root   -> "cached"
                 [] OTHER                                  -> "fly")
    /\ UNCHANGED <<world, disk, locks, procs, shared, missed, cancelled, late, result, faults>>

\* mutableRefCache.resolve reads the entry before it locks it.
Cached(c) ==
    /\ pc[c] = "cached"
    /\ IF entry[Slot(c)] # none
         THEN Ends(c, entry[Slot(c)])
         ELSE Goto(c, "lock") /\ UNCHANGED result
    /\ UNCHANGED <<world, disk, locks, procs, shared, missed, cancelled, late, faults>>

LockRef(c) ==
    /\ pc[c] = "lock" /\ refLock[Slot(c)] = none
    /\ IF entry[Slot(c)] # none
         THEN Ends(c, entry[Slot(c)]) /\ UNCHANGED <<claimed, refLock>>
         ELSE IF mode = "snapshot" /\ Slot(c) \in claimed
                THEN Ends(c, "closed") /\ UNCHANGED <<claimed, refLock>>
                ELSE /\ refLock' = [refLock EXCEPT ![Slot(c)] = c]
                     /\ claimed' = IF mode = "snapshot" THEN claimed \cup {Slot(c)} ELSE claimed
                     /\ Goto(c, "fly")
                     /\ UNCHANGED result
    /\ UNCHANGED <<world, current, generations, entry, initLock, procs, shared, missed,
                   cancelled, late, faults>>

\* The lock, or the claim, cannot be created.  Without its lock the cache is
\* bypassed.
LockFails(c) ==
    /\ pc[c] = "lock" /\ Fault
    /\ IF mode = "snapshot" THEN Ends(c, "broken") ELSE Goto(c, "fly") /\ UNCHANGED result
    /\ UNCHANGED <<world, disk, locks, procs, shared, missed, cancelled, late>>

LockInterrupted(c) ==
    /\ pc[c] = "lock" /\ c \in cancelled
    /\ Ends(c, "cancelled")
    /\ UNCHANGED <<world, disk, locks, procs, shared, missed, cancelled, late, faults>>

\* resolveMutable returns r to Resolve, which pins it if it has the lock.
Returns(c, r) ==
    /\ result' = [result EXCEPT ![c] = r]
    /\ Goto(c, IF refLock[Slot(c)] = c THEN "pin" ELSE "done")

Unlock(c) == refLock' = [refLock EXCEPT ![Slot(c)] = none]

Pinned(r) == IF r \in NotPublic THEN "missing" ELSE r

\* Mutant: the result of a lookup is returned although it could not be pinned.
AnswerUnpinned(c) == result[c]

\* What Resolve returns when the entry could not be written.
Unstored(c) == IF mode = "snapshot" THEN "broken" ELSE result[c]

\* A snapshot pins commits and refs that are not there; the cache pins commits.
Pins(c) == result[c] \in Commits \/ (mode = "snapshot" /\ result[c] \in NotPublic)

Pin(c) ==
    /\ pc[c] = "pin"
    /\ Goto(c, "done") /\ Unlock(c)
    /\ \/ /\ Pins(c)
          /\ entry' = [entry EXCEPT ![Slot(c)] = Pinned(result[c])]
          /\ UNCHANGED <<claimed, result, faults>>
       \/ /\ Pins(c) /\ Fault
          /\ result' = [result EXCEPT ![c] = Unstored(c)]
          /\ \/ claimed' = claimed \ {Slot(c)}
             \/ UNCHANGED claimed
          /\ UNCHANGED entry
       \/ /\ ~Pins(c)
          /\ \/ claimed' = claimed \ {Slot(c)} /\ UNCHANGED faults
             \/ UNCHANGED claimed /\ Fault
          /\ UNCHANGED <<entry, result>>
    /\ UNCHANGED <<world, current, generations, initLock, procs, shared, missed, cancelled, late>>

-----------------------------------------------------------------------------
(* resolveMutable: one flight per ref in a process                         *)

\* A leader's flight ends; only a definitive absence is kept for later callers.
Lands(c, r) ==
    /\ landed' = [landed EXCEPT ![c] = r]
    /\ flight' = IF r = "missing" THEN flight ELSE [flight EXCEPT ![Here(c)] = none]
    /\ Returns(c, r)

Fly(c) ==
    /\ pc[c] = "fly"
    /\ IF c \in cancelled
         THEN Returns(c, "cancelled") /\ UNCHANGED <<flight, joined>>
         ELSE /\ IF flight[Here(c)] # none
                   THEN /\ joined' = [joined EXCEPT ![c] = flight[Here(c)]]
                        /\ Goto(c, "waiting")
                        /\ UNCHANGED flight
                   ELSE /\ flight' = [flight EXCEPT ![Here(c)] = c]
                        /\ Goto(c, "provision")
                        /\ UNCHANGED joined
              /\ UNCHANGED result
    /\ UNCHANGED <<world, disk, locks, procs, credential, check, landed, verdict, missed, cancelled, late, faults>>


\* Mutant: a waiter takes over whatever the flight ended with.
NeverAgain == {}

\* The results of a flight or a check after which a waiter starts over.
FlownAgain == Interrupted

Wait(c) ==
    /\ pc[c] = "waiting"
    /\ \/ c \in cancelled /\ Returns(c, "cancelled")
       \/ /\ c \notin cancelled /\ landed[joined[c]] # none
          /\ IF landed[joined[c]] \in FlownAgain
               THEN Goto(c, "fly") /\ UNCHANGED result
               ELSE Returns(c, landed[joined[c]])
    /\ joined' = [joined EXCEPT ![c] = none]
    /\ UNCHANGED <<world, disk, locks, procs, credential, flight, check, landed, verdict, missed, cancelled,
                   late, faults>>

-----------------------------------------------------------------------------
(* resolveMutableUncached, by the leader of a flight                       *)

\* The lookup ended with r, unless Git may try.
Concludes(c, r) ==
    IF r \in NotPublic \cup {"limited"} /\ Ref[c] \in Root
      THEN Goto(c, "git") /\ UNCHANGED <<flight, landed, result>>
      ELSE Lands(c, r)

\* What a request or a fetch may fail with besides an answer.
FailsWith(c, e) ==
    /\ \/ e \in {"limited", "broken", "timeout"}
       \/ (e = "cancelled" /\ c \in cancelled)
    /\ late' = IF e = "timeout" THEN late \cup {c} ELSE late

\* With the provider's answer a lookup goes on, and without it ends.
Proceeds(c, outcome) ==
    \/ outcome = "cancelled" /\ Lands(c, outcome)
    \/ /\ outcome # "cancelled"
       /\ Goto(c, IF outcome = "token" THEN "public" ELSE "tags")
       /\ UNCHANGED <<flight, landed, result>>

\* The token of a process that has a snapshot is in its environment, if it has
\* one; others ask for theirs, unless their context has ended.
AsksForToken == mode # "snapshot"

\* actionSourceCredential.provision: the first caller runs the provider, and
\* whoever comes before it has returned waits for it, cancelled or not.
Provision(c) ==
    /\ pc[c] = "provision"
    /\ LET p == ProcOf[c] IN
       \/ /\ mode \notin Authenticated
          /\ Proceeds(c, "anonymous")
          /\ UNCHANGED credential
       \/ /\ mode \in Authenticated /\ provisioner[p] = none
          /\ provisioner' = [provisioner EXCEPT ![p] = c]
          /\ IF AsksForToken /\ c \in cancelled
               THEN /\ provided' = [provided EXCEPT ![p] = "cancelled"]
                    /\ Proceeds(c, "cancelled")
               ELSE /\ Goto(c, "provisioning")
                    /\ UNCHANGED <<provided, flight, landed, result>>
       \/ /\ provided[p] # none
          /\ Proceeds(c, provided[p])
          /\ UNCHANGED credential
    /\ UNCHANGED <<world, disk, locks, procs, check, joined, verdict, missed, cancelled, late, faults>>

Provisioning(c) ==
    /\ pc[c] = "provisioning"
    /\ \E outcome \in Provisions :
         /\ outcome = "cancelled" => AsksForToken /\ c \in cancelled
         /\ provided' = [provided EXCEPT ![ProcOf[c]] = outcome]
         /\ Proceeds(c, outcome)
    /\ UNCHANGED <<world, disk, locks, procs, provisioner, check, joined, verdict, missed, cancelled,
                   late, faults>>

\* ensurePublic: one visibility check per repository in a process.
Public(c) ==
    /\ pc[c] = "public"
    /\ IF c \in cancelled
         THEN Lands(c, "cancelled") /\ UNCHANGED <<check, joined>>
         ELSE /\ IF check[ProcOf[c]] # none
                   THEN /\ joined' = [joined EXCEPT ![c] = check[ProcOf[c]]]
                        /\ Goto(c, "checkWait")
                        /\ UNCHANGED check
                   ELSE /\ check' = [check EXCEPT ![ProcOf[c]] = c]
                        /\ Goto(c, "checking")
                        /\ UNCHANGED joined
              /\ UNCHANGED <<flight, landed, result>>
    /\ UNCHANGED <<world, disk, locks, procs, credential, verdict, missed, cancelled, late, faults>>

\* The repository is public, or it is not, or the request failed; only the
\* first is kept for later callers.
Checking(c) ==
    /\ pc[c] = "checking"
    /\ \/ /\ verdict' = [verdict EXCEPT ![c] = "public"]
          /\ Goto(c, "tags")
          /\ UNCHANGED <<check, flight, landed, result, late>>
       \/ \E e \in Errors :
            /\ \/ e \in NotPublic /\ UNCHANGED late
               \/ FailsWith(c, e)
            /\ verdict' = [verdict EXCEPT ![c] = e]
            /\ check' = [check EXCEPT ![ProcOf[c]] = none]
            /\ Concludes(c, e)
    /\ UNCHANGED <<world, disk, locks, procs, credential, joined, missed, cancelled, faults>>

CheckWait(c) ==
    /\ pc[c] = "checkWait"
    /\ \/ c \in cancelled /\ Lands(c, "cancelled")
       \/ /\ verdict[joined[c]] # none
          /\ CASE verdict[joined[c]] = "public" -> Goto(c, "tags") /\ UNCHANGED <<flight, landed, result>>
               [] verdict[joined[c]] \in FlownAgain -> Goto(c, "public") /\ UNCHANGED <<flight, landed, result>>
               [] OTHER -> Concludes(c, verdict[joined[c]])
    /\ joined' = [joined EXCEPT ![c] = none]
    /\ UNCHANGED <<world, disk, locks, procs, credential, check, verdict, missed, cancelled, late, faults>>

\* resolveMutableViaAPI asks for a tag, a branch and anything that names a
\* commit.  Only the last request finds every ref there is.
Asked == [tags |-> "heads", heads |-> "commits"]

Found(c) ==
    /\ pc[c] \in {"tags", "heads", "commits"} /\ upstream[Ref[c]] # absent
    /\ Lands(c, upstream[Ref[c]])
    /\ UNCHANGED <<world, disk, locks, procs, credential, check, joined, verdict, missed, cancelled, late, faults>>

NotFound(c, e) ==
    /\ e \in NotPublic
    /\ pc[c] \in DOMAIN Asked
    /\ missed' = [missed EXCEPT ![c] = @ /\ e = "missing"]
    /\ Goto(c, Asked[pc[c]])
    /\ UNCHANGED <<world, disk, locks, procs, shared, cancelled, late, result, faults>>

NothingFound(c, e) ==
    /\ pc[c] = "commits"
    /\ e = "denied" \/ (e = "missing" /\ upstream[Ref[c]] = absent)
    /\ Concludes(c, IF missed[c] THEN e ELSE "denied")
    /\ UNCHANGED <<world, disk, locks, procs, credential, check, joined, verdict, missed, cancelled, late, faults>>

LookupFails(c, e) ==
    /\ pc[c] \in {"tags", "heads", "commits"} /\ FailsWith(c, e)
    /\ Concludes(c, e)
    /\ UNCHANGED <<world, disk, locks, procs, credential, check, joined, verdict, missed, cancelled, faults>>

\* resolveWithGit: a fetch that fails for any reason of its own says as little
\* as a ref that is not there.
Git(c) ==
    /\ pc[c] = "git"
    /\ \/ upstream[Ref[c]] # absent /\ Lands(c, upstream[Ref[c]]) /\ UNCHANGED late
       \/ Lands(c, "denied") /\ UNCHANGED late
       \/ \E e \in Errors \ {"limited"} : FailsWith(c, e) /\ Lands(c, e)
    /\ UNCHANGED <<world, disk, locks, procs, credential, check, joined, verdict, missed, cancelled, faults>>

-----------------------------------------------------------------------------
(* Around them                                                             *)

Cancel(c) ==
    /\ pc[c] # "done" /\ c \notin cancelled
    /\ cancelled' = cancelled \cup {c}
    /\ UNCHANGED <<world, disk, locks, procs, pc, shared, missed, late, result, faults>>

\* A process dies: its locks are free, its files stay.
Crash(p) ==
    /\ process[p] # "over" /\ Fault
    /\ process' = [process EXCEPT ![p] = "over"]
    /\ pc' = [c \in Resolvers |-> IF ProcOf[c] = p /\ pc[c] # "done" THEN "dead" ELSE pc[c]]
    /\ initLock' = IF initLock = p THEN none ELSE initLock
    /\ refLock' = [s \in Slots |-> IF refLock[s] # none /\ ProcOf[refLock[s]] = p THEN none ELSE refLock[s]]
    /\ UNCHANGED <<world, disk, generation, shared, missed, cancelled, late, result>>

Move(r, to) ==
    /\ moves < MaxMoves /\ upstream[r] # to
    /\ moves' = moves + 1
    /\ upstream' = [upstream EXCEPT ![r] = to]
    /\ UNCHANGED <<mode, disk, locks, procs, calls, faults>>

\* An entry of the cache is older than its time to live.
Expire(r) ==
    /\ mode = "cache" /\ entry[<<0, r>>] # none
    /\ entry' = [entry EXCEPT ![<<0, r>>] = none]
    /\ UNCHANGED <<world, current, generations, claimed, locks, procs, calls, faults>>

Over ==
    /\ \A p \in Procs : process[p] \in {"open", "over"}
    /\ \A c \in Resolvers : pc[c] \in {"done", "dead"} \/ (pc[c] = "idle" /\ process[ProcOf[c]] = "over")
    /\ UNCHANGED refVars

RefNext ==
    \/ \E p \in Procs :
         \/ \E refresh \in BOOLEAN : OpenSnapshot(p, refresh)
         \/ CreateGeneration(p) \/ PublishGeneration(p) \/ GenerationFails(p)
         \/ Crash(p)
    \/ \E c \in Resolvers :
         \/ Begin(c) \/ Cached(c) \/ LockRef(c) \/ LockFails(c) \/ LockInterrupted(c) \/ Pin(c)
         \/ Fly(c) \/ Wait(c) \/ Provision(c) \/ Provisioning(c) \/ Public(c) \/ Checking(c) \/ CheckWait(c)
         \/ Found(c) \/ Git(c) \/ Cancel(c)
         \/ \E e \in Errors : NotFound(c, e) \/ NothingFound(c, e) \/ LookupFails(c, e)
    \/ \E r \in Refs : Expire(r) \/ \E to \in Commits \cup {absent} : Move(r, to)
    \/ Over

RefSpec == RefInit /\ [][RefNext]_refVars

-----------------------------------------------------------------------------
(* Properties                                                              *)

Answered(c) == pc[c] = "done" /\ result[c] \in Commits \cup NotPublic

\* Every process that uses a generation gets the same answer for a ref from
\* it: one commit, or that there is none.
OneAnswer ==
    \A c, d \in Resolvers :
        mode = "snapshot" /\ Answered(c) /\ Answered(d) /\ Slot(c) = Slot(d)
            => Pinned(result[c]) = Pinned(result[d])

\* A ref is refused because it was claimed, or the generation in use is gone,
\* only where something failed or died before.
RefusedOnlyAfterFault ==
    /\ \A c \in Resolvers : result[c] = "closed" => faults > 0
    /\ \A c \in Resolvers : pc[c] = "idle" /\ process[ProcOf[c]] = "over" => faults > 0
    /\ \A p \in Procs : process[p] = "open" /\ mode = "snapshot" => generation[p] \in generations

\* A snapshot is one answer per ref and generation, for every process, moves
\* of the ref, crashes and failed writes notwithstanding
\* (actionResolutionSnapshot.resolve), and refuses to answer only after one
\* of those.
SnapshotAgrees == OneAnswer /\ RefusedOnlyAfterFault

\* The context of the provider's one call in the process of c has ended.
TokenLost(c) ==
    LET p == ProcOf[c] IN provided[p] = "cancelled" /\ provisioner[p] \in cancelled

\* A caller returns an interruption only if it is its own, or the one that the
\* provider was met with: never that of the caller whose flight or check it
\* waited for.
Interruptions ==
    \A c \in Resolvers :
        /\ result[c] = "cancelled" => c \in cancelled \/ TokenLost(c)
        /\ result[c] = "timeout" => c \in late

InFlight == {"provision", "provisioning", "public", "checking", "checkWait", "tags", "heads", "commits",
             "git"}

\* Whoever waits for a flight, a check or the provider waits for one that has
\* ended, or whose leader is at work on it and is not itself waiting for the
\* waiter.
Served(c) ==
    /\ pc[c] = "waiting" => landed[joined[c]] # none \/ pc[joined[c]] \in InFlight
    /\ pc[c] = "checkWait" => verdict[joined[c]] # none \/ pc[joined[c]] = "checking"
    /\ pc[c] = "provision" /\ provisioner[ProcOf[c]] # none =>
         provided[ProcOf[c]] # none \/ pc[provisioner[ProcOf[c]]] = "provisioning"

\* Sharing of flights, checks and the token (resolveMutable, ensurePublic,
\* provision) strands no live caller and hands it nobody's cancellation but
\* that of the process's first lookup while it called the token provider.
FlightsSound == Interruptions /\ \A c \in Resolvers : Served(c)

\* Callers share answers, across processes by a snapshot and within a process by
\* flights, and the faults and interruptions of others in these two ways alone.
ResolutionSound == SnapshotAgrees /\ FlightsSound
=============================================================================
