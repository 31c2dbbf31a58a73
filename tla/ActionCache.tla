----------------------------- MODULE ActionCache -----------------------------
(***************************************************************************)
(* The on-disk cache of action sources (source.Store).  Processes of one   *)
(* host share a directory and coordinate by advisory file locks alone: one *)
(* per entry (<commit>.lock), one per partial download, and one for        *)
(* maintenance.  A process that dies drops its locks and leaves whatever   *)
(* it had done to the directory.                                           *)
(*                                                                         *)
(* An entry is a directory with a manifest and a tree.  Removing it is not *)
(* atomic: while it goes on, and after a crash in the middle of it, the    *)
(* manifest or part of the tree may be what is left.  Locks are acquired   *)
(* by polling, so nothing is assumed about who gets one.                   *)
(***************************************************************************)
EXTENDS Naturals, Sequences, FiniteSets, Functions

CONSTANTS Procs,      \* processes with a Store over the same root
          Entries,    \* commits of actions
          Size,       \* bytes of each entry
          MaxBytes,   \* the limit of a bounded store
          Setups,     \* which processes run and how, see IsSetup
          none        \* no process, no entry, no size

ASSUME ProcsAssumption == IsFiniteSet(Procs) /\ none \notin Procs
ASSUME EntriesAssumption == IsFiniteSet(Entries) /\ none \notin Entries
ASSUME SizesAssumption == Size \in [Entries -> Nat \ {0}] /\ MaxBytes \in Nat \ {0} /\ none \notin Nat

\* The processes that run, those of them whose store has a cacheMaxBytes, and
\* two bounds: the leases one process holds on one entry, and the processes
\* that die and removals or writes that fail.
IsSetup(s) ==
    /\ s.procs \subseteq Procs /\ s.bounded \subseteq s.procs
    /\ s.maxLeases \in Nat \ {0} /\ s.maxFaults \in Nat

ASSUME SetupsAssumption == \A s \in Setups : IsSetup(s)

VARIABLES
    setup,      \* the setup that runs
    disk,       \* what is under the directory of each entry
    lru,        \* complete or damaged entries by the time of their manifest
    recorded,   \* .size-v1, none if there is no such file
    partials,   \* processes whose partial download is on disk
    partialLock,\* those of them that hold the lock of their partial
    exclusive,  \* who holds the lock of an entry exclusively
    maintainer, \* who holds the maintenance lock
    doing,         \* what a process is doing
    want,       \* the entry it does that for
    leases,     \* shared locks on entries a process keeps
    opened,     \* NewStore has returned a Store to a process
    pressure,   \* Store.pressure
    scan,       \* entries the maintainer has still to consider, oldest first
    total,      \* the maintainer's running total
    touched,    \* entries used since the maintainer's scan
    faults,     \* processes that have died, removals and writes that have failed
    failures    \* some Materialize has returned an error

diskVars  == <<disk, lru, recorded, partials>>
lockVars  == <<partialLock, exclusive, maintainer, leases>>
scanVars  == <<scan, total, touched>>
ghostVars == <<faults, failures>>
storeVars == <<opened, pressure>>
cacheVars == <<setup, diskVars, lockVars, doing, want, storeVars, scanVars, ghostVars>>

Stages ==
    { "opening", "idle", "lockShared", "verify", "lockMissing", "tryShared", "verifyBusy",
      "recheck", "createPartial", "download", "publish", "size", "rollback", "discard",
      "relock", "relockShared", "verifyAgain", "afterRelease", "maintain", "scanned", "evict" }

Contents == {"absent", "complete", "damaged", "headless"}

\* Where a process is that holds the shared lock of the entry it wants, beside
\* the leases it has.
Reading == {"verify", "verifyBusy", "verifyAgain"}

Readers(e) == {p \in Procs : leases[p][e] > 0 \/ (want[p] = e /\ doing[p] \in Reading)}

\* Mutant: readers do not keep a writer out.
UnheldByWriters(e) == exclusive[e] = none

\* The lock of e can be taken exclusively.  A process competes with itself:
\* every acquisition opens the file anew.
Unheld(e) == exclusive[e] = none /\ Readers(e) = {}

Shareable(e) == exclusive[e] = none

\* cacheEntrySize of what is on disk; a removal that stopped half way has
\* removed half of the bytes.
Bytes(e) == CASE disk[e] = "complete" -> Size[e]
              [] disk[e] = "damaged"  -> Size[e] \div 2
              [] OTHER                -> 0

\* Every byte of an entry counts once.
DiskBytes == Cardinality(UNION {{e} \X (1 .. Bytes(e)) : e \in Entries})

Without(e) ==
    LET i == CHOOSE i \in 1..Len(lru) : lru[i] = e
    IN IF e \in Range(lru) THEN SubSeq(lru, 1, i - 1) \o SubSeq(lru, i + 1, Len(lru)) ELSE lru

Newest(e) == Append(Without(e), e)

-----------------------------------------------------------------------------
CacheInit ==
    /\ setup \in Setups
    /\ disk = [e \in Entries |-> "absent"]
    /\ lru = <<>>
    /\ recorded = none
    /\ partials = {}
    /\ partialLock = {}
    /\ exclusive = [e \in Entries |-> none]
    /\ maintainer = none
    /\ doing = [p \in Procs |-> IF p \in setup.procs THEN "opening" ELSE "idle"]
    /\ opened = [p \in Procs |-> FALSE]
    /\ want = [p \in Procs |-> none]
    /\ leases = [p \in Procs |-> [e \in Entries |-> 0]]
    /\ pressure = [p \in Procs |-> FALSE]
    /\ scan = <<>>
    /\ total = 0
    /\ touched = {}
    /\ faults = 0
    /\ failures = FALSE

Goto(p, stage) == doing' = [doing EXCEPT ![p] = stage]

\* An operation returns an error and the process is idle again.
Fail(p) ==
    /\ Goto(p, "idle")
    /\ want' = [want EXCEPT ![p] = none]
    /\ failures' = TRUE

\* The manifest of e gets the current time, which a maintenance under way sees.
Touch(e) ==
    /\ lru' = Newest(e)
    /\ touched' = IF scan = <<>> THEN touched ELSE touched \cup {e}

\* The shared lock p holds on e becomes a lease (materializedLease).
Lease(p, e) ==
    /\ Goto(p, "idle")
    /\ want' = [want EXCEPT ![p] = none]
    /\ leases' = [leases EXCEPT ![p][e] = @ + 1]

-----------------------------------------------------------------------------
(* Store.Materialize                                                       *)

Materialize(p, e) ==
    /\ doing[p] = "idle"
    /\ opened[p]
    /\ leases[p][e] < setup.maxLeases
    /\ Goto(p, "lockShared")
    /\ want' = [want EXCEPT ![p] = e]
    /\ UNCHANGED <<diskVars, lockVars, storeVars, scanVars, ghostVars>>

LockShared(p) ==
    /\ doing[p] = "lockShared"
    /\ \/ Shareable(want[p]) /\ Goto(p, "verify") /\ UNCHANGED <<want, failures>>
       \/ Fail(p)
    /\ UNCHANGED <<diskVars, lockVars, storeVars, scanVars, faults>>

\* verify under the shared lock: a complete entry is used, one that exists but
\* does not verify is an error, and one that is absent is to be fetched.
Verify(p) ==
    /\ doing[p] = "verify"
    /\ LET e == want[p] IN
       \/ /\ disk[e] = "complete"
          /\ Touch(e)
          /\ Lease(p, e)
          /\ UNCHANGED failures
       \/ \* The repository is not authorized, the entry is corrupt, or the
          \* context is done.
          /\ Fail(p)
          /\ UNCHANGED <<lru, touched, leases>>
       \/ /\ disk[e] = "absent"
          /\ Goto(p, "lockMissing")
          /\ UNCHANGED <<want, failures, lru, touched, leases>>
    /\ UNCHANGED <<disk, recorded, partials, partialLock, exclusive, maintainer, storeVars, scan, total, faults>>

TakeEntry(p) == exclusive' = [exclusive EXCEPT ![want[p]] = p]

\* lockMissingEntry: try to be the one that fetches; otherwise look whether the
\* one that does has finished.  The context may end the loop.
TryExclusive(p) ==
    /\ doing[p] = "lockMissing"
    /\ \/ Unheld(want[p]) /\ TakeEntry(p) /\ Goto(p, "recheck")
       \/ ~Unheld(want[p]) /\ Goto(p, "tryShared") /\ UNCHANGED exclusive
    /\ UNCHANGED <<diskVars, partialLock, maintainer, leases, want, storeVars, scanVars, ghostVars>>

TryShared(p) ==
    /\ doing[p] = "tryShared"
    /\ \/ /\ Goto(p, IF Shareable(want[p]) THEN "verifyBusy" ELSE "lockMissing")
          /\ UNCHANGED <<want, failures>>
       \/ Fail(p)
    /\ UNCHANGED <<diskVars, lockVars, storeVars, scanVars, faults>>

VerifyBusy(p) ==
    /\ doing[p] = "verifyBusy"
    /\ LET e == want[p] IN
       \/ /\ disk[e] = "complete"
          /\ Touch(e)
          /\ Lease(p, e)
          /\ UNCHANGED failures
       \/ /\ disk[e] = "complete"
          /\ Fail(p)
          /\ UNCHANGED <<lru, touched, leases>>
       \/ /\ disk[e] # "complete"
          /\ Goto(p, "lockMissing")
          /\ UNCHANGED <<want, failures, lru, touched, leases>>
    /\ UNCHANGED <<disk, recorded, partials, partialLock, exclusive, maintainer, storeVars, scan, total, faults>>

DropEntry(p) == exclusive' = [exclusive EXCEPT ![want[p]] = none]

\* With the exclusive lock: another process may have published meanwhile.
Recheck(p) ==
    /\ doing[p] = "recheck"
    /\ \/ /\ disk[want[p]] = "complete"
          /\ \/ Goto(p, "relock") /\ UNCHANGED <<want, failures, exclusive>>
             \/ Fail(p) /\ DropEntry(p)
       \/ /\ disk[want[p]] # "complete"
          /\ Goto(p, "createPartial")
          /\ UNCHANGED <<want, failures, exclusive>>
    /\ UNCHANGED <<diskVars, partialLock, maintainer, leases, storeVars, scanVars, faults>>

\* createPartial holds the maintenance lock while it makes and locks the
\* directory; it also ends with the context.
CreatePartial(p) ==
    /\ doing[p] = "createPartial"
    /\ \/ /\ maintainer = none
          /\ partials' = partials \cup {p}
          /\ partialLock' = partialLock \cup {p}
          /\ Goto(p, "download")
          /\ UNCHANGED <<want, failures, exclusive>>
       \/ Fail(p) /\ DropEntry(p) /\ UNCHANGED <<partials, partialLock>>
    /\ UNCHANGED <<disk, lru, recorded, maintainer, leases, storeVars, scanVars, faults>>

\* downloadExtract, selected, buildResolvedManifest, the digest check and the
\* manifest; an error or the context gives up the partial.
Download(p) ==
    /\ doing[p] = "download"
    /\ \E stage \in {"publish", "discard"} : Goto(p, stage)
    /\ partialLock' = IF doing'[p] = "discard" THEN partialLock \ {p} ELSE partialLock
    /\ UNCHANGED <<diskVars, exclusive, maintainer, leases, want, storeVars, scanVars, ghostVars>>

\* The deferred calls of Materialize after an error: the partial, if it is
\* still there, is removed without the maintenance lock.
Discard(p) ==
    /\ doing[p] = "discard"
    /\ partials' = partials \ {p}
    /\ DropEntry(p)
    /\ Fail(p)
    /\ UNCHANGED <<disk, lru, recorded, partialLock, maintainer, leases, storeVars, scanVars, faults>>

-----------------------------------------------------------------------------
(* publishCacheEntry                                                       *)

\* Under the maintenance lock the partial's lock is closed and the directory
\* renamed; the rename fails if anything is in the way.  While the lock is not
\* free the context may end the wait.
Publish(p) ==
    /\ doing[p] = "publish"
    /\ partialLock' = partialLock \ {p}
    /\ LET e == want[p] IN
       IF maintainer = none /\ disk[e] = "absent"
       THEN /\ disk' = [disk EXCEPT ![e] = "complete"]
            /\ Touch(e)
            /\ partials' = partials \ {p}
            /\ maintainer' = p
            /\ Goto(p, "size")
       ELSE /\ Goto(p, "discard")
            /\ UNCHANGED <<disk, lru, touched, partials, maintainer>>
    /\ UNCHANGED <<recorded, exclusive, leases, want, storeVars, scan, total, ghostVars>>

AddSize(p) == recorded' = recorded + Size[want[p]]

\* The size of the cache is brought up to date, by maintenance if it is not
\* known or over the limit of this store.
PublishSize(p) ==
    /\ doing[p] = "size"
    /\ \/ /\ p \in setup.bounded
          /\ recorded = none \/ recorded + Size[want[p]] > MaxBytes
          /\ Goto(p, "maintain")
          /\ UNCHANGED <<recorded, pressure, maintainer>>
       \/ /\ recorded # none
          /\ p \in setup.bounded => recorded + Size[want[p]] <= MaxBytes
          /\ AddSize(p)
          /\ pressure' = [pressure EXCEPT ![p] = IF p \in setup.bounded THEN FALSE ELSE @]
          /\ maintainer' = none
          /\ Goto(p, "relock")
       \/ /\ p \notin setup.bounded /\ recorded = none
          /\ maintainer' = none
          /\ Goto(p, "relock")
          /\ UNCHANGED <<recorded, pressure>>
    /\ UNCHANGED <<disk, lru, partials, partialLock, exclusive, leases, want, opened, scanVars, ghostVars>>

\* The removal of the entry of p's own publication begins.
TakeBack(p) ==
    /\ \E c \in {"damaged", "headless"} : disk' = [disk EXCEPT ![want[p]] = c]
    /\ Goto(p, "rollback")

\* The new size cannot be written: the entry is taken back.
PublishFails(p) ==
    /\ doing[p] = "size"
    /\ TakeBack(p)
    /\ UNCHANGED <<lru, recorded, partials, lockVars, want, storeVars, scanVars, ghostVars>>

TakenBack(p) ==
    /\ doing[p] = "rollback"
    /\ \/ /\ disk' = [disk EXCEPT ![want[p]] = "absent"]
          /\ lru' = Without(want[p])
          /\ UNCHANGED faults
       \/ \* The error of this removal is ignored.
          /\ faults < setup.maxFaults /\ faults' = faults + 1
          /\ UNCHANGED <<disk, lru>>
    /\ maintainer' = none
    /\ Goto(p, "discard")
    /\ UNCHANGED <<recorded, partials, partialLock, exclusive, leases, want, storeVars, scanVars, failures>>

\* reacquireMaterializedLease: between the exclusive and the shared lock the
\* entry may be evicted; then Materialize starts over.
Relock(p) ==
    /\ doing[p] = "relock"
    /\ DropEntry(p)
    /\ Goto(p, "relockShared")
    /\ UNCHANGED <<diskVars, partialLock, maintainer, leases, want, storeVars, scanVars, ghostVars>>

RelockShared(p) ==
    /\ doing[p] = "relockShared"
    /\ \/ Shareable(want[p]) /\ Goto(p, "verifyAgain") /\ UNCHANGED <<want, failures>>
       \/ Fail(p)
    /\ UNCHANGED <<diskVars, lockVars, storeVars, scanVars, faults>>

VerifyAgain(p) ==
    /\ doing[p] = "verifyAgain"
    /\ LET e == want[p] IN
       \/ /\ disk[e] = "complete"
          /\ Touch(e)
          /\ \/ Lease(p, e) /\ UNCHANGED failures
             \/ \* The entry does not have the path of the action.
                Fail(p) /\ UNCHANGED leases
       \/ /\ disk[e] # "complete"
          /\ Goto(p, "lockShared")
          /\ UNCHANGED <<want, failures, lru, touched, leases>>
    /\ UNCHANGED <<disk, recorded, partials, partialLock, exclusive, maintainer, storeVars, scan, total, faults>>

-----------------------------------------------------------------------------
(* Leases                                                                  *)

\* lease.retain: another lease on an entry that is leased.
Retain(p, e) ==
    /\ doing[p] = "idle"
    /\ leases[p][e] \in 1..(setup.maxLeases - 1)
    /\ Touch(e)
    /\ leases' = [leases EXCEPT ![p][e] = @ + 1]
    /\ UNCHANGED <<disk, recorded, partials, partialLock, exclusive, maintainer, doing, want, storeVars, scan, total, ghostVars>>

\* lease.release gives the lock back before it asks whether to maintain.
Release(p, e) ==
    /\ doing[p] = "idle"
    /\ leases[p][e] > 0
    /\ leases' = [leases EXCEPT ![p][e] = @ - 1]
    /\ Goto(p, IF p \in setup.bounded THEN "afterRelease" ELSE "idle")
    /\ UNCHANGED <<diskVars, partialLock, exclusive, maintainer, want, storeVars, scanVars, ghostVars>>

\* Mutant: only the store that saw the pressure reacts to it.
OwnPressure(p) == pressure[p]

NeedsMaintenance(p) == pressure[p] \/ (recorded # none /\ recorded > MaxBytes)

AfterRelease(p) ==
    /\ doing[p] = "afterRelease"
    /\ Goto(p, IF NeedsMaintenance(p) THEN "opening" ELSE "idle")
    /\ UNCHANGED <<diskVars, lockVars, want, storeVars, scanVars, ghostVars>>

-----------------------------------------------------------------------------
(* maintain                                                                *)

\* NewStore of an unbounded store does not maintain.
Open(p) ==
    /\ doing[p] = "opening"
    /\ p \notin setup.bounded
    /\ opened' = [opened EXCEPT ![p] = TRUE]
    /\ Goto(p, "idle")
    /\ UNCHANGED <<diskVars, lockVars, want, pressure, scanVars, ghostVars>>

\* NewStore of a bounded store, and a release under pressure.
Maintain(p) ==
    /\ doing[p] = "opening"
    /\ p \in setup.bounded
    /\ maintainer = none
    /\ maintainer' = p
    /\ Goto(p, "maintain")
    /\ UNCHANGED <<diskVars, partialLock, exclusive, leases, want, storeVars, scanVars, ghostVars>>

\* Partials that are being written: their lock is held.
LivePartials == partials \cap partialLock

\* cacheEntries, sorted by the time of their manifests.
CacheEntries == [i \in 1..Len(lru) |-> [entry |-> lru[i], size |-> Bytes(lru[i])]]

\* The removal of orphaned partials and the scan.  An entry without a manifest
\* makes it fail.
Scan(p) ==
    /\ doing[p] = "maintain"
    /\ \A e \in Entries : disk[e] # "headless"
    /\ partials' = LivePartials
    /\ scan' = CacheEntries
    /\ total' = DiskBytes
    /\ touched' = {}
    /\ Goto(p, "scanned")
    /\ UNCHANGED <<disk, lru, recorded, lockVars, want, storeVars, ghostVars>>

\* maintainLocked returns: to publishCacheEntry, to NewStore, or to a release,
\* which ignores an error.
AfterMaintenance(p) ==
    /\ maintainer' = none
    /\ scan' = <<>> /\ total' = 0 /\ touched' = {}
    /\ Goto(p, IF want[p] = none THEN "idle" ELSE "relock")
    /\ opened' = [opened EXCEPT ![p] = TRUE]

\* maintainLocked returns an error: an entry has no manifest, a removal stops
\* half way, or a file cannot be read or written.  What was evicted before is
\* gone and .size-v1 does not know.
MaintenanceFails(p) ==
    /\ doing[p] \in {"maintain", "scanned", "evict"}
    /\ \/ faults < setup.maxFaults /\ faults' = faults + 1
       \/ doing[p] = "maintain" /\ (\E e \in Entries : disk[e] = "headless") /\ UNCHANGED faults
    /\ exclusive' = [e \in Entries |->
                       IF doing[p] = "evict" /\ e = Head(scan).entry THEN none ELSE exclusive[e]]
    /\ scan' = <<>> /\ total' = 0 /\ touched' = {}
    /\ IF want[p] # none
       THEN TakeBack(p) /\ UNCHANGED maintainer
       ELSE /\ Goto(p, IF opened[p] THEN "idle" ELSE "opening")
            /\ maintainer' = none
            /\ UNCHANGED disk
    /\ UNCHANGED <<lru, recorded, partials, partialLock, leases, want, storeVars, failures>>

\* An entry can be evicted: its lock is free and none has used it since the
\* scan.
Evictable(e) == Unheld(e) /\ e \notin touched

\* The oldest entry left is skipped, or its removal begins.
EvictOldest(p) ==
    /\ doing[p] = "scanned"
    /\ total > MaxBytes
    /\ scan # <<>>
    /\ LET e == Head(scan).entry IN
       IF Evictable(e)
       THEN /\ exclusive' = [exclusive EXCEPT ![e] = p]
            /\ \E c \in {"damaged", "headless"} : disk' = [disk EXCEPT ![e] = c]
            /\ Goto(p, "evict")
            /\ UNCHANGED scan
       ELSE scan' = Tail(scan) /\ UNCHANGED <<exclusive, disk, doing>>
    /\ UNCHANGED <<lru, recorded, partials, partialLock, maintainer, leases, want, storeVars, total, touched, ghostVars>>

Evicted(p) ==
    /\ doing[p] = "evict"
    /\ LET e == Head(scan).entry IN
       /\ disk' = [disk EXCEPT ![e] = "absent"]
       /\ lru' = Without(e)
       /\ total' = total - Head(scan).size
       /\ exclusive' = [exclusive EXCEPT ![e] = none]
    /\ scan' = Tail(scan)
    /\ Goto(p, "scanned")
    /\ UNCHANGED <<recorded, partials, partialLock, maintainer, leases, want, storeVars, touched, ghostVars>>

MaintenanceDone(p) ==
    /\ doing[p] = "scanned"
    /\ total <= MaxBytes \/ scan = <<>>
    /\ recorded' = total
    /\ pressure' = [pressure EXCEPT ![p] = total > MaxBytes]
    /\ AfterMaintenance(p)
    /\ UNCHANGED <<disk, lru, partials, partialLock, exclusive, leases, want, ghostVars>>

-----------------------------------------------------------------------------
\* A process dies and is started again: its locks are gone, its files stay.
Crash(p) ==
    /\ faults < setup.maxFaults
    /\ faults' = faults + 1
    /\ partialLock' = partialLock \ {p}
    /\ exclusive' = [e \in Entries |-> IF exclusive[e] = p THEN none ELSE exclusive[e]]
    /\ maintainer' = IF maintainer = p THEN none ELSE maintainer
    /\ leases' = [leases EXCEPT ![p] = [e \in Entries |-> 0]]
    /\ pressure' = [pressure EXCEPT ![p] = FALSE]
    /\ want' = [want EXCEPT ![p] = none]
    /\ opened' = [opened EXCEPT ![p] = FALSE]
    /\ Goto(p, "opening")
    /\ IF maintainer = p
       THEN scan' = <<>> /\ total' = 0 /\ touched' = {}
       ELSE UNCHANGED scanVars
    /\ UNCHANGED <<diskVars, failures>>

Step(p) ==
    \/ \E e \in Entries : Materialize(p, e) \/ Retain(p, e) \/ Release(p, e)
    \/ LockShared(p) \/ Verify(p) \/ TryExclusive(p) \/ TryShared(p) \/ VerifyBusy(p)
    \/ Recheck(p) \/ CreatePartial(p) \/ Download(p) \/ Discard(p)
    \/ Publish(p) \/ PublishSize(p) \/ PublishFails(p) \/ TakenBack(p)
    \/ Relock(p) \/ RelockShared(p) \/ VerifyAgain(p)
    \/ AfterRelease(p) \/ Open(p) \/ Maintain(p) \/ Scan(p)
    \/ EvictOldest(p) \/ Evicted(p) \/ MaintenanceDone(p) \/ MaintenanceFails(p)

CacheNext ==
    /\ \E p \in setup.procs : Step(p) \/ Crash(p)
    /\ UNCHANGED setup

CacheSpec == CacheInit /\ [][CacheNext]_cacheVars

-----------------------------------------------------------------------------
\* The values the variables take.
CacheTypeOK ==
    /\ setup \in Setups
    /\ disk \in [Entries -> Contents]
    /\ lru \in Seq(Entries)
    /\ recorded \in Nat \cup {none}
    /\ partials \subseteq Procs /\ partialLock \subseteq Procs
    /\ exclusive \in [Entries -> Procs \cup {none}]
    /\ maintainer \in Procs \cup {none}
    /\ doing \in [Procs -> Stages]
    /\ want \in [Procs -> Entries \cup {none}]
    /\ leases \in [Procs -> [Entries -> 0..setup.maxLeases]]
    /\ opened \in [Procs -> BOOLEAN] /\ pressure \in [Procs -> BOOLEAN]
    /\ scan \in Seq([entry : Entries, size : Nat]) /\ total \in Nat /\ touched \subseteq Entries
    /\ faults \in 0..setup.maxFaults /\ failures \in BOOLEAN

\* What a process has a lease on stays complete on disk, whoever maintains,
\* publishes, fails or dies meanwhile.
LeasedEntriesComplete ==
    \A p \in Procs, e \in Entries : leases[p][e] > 0 => disk[e] = "complete"

\* At most one process fetches an entry, and its partial is not removed under
\* it by the maintenance of another.
OneFetcher ==
    \A p \in Procs :
        doing[p] \in {"download", "publish"} =>
            /\ p \in partials
            /\ \A q \in Procs \ {p} : doing[q] \in {"download", "publish"} => want[q] # want[p]

\* Entries are whole when they are used and fetched once at a time, with the
\* locks of files alone between the processes.
EntriesSound == LeasedEntriesComplete /\ OneFetcher

\* Between operations .size-v1 is the size of the cache to the byte, unless a
\* process died or a maintenance failed half way: every publication and every
\* removal, by bounded and unbounded stores alike, is accounted for.
SizeIsExact ==
    maintainer = none /\ faults = 0 /\ recorded # none => recorded = DiskBytes

WithinLimitAtRest ==
    LET AtRest == \A p \in Procs : doing[p] = "idle" /\ \A e \in Entries : leases[p][e] = 0
    IN setup.bounded = setup.procs /\ AtRest /\ faults = 0 /\ ~failures => DiskBytes <= MaxBytes

\* The cache knows its size, and when every process of a host with bounded
\* stores is idle and holds nothing, it is within its limit, provided no
\* Materialize has failed: the last one out evicts.
LimitKept == SizeIsExact /\ WithinLimitAtRest
=============================================================================
