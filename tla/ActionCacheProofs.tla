-------------------------- MODULE ActionCacheProofs --------------------------
(***************************************************************************)
(* Proofs about the cache of action sources, for every set of processes,   *)
(* of entries and of setups.                                               *)
(*                                                                         *)
(* The processes share nothing but files and locks, and the argument has   *)
(* that form: what is true of a process where it stands (Local) is kept    *)
(* by its own steps, and every other process does to it no more than the   *)
(* guarantee allows (Undisturbed).  Exclusion and Leased, which relate     *)
(* processes to each other, follow from both.                              *)
(*                                                                         *)
(* The second part is about the size of the cache and its limit, and rests *)
(* on the first: the steps that matter to it are those of the one process  *)
(* that has the maintenance lock, so AloneAccounted and AloneAwaited look  *)
(* at that process only, and LightAccounted and LightAwaited at the rest.  *)
(***************************************************************************)
EXTENDS ActionCache, SequenceTheorems, FiniteSetTheorems, TLAPS

\* What the variables hold that the argument is about; the sizes are not.
CacheTypes ==
    /\ setup \in Setups
    /\ disk \in [Entries -> Contents]
    /\ lru \in Seq(Entries)
    /\ partials \subseteq Procs /\ partialLock \subseteq Procs
    /\ exclusive \in [Entries -> Procs \cup {none}]
    /\ maintainer \in Procs \cup {none}
    /\ doing \in [Procs -> Stages]
    /\ want \in [Procs -> Entries \cup {none}]
    /\ leases \in [Procs -> [Entries -> Nat]]
    /\ scan \in Seq([entry : Entries, size : Nat])

Fetching    == {"download", "publish"}
Maintaining == {"maintain", "scanned", "evict"}

\* Where a process wants no entry, and where it may want none.
Wanting(p) ==
    /\ doing[p] \in {"idle", "opening", "afterRelease"} => want[p] = none
    /\ doing[p] \notin {"idle", "opening", "afterRelease"} \cup Maintaining => want[p] \in Entries

\* Where a process has the lock of the entry it wants for itself.
Holding(p) ==
    \/ doing[p] \in {"recheck", "createPartial", "size", "rollback", "discard", "relock"} \cup Fetching
    \/ doing[p] \in Maintaining /\ want[p] # none
    => exclusive[want[p]] = p

\* Where a process has the maintenance lock.
Keeping(p) == doing[p] \in {"size", "rollback"} \cup Maintaining => maintainer = p

\* An eviction is of the oldest entry of the scan, under its lock, and never
\* of the entry that is being published.
Evicting(p) ==
    doing[p] = "evict" =>
        /\ scan # <<>>
        /\ Head(scan).entry \in Entries
        /\ exclusive[Head(scan).entry] = p
        /\ Head(scan).entry # want[p]

\* A partial that is written is there, and its lock is held.
Writing(p) == doing[p] \in Fetching => p \in LivePartials

Local(p) == Wanting(p) /\ Holding(p) /\ Keeping(p) /\ Evicting(p) /\ Writing(p)

\* An entry locked exclusively has no reader.
Exclusion == \A e \in Entries : exclusive[e] # none => Readers(e) = {}

CacheInv ==
    /\ CacheTypes
    /\ \A p \in Procs : Local(p)
    /\ Exclusion
    /\ LeasedEntriesComplete

-----------------------------------------------------------------------------
\* Taking an entry out of the list, or to its end, leaves a list of entries.
LEMMA WithoutType ==
    ASSUME lru \in Seq(Entries), NEW e \in Entries
    PROVE  Without(e) \in Seq(Entries) /\ Newest(e) \in Seq(Entries)
<1>1. Without(e) \in Seq(Entries)
  <2>1. CASE e \in Range(lru)
    <3> DEFINE i == CHOOSE i \in 1..Len(lru) : lru[i] = e
    <3>1. \E j \in 1..Len(lru) : lru[j] = e
      BY <2>1 DEF Range
    <3>2. i \in 1..Len(lru)
      BY <3>1
    <3> HIDE DEF i
    <3>3. /\ SubSeq(lru, 1, i - 1) \in Seq(Entries)
          /\ SubSeq(lru, i + 1, Len(lru)) \in Seq(Entries)
      BY <3>2
    <3>4. SubSeq(lru, 1, i - 1) \o SubSeq(lru, i + 1, Len(lru)) \in Seq(Entries)
      BY <3>3, ConcatProperties
    <3> QED
      BY <2>1, <3>4 DEF Without, i
  <2>2. CASE e \notin Range(lru)
    BY <2>2 DEF Without
  <2> QED
    BY <2>1, <2>2
<1> QED
  BY <1>1 DEF Newest

\* The sizes of the entries are numbers.
LEMMA ScanType ==
    ASSUME CacheTypes
    PROVE  CacheEntries \in Seq([entry : Entries, size : Nat])
<1>1. \A e \in Entries : Bytes(e) \in Nat
  BY SizesAssumption DEF Bytes
<1>2. Len(lru) \in Nat /\ \A i \in 1..Len(lru) : lru[i] \in Entries
  BY DEF CacheTypes
<1>3. \A i \in 1..Len(lru) : [entry |-> lru[i], size |-> Bytes(lru[i])] \in [entry : Entries, size : Nat]
  BY <1>1, <1>2
<1> QED
  BY <1>2, <1>3 DEF CacheEntries

-----------------------------------------------------------------------------
\* Types.
LEMMA CacheTypesStep ==
    ASSUME CacheInv, NEW p \in Procs, Step(p) \/ Crash(p), UNCHANGED setup
    PROVE  CacheTypes'
<1> USE DEF CacheInv, CacheTypes
<1>s. setup' \in Setups
  OBVIOUS
<1>w. want[p] \in Entries \/ want[p] = none
  OBVIOUS
<1>e. doing[p] \notin {"idle", "opening", "afterRelease"} \cup Maintaining => want[p] \in Entries
  BY DEF Local, Wanting
<1>n. \A e \in Entries : Without(e) \in Seq(Entries) /\ Newest(e) \in Seq(Entries)
  BY WithoutType
<1> DEFINE Others ==
        /\ disk' \in [Entries -> Contents]
        /\ partials' \subseteq Procs /\ partialLock' \subseteq Procs
        /\ exclusive' \in [Entries -> Procs \cup {none}]
        /\ maintainer' \in Procs \cup {none}
        /\ doing' \in [Procs -> Stages]
        /\ want' \in [Procs -> Entries \cup {none}]
        /\ leases' \in [Procs -> [Entries -> Nat]]
<1>1. Others
  <2>1. CASE \E e \in Entries : Materialize(p, e) \/ Retain(p, e) \/ Release(p, e)
    <3>1. PICK e \in Entries : Materialize(p, e) \/ Retain(p, e) \/ Release(p, e)
      BY <2>1
    <3>2. leases[p][e] \in Nat
      OBVIOUS
    <3>3. leases' \in [Procs -> [Entries -> Nat]]
      <4>1. CASE Materialize(p, e)
        BY <4>1 DEF Materialize, lockVars
      <4>2. CASE Retain(p, e)
        BY <4>2, <3>2 DEF Retain
      <4>3. CASE Release(p, e)
        BY <4>3, <3>2 DEF Release
      <4> QED
        BY <3>1, <4>1, <4>2, <4>3
    <3> QED
      <4>1. CASE Materialize(p, e)
        BY <4>1 DEF Materialize, Goto, Stages, diskVars, lockVars
      <4>2. CASE Retain(p, e)
        BY <4>2, <3>3 DEF Retain
      <4>3. CASE Release(p, e)
        BY <4>3, <3>3 DEF Release, Goto, Stages, diskVars
      <4> QED
        BY <3>1, <4>1, <4>2, <4>3
  <2>2. CASE LockShared(p) \/ TryShared(p) \/ RelockShared(p)
    BY <2>2 DEF LockShared, TryShared, RelockShared, Goto, Fail, Stages, diskVars, lockVars
  <2>3. CASE Verify(p) \/ VerifyBusy(p) \/ VerifyAgain(p)
    <3>1. want[p] \in Entries /\ leases[p][want[p]] \in Nat
      BY <2>3, <1>e DEF Verify, VerifyBusy, VerifyAgain, Maintaining
    <3>2. leases' \in [Procs -> [Entries -> Nat]]
      <4>1. \/ UNCHANGED leases
            \/ leases' = [leases EXCEPT ![p][want[p]] = @ + 1]
        BY <2>3 DEF Verify, VerifyBusy, VerifyAgain, Lease
      <4>2. [leases EXCEPT ![p][want[p]] = @ + 1] \in [Procs -> [Entries -> Nat]]
        BY <3>1
      <4> QED
        BY <4>1, <4>2
    <3> QED
      BY <2>3, <3>1, <3>2 DEF Verify, VerifyBusy, VerifyAgain, Goto, Fail, Lease, Stages
  <2>4. CASE TryExclusive(p) \/ Recheck(p) \/ Relock(p)
    BY <2>4, ZenonT(40) DEF TryExclusive, TakeEntry, Recheck, Relock, DropEntry, Goto, Fail, Stages, diskVars
  <2>5. CASE CreatePartial(p) \/ Download(p) \/ Discard(p)
    BY <2>5 DEF CreatePartial, Download, Discard, DropEntry, Goto, Fail, Stages, diskVars
  <2>6. CASE Publish(p) \/ PublishSize(p) \/ PublishFails(p) \/ TakenBack(p)
    BY <2>6, ZenonT(40) DEF Publish, PublishSize, PublishFails, TakeBack, TakenBack, Goto, Stages, Contents, lockVars
  <2>7. CASE AfterRelease(p) \/ Open(p) \/ Maintain(p)
    BY <2>7 DEF AfterRelease, Open, Maintain, Goto, Stages, diskVars, lockVars
  <2>8. CASE Scan(p) \/ EvictOldest(p) \/ Evicted(p)
    BY <2>8 DEF Scan, LivePartials, EvictOldest, Evicted, Goto, Stages, Contents, lockVars
  <2>9. CASE MaintenanceDone(p) \/ MaintenanceFails(p)
    BY <2>9 DEF MaintenanceDone, AfterMaintenance, MaintenanceFails, TakeBack, Goto, Stages, Contents
  <2>10. CASE Crash(p)
    BY <2>10 DEF Crash, Goto, Stages, diskVars
  <2> QED
    BY <2>1, <2>2, <2>3, <2>4, <2>5, <2>6, <2>7, <2>8, <2>9, <2>10 DEF Step
<1>2. lru' \in Seq(Entries)
  <2>1. CASE UNCHANGED lru
    BY <2>1
  <2>2. CASE \E e \in Entries : lru' = Newest(e) \/ lru' = Without(e)
    BY <2>2, <1>n
  <2>3. UNCHANGED lru \/ \E e \in Entries : lru' = Newest(e) \/ lru' = Without(e)
    <3>1. CASE \E e \in Entries : Materialize(p, e) \/ Retain(p, e) \/ Release(p, e)
      BY <3>1 DEF Materialize, Retain, Release, Touch, diskVars
    <3>2. CASE Verify(p) \/ VerifyBusy(p) \/ VerifyAgain(p) \/ Publish(p) \/ TakenBack(p)
      BY <3>2, <1>e DEF Verify, VerifyBusy, VerifyAgain, Publish, TakenBack, Touch, Maintaining, diskVars
    <3>3. CASE Evicted(p)
      BY <3>3, Zenon DEF Evicted, Local, Evicting
    <3>4. CASE \/ LockShared(p) \/ TryExclusive(p) \/ TryShared(p) \/ Recheck(p) \/ CreatePartial(p)
               \/ Download(p) \/ Discard(p) \/ PublishSize(p) \/ PublishFails(p) \/ Relock(p) \/ RelockShared(p)
      BY <3>4 DEF LockShared, TryExclusive, TryShared, Recheck, CreatePartial, Download, Discard,
                  PublishSize, PublishFails, Relock, RelockShared, diskVars
    <3>5. CASE \/ AfterRelease(p) \/ Open(p) \/ Maintain(p) \/ Scan(p) \/ EvictOldest(p)
               \/ MaintenanceDone(p) \/ MaintenanceFails(p) \/ Crash(p)
      BY <3>5 DEF AfterRelease, Open, Maintain, Scan, EvictOldest, MaintenanceDone, MaintenanceFails, Crash, diskVars
    <3> QED
      BY <3>1, <3>2, <3>3, <3>4, <3>5 DEF Step
  <2> QED
    BY <2>1, <2>2, <2>3
<1>3. scan' \in Seq([entry : Entries, size : Nat])
  <2>1. \/ scan' \in {scan, <<>>, CacheEntries}
        \/ scan # <<>> /\ scan' = Tail(scan)
    <3>1. CASE \E e \in Entries : Materialize(p, e) \/ Retain(p, e) \/ Release(p, e)
      BY <3>1 DEF Materialize, Retain, Release, scanVars
    <3>2. CASE Scan(p) \/ MaintenanceDone(p) \/ MaintenanceFails(p) \/ Crash(p)
      BY <3>2 DEF Scan, MaintenanceDone, AfterMaintenance, MaintenanceFails, Crash, scanVars
    <3>3. CASE EvictOldest(p) \/ Evicted(p)
      BY <3>3 DEF EvictOldest, Evicted, Local, Evicting
    <3>4. CASE \/ LockShared(p) \/ Verify(p) \/ TryExclusive(p) \/ TryShared(p) \/ VerifyBusy(p)
               \/ Recheck(p) \/ CreatePartial(p) \/ Download(p) \/ Discard(p) \/ Publish(p)
      BY <3>4 DEF LockShared, Verify, TryExclusive, TryShared, VerifyBusy, Recheck, CreatePartial,
                  Download, Discard, Publish, scanVars
    <3>5. CASE \/ PublishSize(p) \/ PublishFails(p) \/ TakenBack(p) \/ Relock(p) \/ RelockShared(p)
               \/ VerifyAgain(p) \/ AfterRelease(p) \/ Open(p) \/ Maintain(p)
      BY <3>5 DEF PublishSize, PublishFails, TakenBack, Relock, RelockShared,
                  VerifyAgain, AfterRelease, Open, Maintain, scanVars
    <3> QED
      BY <3>1, <3>2, <3>3, <3>4, <3>5 DEF Step
  <2> QED
    <3>1. scan # <<>> => Tail(scan) \in Seq([entry : Entries, size : Nat])
      BY HeadTailProperties
    <3>2. <<>> \in Seq([entry : Entries, size : Nat])
      OBVIOUS
    <3> QED
      BY <2>1, <3>1, <3>2, ScanType, Zenon
<1> QED
  BY <1>s, <1>1, <1>2, <1>3

-----------------------------------------------------------------------------
\* The guarantee: what a step of p leaves every other process.
Undisturbed(p) ==
    \A q \in Procs \ {p} :
        /\ doing'[q] = doing[q] /\ want'[q] = want[q] /\ leases'[q] = leases[q]
        /\ \A e \in Entries : exclusive'[e] = q <=> exclusive[e] = q
        /\ maintainer = q => maintainer' = q /\ scan' = scan
        /\ q \in LivePartials => q \in LivePartials'

LEMMA Guarantee ==
    ASSUME CacheInv, NEW p \in Procs, Step(p) \/ Crash(p)
    PROVE  Undisturbed(p)
<1> SUFFICES ASSUME NEW q \in Procs \ {p}
             PROVE  /\ doing'[q] = doing[q] /\ want'[q] = want[q] /\ leases'[q] = leases[q]
                    /\ \A e \in Entries : exclusive'[e] = q <=> exclusive[e] = q
                    /\ maintainer = q => maintainer' = q /\ scan' = scan
                    /\ q \in partials \cap partialLock => q \in (partials \cap partialLock)'
  BY DEF Undisturbed, LivePartials
<1> USE DEF CacheTypes
<1>t. CacheTypes /\ q # none /\ q # p /\ q \in Procs
  BY ProcsAssumption DEF CacheInv
<1>l. Wanting(p) /\ Holding(p) /\ Keeping(p) /\ Evicting(p)
  BY DEF CacheInv, Local
<1>1. CASE \E e \in Entries : Materialize(p, e) \/ Retain(p, e) \/ Release(p, e)
  BY <1>1, <1>t DEF Materialize, Retain, Release, Goto, diskVars, lockVars, scanVars
<1>2. CASE LockShared(p) \/ TryShared(p) \/ RelockShared(p)
  BY <1>2, <1>t DEF LockShared, TryShared, RelockShared, Goto, Fail, diskVars, lockVars, scanVars
<1>3. CASE Verify(p) \/ VerifyBusy(p) \/ VerifyAgain(p)
  BY <1>3, <1>t DEF Verify, VerifyBusy, VerifyAgain, Goto, Fail, Lease
<1>4. CASE TryExclusive(p)
  BY <1>4, <1>t DEF TryExclusive, Unheld, TakeEntry, Goto, diskVars, scanVars
<1>5. CASE Recheck(p) \/ Relock(p)
  BY <1>5, <1>t, <1>l DEF Recheck, Relock, Holding, DropEntry, Goto, Fail, diskVars, scanVars
<1>6. CASE CreatePartial(p) \/ Download(p) \/ Discard(p)
  BY <1>6, <1>t, <1>l DEF CreatePartial, Download, Discard, Holding, DropEntry, Goto, Fail, diskVars, scanVars
<1>7. CASE Publish(p) \/ PublishSize(p) \/ PublishFails(p) \/ TakenBack(p)
  BY <1>7, <1>t, <1>l DEF Publish, PublishSize, PublishFails, TakeBack, TakenBack, Keeping, Goto, lockVars, scanVars
<1>8. CASE AfterRelease(p) \/ Open(p) \/ Maintain(p)
  BY <1>8, <1>t DEF AfterRelease, Open, Maintain, Goto, diskVars, lockVars, scanVars
<1>9. CASE Scan(p)
  BY <1>9, <1>t, <1>l DEF Scan, LivePartials, Keeping, Maintaining, Goto, lockVars
<1>10. CASE EvictOldest(p)
  BY <1>10, <1>t, <1>l DEF EvictOldest, Evictable, Unheld, Keeping, Maintaining, Goto
<1>11. CASE Evicted(p)
  BY <1>11, <1>t, <1>l DEF Evicted, Evicting, Keeping, Maintaining, Goto
<1>12. CASE MaintenanceDone(p)
  BY <1>12, <1>t, <1>l DEF MaintenanceDone, AfterMaintenance, Keeping, Maintaining, Goto
<1>13. CASE MaintenanceFails(p)
  BY <1>13, <1>t, <1>l DEF MaintenanceFails, TakeBack, Evicting, Keeping, Maintaining, Goto
<1>14. CASE Crash(p)
  BY <1>14, <1>t DEF Crash, Goto, diskVars, scanVars
<1> QED
  BY <1>1, <1>2, <1>3, <1>4, <1>5, <1>6, <1>7, <1>8, <1>9, <1>10, <1>11, <1>12, <1>13, <1>14 DEF Step

\* What holds of a process where it stands survives the steps of the others.
LEMMA OthersKeepLocal ==
    ASSUME CacheInv, NEW p \in Procs, Undisturbed(p), NEW q \in Procs \ {p}
    PROVE  Local(q)'
<1>1. Local(q) /\ CacheTypes
  BY DEF CacheInv
<1>2. /\ doing'[q] = doing[q] /\ want'[q] = want[q]
      /\ \A e \in Entries : exclusive[e] = q => exclusive'[e] = q
      /\ maintainer = q => maintainer' = q /\ scan' = scan
      /\ q \in LivePartials => q \in LivePartials'
  BY DEF Undisturbed
<1>3. Wanting(q)' /\ Keeping(q)' /\ Writing(q)'
  BY <1>1, <1>2 DEF Local, Wanting, Keeping, Writing
<1>4. Holding(q)'
  <2>1. want[q] \in Entries \/ want[q] = none
    BY <1>1 DEF CacheTypes
  <2> QED
    BY <1>1, <1>2, <2>1 DEF Local, Holding, Wanting, Fetching, Maintaining
<1>5. Evicting(q)'
  BY <1>1, <1>2 DEF Local, Evicting, Keeping, Maintaining
<1> QED
  BY <1>3, <1>4, <1>5 DEF Local

-----------------------------------------------------------------------------
\* A process's own steps keep what holds of it where it stands.
LEMMA OwnStepKeepsLocal ==
    ASSUME CacheInv, NEW p \in Procs, Step(p) \/ Crash(p)
    PROVE  Local(p)'
<1>t. CacheTypes /\ Local(p)
  BY DEF CacheInv
<1>n. none \notin Procs /\ none \notin Entries
  BY ProcsAssumption, EntriesAssumption
<1> USE DEF CacheTypes, Local, Wanting, Holding, Keeping, Evicting, Writing, Fetching, Maintaining, Goto
<1>1. CASE \E e \in Entries : Materialize(p, e) \/ Retain(p, e) \/ Release(p, e)
  <2>1. PICK e \in Entries : Materialize(p, e) \/ Retain(p, e) \/ Release(p, e)
    BY <1>1
  <2>2. CASE Materialize(p, e)
    BY <2>2, <1>t DEF Materialize
  <2>3. CASE Retain(p, e)
    BY <2>3, <1>t DEF Retain
  <2>4. CASE Release(p, e)
    BY <2>4, <1>t DEF Release
  <2> QED
    BY <2>1, <2>2, <2>3, <2>4
<1>2. CASE LockShared(p) \/ TryShared(p) \/ RelockShared(p)
  BY <1>2, <1>t DEF LockShared, TryShared, RelockShared, Fail
<1>3. CASE Verify(p) \/ VerifyBusy(p) \/ VerifyAgain(p)
  BY <1>3, <1>t DEF Verify, VerifyBusy, VerifyAgain, Fail, Lease
<1>4. CASE TryExclusive(p)
  BY <1>4, <1>t DEF TryExclusive, TakeEntry
<1>5. CASE Recheck(p) \/ Relock(p)
  BY <1>5, <1>t DEF Recheck, Relock, DropEntry, Fail
<1>6. CASE CreatePartial(p)
  BY <1>6, <1>t DEF CreatePartial, LivePartials, DropEntry, Fail
<1>7. CASE Download(p)
  BY <1>7, <1>t DEF Download, LivePartials, diskVars
<1>8. CASE Discard(p)
  BY <1>8, <1>t DEF Discard, Fail
<1>9. CASE Publish(p)
  BY <1>9, <1>t DEF Publish
<1>10. CASE PublishSize(p) \/ PublishFails(p) \/ TakenBack(p)
  BY <1>10, <1>t, <1>n DEF PublishSize, PublishFails, TakeBack, TakenBack, lockVars
<1>11. CASE AfterRelease(p) \/ Open(p) \/ Maintain(p)
  BY <1>11, <1>t DEF AfterRelease, Open, Maintain
<1>12. CASE Scan(p)
  BY <1>12, <1>t DEF Scan, lockVars
<1>13. CASE EvictOldest(p)
  <2>1. Head(scan).entry \in Entries
    <3>1. scan # <<>>
      BY <1>13 DEF EvictOldest
    <3>2. Head(scan) \in [entry : Entries, size : Nat]
      BY <3>1, <1>t, HeadTailProperties
    <3> QED
      BY <3>2
  <2>2. CASE Evictable(Head(scan).entry)
    BY <1>13, <1>t, <1>n, <2>1, <2>2 DEF EvictOldest, Evictable, Unheld
  <2>3. CASE ~Evictable(Head(scan).entry)
    BY <1>13, <1>t, <2>3 DEF EvictOldest
  <2> QED
    BY <2>2, <2>3
<1>14. CASE Evicted(p)
  BY <1>14, <1>t, <1>n DEF Evicted
<1>15. CASE MaintenanceDone(p)
  BY <1>15, <1>t DEF MaintenanceDone, AfterMaintenance
<1>16. CASE MaintenanceFails(p)
  BY <1>16, <1>t, <1>n DEF MaintenanceFails, TakeBack
<1>17. CASE Crash(p)
  BY <1>17, <1>t DEF Crash
<1> QED
  BY <1>1, <1>2, <1>3, <1>4, <1>5, <1>6, <1>7, <1>8, <1>9, <1>10, <1>11, <1>12, <1>13, <1>14, <1>15, <1>16, <1>17
     DEF Step

-----------------------------------------------------------------------------
\* A process becomes a reader of an entry, or stays one, only while nobody has
\* the entry for itself.
LEMMA NewReader ==
    ASSUME CacheInv, NEW p \in Procs, Step(p) \/ Crash(p), NEW e \in Entries, p \in Readers(e)'
    PROVE  exclusive[e] = none
<1> USE DEF CacheTypes, Readers, Reading, Goto
<1>t. CacheTypes
  BY DEF CacheInv
<1>1. CASE p \in Readers(e)
  BY <1>1 DEF CacheInv, Exclusion
<1>2. CASE p \notin Readers(e)
  <2>1. CASE \E x \in Entries : Materialize(p, x) \/ Retain(p, x) \/ Release(p, x)
    <3>1. PICK x \in Entries : Materialize(p, x) \/ Retain(p, x) \/ Release(p, x)
      BY <2>1
    <3>2. leases[p][x] \in Nat /\ leases[p][e] \in Nat
      BY <1>t
    <3>3. CASE Materialize(p, x)
      BY <1>2, <1>t, <3>3 DEF Materialize, lockVars
    <3>4. CASE Retain(p, x)
      BY <1>2, <1>t, <3>2, <3>4 DEF Retain
    <3>5. CASE Release(p, x)
      BY <1>2, <1>t, <3>2, <3>5 DEF Release
    <3> QED
      BY <3>1, <3>3, <3>4, <3>5
  <2>2. CASE LockShared(p) \/ TryShared(p) \/ RelockShared(p)
    BY <2>2, <1>2, <1>t DEF LockShared, TryShared, RelockShared, Shareable, Fail, lockVars
  <2>3. CASE Verify(p) \/ VerifyBusy(p) \/ VerifyAgain(p)
    BY <2>3, <1>2, <1>t DEF Verify, VerifyBusy, VerifyAgain, Fail, Lease
  <2>4. CASE \/ TryExclusive(p) \/ Recheck(p) \/ CreatePartial(p) \/ Download(p) \/ Discard(p)
             \/ Publish(p) \/ PublishSize(p) \/ PublishFails(p) \/ TakenBack(p) \/ Relock(p)
    BY <2>4, <1>2, <1>t DEF TryExclusive, Recheck, CreatePartial, Download, Discard, Publish, PublishSize,
                            PublishFails, TakeBack, TakenBack, Relock, Fail, lockVars
  <2>5. CASE \/ AfterRelease(p) \/ Open(p) \/ Maintain(p) \/ Scan(p) \/ EvictOldest(p)
             \/ Evicted(p) \/ MaintenanceDone(p) \/ MaintenanceFails(p)
    BY <2>5, <1>2, <1>t DEF AfterRelease, Open, Maintain, Scan, EvictOldest, Evicted, MaintenanceDone,
                            AfterMaintenance, MaintenanceFails, TakeBack, lockVars
  <2>6. CASE Crash(p)
    BY <2>6, <1>2, <1>t DEF Crash
  <2> QED
    BY <2>1, <2>2, <2>3, <2>4, <2>5, <2>6 DEF Step
<1> QED
  BY <1>1, <1>2

\* A process takes an entry for itself only while the entry has no reader, and
\* does not read it then.
LEMMA Taking ==
    ASSUME CacheInv, NEW p \in Procs, Step(p) \/ Crash(p), NEW e \in Entries,
           exclusive[e] = none, exclusive'[e] = p
    PROVE  Readers(e) = {} /\ p \notin Readers(e)'
<1> USE DEF CacheTypes, Readers, Reading, Goto, Unheld
<1>t. CacheTypes /\ p # none
  BY ProcsAssumption DEF CacheInv
<1>1. TryExclusive(p) \/ EvictOldest(p)
  <2>1. CASE \E x \in Entries : Materialize(p, x) \/ Retain(p, x) \/ Release(p, x)
    BY <2>1, <1>t DEF Materialize, Retain, Release, lockVars
  <2>2. CASE \/ LockShared(p) \/ TryShared(p) \/ RelockShared(p) \/ Verify(p) \/ VerifyBusy(p)
             \/ VerifyAgain(p) \/ Recheck(p) \/ CreatePartial(p) \/ Download(p) \/ Discard(p) \/ Relock(p)
    BY <2>2, <1>t DEF LockShared, TryShared, RelockShared, Verify, VerifyBusy, VerifyAgain, Recheck,
                      CreatePartial, Download, Discard, Relock, DropEntry, Fail, Lease, lockVars
  <2>3. CASE Publish(p) \/ PublishSize(p) \/ PublishFails(p) \/ TakenBack(p)
    BY <2>3, <1>t DEF Publish, PublishSize, PublishFails, TakenBack, lockVars
  <2>4. CASE \/ AfterRelease(p) \/ Open(p) \/ Maintain(p) \/ Scan(p) \/ Evicted(p)
             \/ MaintenanceDone(p) \/ MaintenanceFails(p) \/ Crash(p)
    BY <2>4, <1>t DEF AfterRelease, Open, Maintain, Scan, Evicted, MaintenanceDone, MaintenanceFails, Crash, lockVars
  <2> QED
    BY <2>1, <2>2, <2>3, <2>4 DEF Step
<1>2. CASE TryExclusive(p)
  <2>1. want[p] = e /\ Unheld(want[p])
    BY <1>2, <1>t DEF TryExclusive, TakeEntry
  <2> QED
    BY <1>2, <2>1, <1>t DEF TryExclusive
<1>3. CASE EvictOldest(p)
  <2>1. Head(scan).entry = e /\ Unheld(e)
    BY <1>3, <1>t DEF EvictOldest, Evictable
  <2> QED
    BY <1>3, <2>1, <1>t DEF EvictOldest
<1> QED
  BY <1>1, <1>2, <1>3

LEMMA ExclusionStep ==
    ASSUME CacheInv, CacheTypes', NEW p \in Procs, Step(p) \/ Crash(p), Undisturbed(p)
    PROVE  Exclusion'
<1> SUFFICES ASSUME NEW e \in Entries, exclusive'[e] # none, NEW r \in Readers(e)'
             PROVE  FALSE
  BY DEF Exclusion
<1>1. exclusive'[e] \in Procs /\ r \in Procs /\ exclusive[e] \in Procs \cup {none}
  BY DEF CacheTypes, CacheInv, Readers
<1>2. r # p => r \in Readers(e)
  BY <1>1 DEF Undisturbed, Readers
<1>3. exclusive[e] = none
  BY <1>2, NewReader DEF CacheInv, Exclusion
<1>4. exclusive'[e] = p
  BY <1>1, <1>3, ProcsAssumption DEF Undisturbed
<1> QED
  BY <1>2, <1>3, <1>4, Taking

-----------------------------------------------------------------------------
\* A complete entry is damaged or removed only while nobody reads it.
LEMMA Spoiling ==
    ASSUME CacheInv, NEW p \in Procs, Step(p) \/ Crash(p), NEW e \in Entries,
           disk[e] = "complete", disk'[e] # "complete"
    PROVE  Readers(e) = {}
<1> USE DEF CacheTypes
<1>t. CacheTypes /\ p # none
  BY ProcsAssumption DEF CacheInv
<1>l. Holding(p) /\ Evicting(p)
  BY DEF CacheInv, Local
<1>1. exclusive[e] = p \/ Unheld(e)
  <2>1. CASE \E x \in Entries : Materialize(p, x) \/ Retain(p, x) \/ Release(p, x)
    BY <2>1, <1>t DEF Materialize, Retain, Release, diskVars
  <2>2. CASE \/ LockShared(p) \/ TryShared(p) \/ RelockShared(p) \/ Verify(p) \/ VerifyBusy(p) \/ TryExclusive(p)
             \/ VerifyAgain(p) \/ Recheck(p) \/ CreatePartial(p) \/ Download(p) \/ Discard(p) \/ Relock(p)
    BY <2>2, <1>t DEF LockShared, TryShared, RelockShared, Verify, VerifyBusy, VerifyAgain, TryExclusive, Recheck,
                      CreatePartial, Download, Discard, Relock, diskVars
  <2>3. CASE Publish(p) \/ PublishSize(p) \/ Scan(p) \/ MaintenanceDone(p)
    BY <2>3, <1>t DEF Publish, PublishSize, Scan, MaintenanceDone
  <2>4. CASE PublishFails(p) \/ TakenBack(p)
    BY <2>4, <1>t, <1>l DEF PublishFails, TakenBack, TakeBack, Holding
  <2>5. CASE EvictOldest(p)
    BY <2>5, <1>t DEF EvictOldest, Evictable
  <2>6. CASE Evicted(p)
    BY <2>6, <1>t, <1>l DEF Evicted, Evicting
  <2>7. CASE MaintenanceFails(p)
    BY <2>7, <1>t, <1>l DEF MaintenanceFails, TakeBack, Holding, Maintaining
  <2>8. CASE AfterRelease(p) \/ Open(p) \/ Maintain(p) \/ Crash(p)
    BY <2>8, <1>t DEF AfterRelease, Open, Maintain, Crash, diskVars
  <2> QED
    BY <2>1, <2>2, <2>3, <2>4, <2>5, <2>6, <2>7, <2>8 DEF Step
<1> QED
  BY <1>1, <1>t DEF CacheInv, Exclusion, Unheld

\* A lease is new only where the process has one already or has just verified
\* the entry.
LEMMA NewLease ==
    ASSUME CacheInv, NEW p \in Procs, Step(p) \/ Crash(p), NEW e \in Entries,
           leases[p][e] = 0, leases'[p][e] > 0
    PROVE  disk'[e] = "complete"
<1> USE DEF CacheTypes
<1>t. CacheTypes
  BY DEF CacheInv
<1>1. CASE \E x \in Entries : Materialize(p, x) \/ Retain(p, x) \/ Release(p, x)
  <2>1. PICK x \in Entries : Materialize(p, x) \/ Retain(p, x) \/ Release(p, x)
    BY <1>1
  <2>2. leases[p][x] \in Nat
    BY <1>t
  <2> QED
    BY <2>1, <2>2, <1>t DEF Materialize, Retain, Release, lockVars
<1>2. CASE Verify(p) \/ VerifyBusy(p) \/ VerifyAgain(p)
  BY <1>2, <1>t DEF Verify, VerifyBusy, VerifyAgain, Lease
<1>3. CASE \/ LockShared(p) \/ TryShared(p) \/ RelockShared(p) \/ TryExclusive(p) \/ Recheck(p)
           \/ CreatePartial(p) \/ Download(p) \/ Discard(p) \/ Relock(p)
  BY <1>3, <1>t DEF LockShared, TryShared, RelockShared, TryExclusive, Recheck, CreatePartial, Download,
                    Discard, Relock, lockVars
<1>4. CASE Publish(p) \/ PublishSize(p) \/ PublishFails(p) \/ TakenBack(p)
  <2>1. UNCHANGED leases
    BY <1>4 DEF Publish, PublishSize, PublishFails, TakenBack, lockVars
  <2> QED
    BY <2>1
<1>5. CASE \/ AfterRelease(p) \/ Open(p) \/ Maintain(p) \/ Scan(p) \/ EvictOldest(p) \/ Evicted(p)
           \/ MaintenanceDone(p) \/ MaintenanceFails(p) \/ Crash(p)
  BY <1>5, <1>t DEF AfterRelease, Open, Maintain, Scan, EvictOldest, Evicted, MaintenanceDone,
                    MaintenanceFails, Crash, lockVars
<1> QED
  BY <1>1, <1>2, <1>3, <1>4, <1>5 DEF Step

LEMMA LeasedStep ==
    ASSUME CacheInv, NEW p \in Procs, Step(p) \/ Crash(p), Undisturbed(p)
    PROVE  LeasedEntriesComplete'
<1> SUFFICES ASSUME NEW q \in Procs, NEW e \in Entries, leases'[q][e] > 0
             PROVE  disk'[e] = "complete"
  BY DEF LeasedEntriesComplete
<1>0. leases[q][e] \in Nat
  BY DEF CacheInv, CacheTypes
<1>1. CASE leases[q][e] > 0
  BY <1>1, Spoiling DEF CacheInv, LeasedEntriesComplete, Readers
<1>2. CASE leases[q][e] = 0
  <2>1. q = p
    BY <1>2 DEF Undisturbed
  <2> QED
    BY <1>2, <2>1, NewLease
<1> QED
  BY <1>0, <1>1, <1>2

-----------------------------------------------------------------------------
LEMMA CacheInvInit == CacheInit => CacheInv
<1> SUFFICES ASSUME CacheInit PROVE CacheInv
  OBVIOUS
<1> USE DEF CacheInit
<1>1. CacheTypes
  BY DEF CacheTypes, Contents, Stages
<1>2. \A p \in Procs : Local(p)
  BY DEF Local, Wanting, Holding, Keeping, Evicting, Writing, Fetching, Maintaining
<1>3. Exclusion /\ LeasedEntriesComplete
  BY DEF Exclusion, LeasedEntriesComplete
<1> QED
  BY <1>1, <1>2, <1>3 DEF CacheInv

LEMMA CacheInvStep == CacheInv /\ [CacheNext]_cacheVars => CacheInv'
<1> SUFFICES ASSUME CacheInv, [CacheNext]_cacheVars PROVE CacheInv'
  OBVIOUS
<1>1. CASE CacheNext
  <2>1. PICK p \in setup.procs : Step(p) \/ Crash(p)
    BY <1>1 DEF CacheNext
  <2>2. p \in Procs /\ UNCHANGED setup
    BY <1>1, SetupsAssumption DEF CacheNext, CacheInv, CacheTypes, IsSetup
  <2>3. Undisturbed(p)
    BY <2>1, <2>2, Guarantee
  <2>4. CacheTypes'
    BY <2>1, <2>2, CacheTypesStep
  <2>5. Local(p)' /\ \A q \in Procs \ {p} : Local(q)'
    BY <2>1, <2>2, <2>3, OwnStepKeepsLocal, OthersKeepLocal
  <2>6. Exclusion' /\ LeasedEntriesComplete'
    BY <2>1, <2>2, <2>3, <2>4, ExclusionStep, LeasedStep
  <2> QED
    BY <2>4, <2>5, <2>6 DEF CacheInv
<1>2. CASE UNCHANGED cacheVars
  BY <1>2 DEF cacheVars, diskVars, lockVars, storeVars, scanVars, ghostVars, CacheInv, CacheTypes, Local, Wanting,
              Holding, Keeping, Evicting, Writing, LivePartials, Exclusion, Readers, LeasedEntriesComplete
<1> QED
  BY <1>1, <1>2

\* The inductive invariant of the cache.
THEOREM CacheInvariant == CacheSpec => []CacheInv
BY CacheInvInit, CacheInvStep, PTL DEF CacheSpec

\* Whatever the processes of a host do, and wherever they die, what a process
\* has a lease on is whole, and an entry is fetched by one process at a time,
\* whose partial is left alone (Materialize, publishCacheEntry, maintain).
THEOREM CacheEntriesSound == CacheSpec => []EntriesSound
<1>1. ASSUME CacheInv PROVE OneFetcher
  <2> SUFFICES ASSUME NEW p \in Procs, doing[p] \in Fetching
               PROVE  /\ p \in partials
                      /\ \A q \in Procs \ {p} : doing[q] \in Fetching => want[q] # want[p]
    BY DEF OneFetcher, Fetching
  <2>1. p \in partials
    BY <1>1 DEF CacheInv, Local, Writing, LivePartials
  <2>2. \A q \in Procs : doing[q] \in Fetching => exclusive[want[q]] = q
    BY <1>1 DEF CacheInv, Local, Holding
  <2> QED
    BY <2>1, <2>2
<1>2. CacheInv => EntriesSound
  BY <1>1 DEF CacheInv, EntriesSound
<1> QED
  BY CacheInvariant, <1>2, PTL

-----------------------------------------------------------------------------
(* The limit.  While no process dies and no removal or write fails, what    *)
(* the maintainer adds up is on disk; and while the cache is over its       *)
(* limit, there is a process that has not been at rest since .size-v1 said  *)
(* so, and will see it.                                                     *)

\* The bytes of the entries of a set.
Pile(size, S) == Cardinality(UNION {{e} \X (1 .. size[e]) : e \in S})

\* The sizes of what is on a disk, and the bytes of all its entries but one.
SizesOn(d) == [e \in Entries |-> CASE d[e] = "complete" -> Size[e]
                                  [] d[e] = "damaged"  -> Size[e] \div 2
                                  [] OTHER             -> 0]
RestOn(d, e) == Pile(SizesOn(d), Entries \ {e})
Rest(e) == RestOn(disk, e)

\* Who has an entry for itself needs it.
Owned ==
    \A e \in Entries, q \in Procs : exclusive[e] = q =>
        \/ want[q] = e /\ doing[q] \in {"recheck", "createPartial", "size", "rollback", "discard", "relock"}
                                       \cup Fetching \cup Maintaining
        \/ doing[q] = "evict" /\ Head(scan).entry = e

Sizing == {"size", "rollback"} \cup Maintaining

\* The maintainer maintains, and what is half removed is what it removes.
Removing(p, e) == \/ doing[p] = "rollback" /\ want[p] = e
                  \/ doing[p] = "evict" /\ Head(scan).entry = e

Kept ==
    /\ \A p \in Procs : maintainer = p => doing[p] \in Sizing
    /\ \A e \in Entries : disk[e] \in {"absent", "complete"} \/ \E p \in Procs : Removing(p, e)

\* All that is on disk is in the list once.
Once(s) == \A i, j \in 1..Len(s) : s[i] = s[j] => i = j

Listed ==
    /\ \A e \in Entries : e \in Range(lru) <=> disk[e] # "absent"
    /\ Once(lru)

\* What .size-v1 and the running total say of the disk.
Known == /\ recorded \in Nat \cup {none} /\ total \in Nat
         /\ maintainer = none => recorded \in {none, DiskBytes}

Sized(p) ==
    /\ doing[p] = "size" => disk[want[p]] = "complete"
    /\ doing[p] \in {"size", "rollback"} => recorded \in {none, Rest(want[p])}
    /\ doing[p] = "scanned" => total = DiskBytes
    /\ doing[p] = "evict" => total = Rest(Head(scan).entry) + Size[Head(scan).entry]

\* What is still to be considered is on disk as it was scanned.
ScanSound(p) ==
    doing[p] \in {"scanned", "evict"} =>
        /\ \A i \in 1..Len(scan) :
             /\ scan[i].size = Size[scan[i].entry]
             /\ disk[scan[i].entry] = "complete" \/ (doing[p] = "evict" /\ i = 1)
        /\ \A i, j \in 1..Len(scan) : scan[i].entry = scan[j].entry => i = j

Accounted == Kept /\ Listed /\ Known /\ \A p \in Procs : Sized(p) /\ ScanSound(p)

\* Without a recorded size no store has opened yet.
Unopened ==
    recorded = none =>
        /\ \A e \in Entries : disk[e] = "absent"
        /\ \A p \in Procs :
             /\ ~opened[p] /\ want[p] = none /\ doing[p] \in {"opening", "idle", "maintain", "scanned"}
             /\ \A e \in Entries : leases[p][e] = 0

\* A process other than p that will look at the recorded size, or p when it
\* gives back a lease.
Busy(p) == \E q \in Procs : (q # p /\ doing[q] # "idle") \/ \E e \in Entries : leases[q][e] > 0

\* An entry that stays has been used since the scan or was not evictable.
PassedOver ==
    \/ touched # {}
    \/ \E e \in Entries : disk[e] = "complete" /\ \A i \in 1..Len(scan) : scan[i].entry # e

\* What has been passed over is in use.
Watched(p) ==
    doing[p] \in Maintaining /\ want[p] = none =>
        /\ recorded >= DiskBytes
        /\ recorded > MaxBytes /\ doing[p] # "maintain" /\ PassedOver => Busy(p)

Awaited ==
    recorded # none =>
        /\ maintainer = none /\ recorded > MaxBytes => Busy(none)
        /\ \A p \in Procs : Watched(p)

LimitInv ==
    /\ Owned
    /\ faults \in Nat
    /\ faults = 0 => Accounted
    /\ faults = 0 /\ setup.bounded = setup.procs => Unopened /\ (~failures => Awaited)

-----------------------------------------------------------------------------
(* Piles of bytes.                                                         *)

LEMMA PileFinite ==
    ASSUME NEW b \in [Entries -> Nat], NEW S \in SUBSET Entries
    PROVE  IsFiniteSet(UNION {{e} \X (1 .. b[e]) : e \in S})
<1> DEFINE P == {{e} \X (1 .. b[e]) : e \in S}
<1>1. IsFiniteSet(S)
  BY FS_Subset, EntriesAssumption
<1>2. [e \in S |-> {e} \X (1 .. b[e])] \in Surjection(S, P)
  BY DEF Surjection
<1>3. IsFiniteSet(P)
  BY <1>1, <1>2, FS_Surjection
<1>4. ASSUME NEW T \in P PROVE IsFiniteSet(T)
  <2>1. PICK e \in S : T = {e} \X (1 .. b[e])
    OBVIOUS
  <2>2. IsFiniteSet({e}) /\ IsFiniteSet(1 .. b[e])
    <3>1. 1 \in Int /\ b[e] \in Int
      OBVIOUS
    <3> QED
      BY <3>1, FS_Singleton, FS_Interval
  <2> QED
    BY <2>1, <2>2, FS_Product
<1> HIDE DEF P
<1>5. IsFiniteSet(UNION P)
  BY <1>3, <1>4, FS_UNION
<1> QED
  BY <1>5 DEF P

\* A pile is what one entry has and what the others have.
LEMMA PileSplit ==
    ASSUME NEW b \in [Entries -> Nat], NEW S \in SUBSET Entries, NEW e \in S
    PROVE  /\ Pile(b, S \ {e}) \in Nat /\ Pile(b, S) \in Nat
           /\ Pile(b, S) = Pile(b, S \ {e}) + b[e]
<1> DEFINE R == UNION {{x} \X (1 .. b[x]) : x \in S \ {e}}
           O == {e} \X (1 .. b[e])
           A == UNION {{x} \X (1 .. b[x]) : x \in S}
<1>1. IsFiniteSet(R) /\ IsFiniteSet(A)
  BY PileFinite
<1>2. IsFiniteSet(O) /\ Cardinality(O) = b[e]
  <2>0. b[e] \in Nat
    OBVIOUS
  <2>1. IsFiniteSet({e}) /\ Cardinality({e}) = 1
    BY FS_Singleton
  <2>2. IsFiniteSet(1 .. b[e]) /\ Cardinality(1 .. b[e]) = b[e]
    BY <2>0, FS_Interval
  <2>3. IsFiniteSet(O) /\ Cardinality(O) = Cardinality({e}) * Cardinality(1 .. b[e])
    BY <2>1, <2>2, FS_Product
  <2> QED
    BY <2>0, <2>1, <2>2, <2>3
<1>3. A = R \cup O
  OBVIOUS
<1>4. R \cap O = {}
  OBVIOUS
<1>5. Cardinality(R) \in Nat /\ Cardinality(A) \in Nat
  BY <1>1, FS_CardinalityType
<1> HIDE DEF R, O, A
<1>6. Cardinality(A) = Cardinality(R) + Cardinality(O)
  <2>1. Cardinality(R \cup O) = Cardinality(R) + Cardinality(O) - Cardinality(R \cap O)
    BY <1>1, <1>2, FS_Union
  <2>2. Cardinality({}) = 0
    BY FS_EmptySet
  <2> QED
    BY <1>2, <1>3, <1>4, <1>5, <2>1, <2>2
<1> QED
  BY <1>2, <1>5, <1>6 DEF Pile, R, A

\* A pile is of the sizes of its entries only.
LEMMA PileAgree ==
    ASSUME NEW b, NEW c, NEW S, \A x \in S : b[x] = c[x]
    PROVE  Pile(b, S) = Pile(c, S)
<1>1. {{x} \X (1 .. b[x]) : x \in S} = {{x} \X (1 .. c[x]) : x \in S}
  OBVIOUS
<1> QED
  BY <1>1 DEF Pile

\* Where there are bytes there is an entry that has them.
LEMMA PileZero ==
    ASSUME NEW b \in [Entries -> Nat], NEW S \in SUBSET Entries, \A x \in S : b[x] = 0
    PROVE  Pile(b, S) = 0
<1>1. UNION {{x} \X (1 .. b[x]) : x \in S} = {}
  <2>1. \A x \in S : 1 .. b[x] = {}
    OBVIOUS
  <2> QED
    BY <2>1
<1> QED
  BY <1>1, FS_EmptySet DEF Pile

\* The sizes on a disk are numbers.
LEMMA SizesType == ASSUME NEW d PROVE SizesOn(d) \in [Entries -> Nat]
<1> SUFFICES ASSUME NEW e \in Entries PROVE SizesOn(d)[e] \in Nat
  BY DEF SizesOn
<1> QED
  BY SizesAssumption DEF SizesOn

LEMMA DiskSplit ==
    ASSUME NEW e \in Entries
    PROVE  /\ DiskBytes \in Nat /\ Rest(e) \in Nat
           /\ DiskBytes = Rest(e) + SizesOn(disk)[e]
<1>1. DiskBytes = Pile(SizesOn(disk), Entries)
  <2>1. \A x \in Entries : Bytes(x) = SizesOn(disk)[x]
    BY DEF Bytes, SizesOn
  <2>2. {{x} \X (1 .. Bytes(x)) : x \in Entries} = {{x} \X (1 .. SizesOn(disk)[x]) : x \in Entries}
    BY <2>1
  <2> QED
    BY <2>2 DEF DiskBytes, Pile
<1>2. /\ Pile(SizesOn(disk), Entries) \in Nat /\ Rest(e) \in Nat
      /\ Pile(SizesOn(disk), Entries) = Rest(e) + SizesOn(disk)[e]
  BY SizesType, PileSplit DEF Rest, RestOn
<1> QED
  BY <1>1, <1>2

\* What a step does to one entry leaves the rest.
LEMMA DiskStep ==
    ASSUME NEW e \in Entries, \A x \in Entries \ {e} : disk'[x] = disk[x]
    PROVE  /\ RestOn(disk', e) = Rest(e)
           /\ DiskBytes' \in Nat /\ SizesOn(disk')[e] \in Nat
           /\ DiskBytes' = Rest(e) + SizesOn(disk')[e]
<1>2. RestOn(disk', e) = Rest(e)
  <2>1. \A x \in Entries \ {e} : SizesOn(disk')[x] = SizesOn(disk)[x]
    BY DEF SizesOn
  <2> QED
    BY <2>1, PileAgree DEF Rest, RestOn
<1>3. DiskBytes' = Pile(SizesOn(disk'), Entries)
  <2>1. \A x \in Entries : Bytes(x)' = SizesOn(disk')[x]
    BY DEF Bytes, SizesOn
  <2>2. {{x} \X (1 .. Bytes(x)') : x \in Entries} = {{x} \X (1 .. SizesOn(disk')[x]) : x \in Entries}
    BY <2>1
  <2> QED
    BY <2>2 DEF DiskBytes, Pile
<1>4. /\ Pile(SizesOn(disk'), Entries) \in Nat
      /\ Pile(SizesOn(disk'), Entries) = Pile(SizesOn(disk'), Entries \ {e}) + SizesOn(disk')[e]
  BY SizesType, PileSplit
<1>5. RestOn(disk', e) = Pile(SizesOn(disk'), Entries \ {e})
  BY DEF Rest, RestOn
<1>6. SizesOn(disk')[e] \in Nat
  BY SizesType
<1> QED
  BY <1>2, <1>3, <1>4, <1>5, <1>6

\* A disk with bytes has an entry.
LEMMA DiskEmpty ==
    ASSUME \A e \in Entries : disk[e] = "absent"
    PROVE  DiskBytes = 0
<1>1. \A x \in Entries : SizesOn(disk)[x] = 0
  BY DEF SizesOn
<1>2. Pile(SizesOn(disk), Entries) = 0
  BY <1>1, SizesType, PileZero
<1>3. {{x} \X (1 .. Bytes(x)) : x \in Entries} = {{x} \X (1 .. SizesOn(disk)[x]) : x \in Entries}
  <2>1. \A x \in Entries : Bytes(x) = SizesOn(disk)[x]
    BY DEF Bytes, SizesOn
  <2> QED
    BY <2>1
<1> QED
  BY <1>2, <1>3 DEF DiskBytes, Pile

-----------------------------------------------------------------------------
\* Taking an entry out of the list takes that one out, and the newest is in it
\* once.
LEMMA WithoutOnce ==
    ASSUME lru \in Seq(Entries), Once(lru), NEW e \in Entries
    PROVE  /\ Without(e) \in Seq(Entries)
           /\ \A x \in Entries : x \in Range(Without(e)) <=> x \in Range(lru) /\ x # e
           /\ Once(Without(e))
<1>1. CASE e \notin Range(lru)
  BY <1>1 DEF Without
<1>2. CASE e \in Range(lru)
  <2> DEFINE i == CHOOSE i \in 1..Len(lru) : lru[i] = e
             w == SubSeq(lru, 1, i - 1) \o SubSeq(lru, i + 1, Len(lru))
  <2>1. \E j \in 1..Len(lru) : lru[j] = e
    BY <1>2 DEF Range
  <2>2. i \in 1..Len(lru) /\ lru[i] = e
    BY <2>1
  <2>3. Without(e) = w
    BY <1>2 DEF Without
  <2> HIDE DEF i
  <2>4. /\ SubSeq(lru, 1, i - 1) \in Seq(Entries) /\ Len(SubSeq(lru, 1, i - 1)) = i - 1
        /\ \A j \in 1..(i - 1) : SubSeq(lru, 1, i - 1)[j] = lru[j]
    BY <2>2
  <2>5. /\ SubSeq(lru, i + 1, Len(lru)) \in Seq(Entries) /\ Len(SubSeq(lru, i + 1, Len(lru))) = Len(lru) - i
        /\ \A j \in 1..(Len(lru) - i) : SubSeq(lru, i + 1, Len(lru))[j] = lru[i + j]
    BY <2>2
  <2>6. /\ w \in Seq(Entries) /\ Len(w) = Len(lru) - 1
        /\ \A j \in 1..(Len(lru) - 1) : w[j] = IF j < i THEN lru[j] ELSE lru[j + 1]
    <3> DEFINE before == SubSeq(lru, 1, i - 1)
               after  == SubSeq(lru, i + 1, Len(lru))
    <3> HIDE DEF before, after
    <3>1. /\ before \in Seq(Entries) /\ Len(before) = i - 1 /\ \A j \in 1..(i - 1) : before[j] = lru[j]
          /\ after \in Seq(Entries) /\ Len(after) = Len(lru) - i
          /\ \A j \in 1..(Len(lru) - i) : after[j] = lru[i + j]
      BY <2>4, <2>5 DEF before, after
    <3>2. /\ before \o after \in Seq(Entries)
          /\ Len(before \o after) = Len(before) + Len(after)
          /\ \A j \in 1..(Len(before) + Len(after)) :
               (before \o after)[j] = IF j <= Len(before) THEN before[j] ELSE after[j - Len(before)]
      BY <3>1, ConcatProperties
    <3>3. \A j \in 1..(Len(lru) - 1) : (before \o after)[j] = IF j < i THEN lru[j] ELSE lru[j + 1]
      <4> SUFFICES ASSUME NEW j \in 1..(Len(lru) - 1)
                   PROVE  (before \o after)[j] = IF j < i THEN lru[j] ELSE lru[j + 1]
        OBVIOUS
      <4>1. CASE j < i
        BY <2>2, <3>1, <3>2, <4>1
      <4>2. CASE j >= i
        <5>1. j - (i - 1) \in 1..(Len(lru) - i) /\ i + (j - (i - 1)) = j + 1
          BY <2>2, <4>2
        <5>2. after[j - (i - 1)] = lru[j + 1]
          BY <3>1, <5>1
        <5>3. j \in 1..(Len(before) + Len(after)) /\ ~(j <= Len(before)) /\ ~(j < i)
          BY <2>2, <3>1, <4>2
        <5>4. (before \o after)[j] = after[j - (i - 1)]
          BY <3>1, <3>2, <5>3
        <5> QED
          BY <5>2, <5>3, <5>4
      <4>3. j < i \/ j >= i
        BY <2>2
      <4> QED
        BY <4>1, <4>2, <4>3
    <3>4. Len(before \o after) = Len(lru) - 1
      BY <2>2, <3>1, <3>2
    <3>5. w = before \o after
      BY DEF before, after
    <3> QED
      BY <3>2, <3>3, <3>4, <3>5
  <2> HIDE DEF w
  <2>7. ASSUME NEW x \in Entries, x \in Range(w) PROVE x \in Range(lru) /\ x # e
    <3>1. PICK j \in 1..(Len(lru) - 1) : w[j] = x
      BY <2>6, <2>7 DEF Range
    <3>2. PICK k \in 1..Len(lru) : lru[k] = x /\ k # i
      BY <2>2, <2>6, <3>1
    <3> QED
      BY <2>2, <3>2 DEF Range, Once
  <2>8. ASSUME NEW x \in Entries, x \in Range(lru), x # e PROVE x \in Range(w)
    <3>1. PICK k \in 1..Len(lru) : lru[k] = x
      BY <2>8 DEF Range
    <3>2. k # i
      BY <2>2, <2>8, <3>1
    <3>3. PICK j \in 1..(Len(lru) - 1) : w[j] = x
      <4>1. CASE k < i
        BY <2>2, <2>6, <3>1, <4>1
      <4>2. CASE k > i
        <5>1. k - 1 \in 1..(Len(lru) - 1) /\ w[k - 1] = lru[k]
          BY <2>2, <2>6, <4>2
        <5> QED
          BY <3>1, <5>1
      <4> QED
        BY <2>2, <3>2, <4>1, <4>2
    <3> QED
      BY <2>6, <3>3 DEF Range
  <2>9. Once(w)
    <3> SUFFICES ASSUME NEW j \in 1..(Len(lru) - 1), NEW k \in 1..(Len(lru) - 1), w[j] = w[k]
                 PROVE  j = k
      BY <2>6 DEF Once
    <3> DEFINE at(n) == IF n < i THEN n ELSE n + 1
    <3>1. w[j] = lru[at(j)] /\ w[k] = lru[at(k)]
      BY <2>6
    <3>2. at(j) \in 1..Len(lru) /\ at(k) \in 1..Len(lru)
      BY <2>2
    <3>3. at(j) = at(k)
      BY <3>1, <3>2 DEF Once
    <3> QED
      BY <2>2, <3>3
  <2> QED
    BY <2>3, <2>6, <2>7, <2>8, <2>9
<1> QED
  BY <1>1, <1>2

LEMMA NewestOnce ==
    ASSUME lru \in Seq(Entries), Once(lru), NEW e \in Entries
    PROVE  /\ \A x \in Entries : x \in Range(Newest(e)) <=> x \in Range(lru) \/ x = e
           /\ Once(Newest(e))
<1> DEFINE w == Without(e)
<1>1. /\ w \in Seq(Entries) /\ Once(w)
      /\ \A x \in Entries : x \in Range(w) <=> x \in Range(lru) /\ x # e
  BY WithoutOnce
<1> HIDE DEF w
<1>2. /\ Append(w, e) \in Seq(Entries) /\ Len(Append(w, e)) = Len(w) + 1
      /\ \A j \in 1..Len(w) : Append(w, e)[j] = w[j]
      /\ Append(w, e)[Len(w) + 1] = e
  BY <1>1, AppendProperties
<1>3. Len(w) \in Nat
  BY <1>1
<1>4. ASSUME NEW x \in Entries PROVE x \in Range(Append(w, e)) <=> x \in Range(w) \/ x = e
  BY <1>2, <1>3 DEF Range
<1>5. Once(Append(w, e))
  <2>1. \A j \in 1..Len(w) : w[j] # e
    BY <1>1 DEF Range
  <2> QED
    BY <1>1, <1>2, <1>3, <2>1 DEF Once
<1>6. Newest(e) = Append(w, e)
  BY DEF Newest, w
<1> QED
  BY <1>1, <1>4, <1>5, <1>6

-----------------------------------------------------------------------------
(* What a process has for itself.                                          *)

LEMMA OwnedStep ==
    ASSUME CacheInv, Owned, NEW p \in Procs, Step(p) \/ Crash(p), Undisturbed(p)
    PROVE  Owned'
<1>t. CacheTypes /\ Local(p) /\ p # none
  BY ProcsAssumption DEF CacheInv
<1> DEFINE Needs(q, e) ==
        \/ want[q] = e /\ doing[q] \in {"recheck", "createPartial", "size", "rollback", "discard", "relock"}
                                       \cup Fetching \cup Maintaining
        \/ doing[q] = "evict" /\ Head(scan).entry = e
<1>1. ASSUME NEW e \in Entries, NEW q \in Procs, exclusive'[e] = q, q # p
      PROVE  Needs(q, e)'
  <2>1. exclusive[e] = q /\ doing'[q] = doing[q] /\ want'[q] = want[q]
    BY <1>1 DEF Undisturbed
  <2>2. doing[q] = "evict" => scan' = scan
    BY <1>1 DEF Undisturbed, CacheInv, Local, Keeping, Maintaining
  <2> QED
    BY <2>1, <2>2 DEF Owned
<1>2. ASSUME NEW e \in Entries, exclusive'[e] = p
      PROVE  Needs(p, e)'
  <2>o. exclusive[e] = p => Needs(p, e)
    BY DEF Owned
  <2>n. none \notin Entries
    BY EntriesAssumption
  <2> HIDE DEF Undisturbed
  <2> USE DEF CacheTypes, Fetching, Maintaining, Goto
  <2>1. CASE \E x \in Entries : Materialize(p, x) \/ Retain(p, x) \/ Release(p, x)
    <3>1. doing[p] = "idle" /\ UNCHANGED <<exclusive, scan>>
      BY <2>1 DEF Materialize, Retain, Release, lockVars, scanVars
    <3> QED
      BY <1>2, <2>o, <3>1
  <2>2. CASE LockShared(p) \/ TryShared(p) \/ RelockShared(p)
    BY <1>2, <1>t, <2>o, <2>2 DEF LockShared, TryShared, RelockShared, Fail, lockVars
  <2>3. CASE Verify(p) \/ VerifyBusy(p) \/ VerifyAgain(p)
    BY <1>2, <1>t, <2>o, <2>3 DEF Verify, VerifyBusy, VerifyAgain, Fail, Lease
  <2>4. CASE TryExclusive(p)
    BY <1>2, <1>t, <2>o, <2>4 DEF TryExclusive, TakeEntry
  <2>5. CASE Recheck(p) \/ Relock(p)
    BY <1>2, <1>t, <2>o, <2>5 DEF Recheck, Relock, DropEntry, Fail
  <2>6. CASE CreatePartial(p) \/ Download(p)
    BY <1>2, <1>t, <2>o, <2>6 DEF CreatePartial, Download, DropEntry, Fail
  <2>7. CASE Discard(p)
    BY <1>2, <1>t, <2>o, <2>7 DEF Discard, DropEntry, Fail
  <2>8. CASE Publish(p) \/ PublishSize(p)
    BY <1>2, <1>t, <2>o, <2>8 DEF Publish, PublishSize
  <2>9. CASE PublishFails(p) \/ TakenBack(p)
    BY <1>2, <1>t, <2>o, <2>9 DEF PublishFails, TakeBack, TakenBack, lockVars
  <2>10. CASE AfterRelease(p) \/ Open(p) \/ Maintain(p)
    BY <1>2, <1>t, <2>o, <2>10 DEF AfterRelease, Open, Maintain, lockVars
  <2>11. CASE Scan(p)
    BY <1>2, <1>t, <2>o, <2>11 DEF Scan, lockVars
  <2>12. CASE EvictOldest(p)
    BY <1>2, <1>t, <2>o, <2>12 DEF EvictOldest
  <2>13. CASE Evicted(p)
    BY <1>2, <1>t, <2>o, <2>13 DEF Evicted
  <2>14. CASE MaintenanceDone(p)
    BY <1>2, <1>t, <2>o, <2>n, <2>14 DEF MaintenanceDone, AfterMaintenance
  <2>15. CASE MaintenanceFails(p)
    BY <1>2, <1>t, <2>o, <2>n, <2>15 DEF MaintenanceFails, TakeBack
  <2>16. CASE Crash(p)
    BY <1>2, <1>t, <2>16 DEF Crash
  <2> QED
    BY <2>1, <2>2, <2>3, <2>4, <2>5, <2>6, <2>7, <2>8, <2>9, <2>10, <2>11, <2>12, <2>13, <2>14, <2>15, <2>16 DEF Step
<1>3. \A e \in Entries, q \in Procs : exclusive'[e] = q => Needs(q, e)'
  BY <1>1, <1>2
<1> QED
  BY <1>3 DEF Owned

-----------------------------------------------------------------------------
(* The steps, by what they do to the disk and what is known of it.         *)

\* Nothing happens to the disk, and the process does not maintain.
Light(p) ==
    /\ UNCHANGED <<disk, recorded, maintainer, total, scan>>
    /\ doing[p] \notin Sizing /\ doing'[p] \notin Sizing
    /\ lru' = lru \/ \E e \in Entries : disk[e] = "complete" /\ lru' = Newest(e)

Heavy(p) ==
    \/ Publish(p) /\ maintainer = none /\ disk[want[p]] = "absent"
    \/ PublishSize(p) \/ PublishFails(p) \/ TakenBack(p)
    \/ Maintain(p) \/ Scan(p) \/ EvictOldest(p) \/ Evicted(p) \/ MaintenanceDone(p)

LEMMA LightOrHeavy ==
    ASSUME CacheInv, NEW p \in Procs, Step(p)
    PROVE  Light(p) \/ Heavy(p) \/ MaintenanceFails(p)
<1>t. CacheTypes /\ Wanting(p)
  BY DEF CacheInv, Local
<1> USE DEF CacheTypes, Light, Sizing, Maintaining, Goto
<1>1. CASE \E x \in Entries : Materialize(p, x) \/ Retain(p, x) \/ Release(p, x)
  <2>1. PICK x \in Entries : Materialize(p, x) \/ Retain(p, x) \/ Release(p, x)
    BY <1>1
  <2>2. CASE Materialize(p, x)
    BY <2>2, <1>t DEF Materialize, diskVars, lockVars, scanVars
  <2>3. CASE Retain(p, x)
    <3>1. disk[x] = "complete"
      BY <2>3, <1>t DEF Retain, CacheInv, LeasedEntriesComplete
    <3> QED
      BY <2>3, <3>1, <1>t DEF Retain, Touch
  <2>4. CASE Release(p, x)
    BY <2>4, <1>t DEF Release, diskVars, scanVars
  <2> QED
    BY <2>1, <2>2, <2>3, <2>4
<1>2. CASE LockShared(p) \/ TryShared(p) \/ RelockShared(p)
  BY <1>2, <1>t DEF LockShared, TryShared, RelockShared, Fail, diskVars, lockVars, scanVars
<1>3. CASE Verify(p) \/ VerifyBusy(p) \/ VerifyAgain(p)
  <2>1. want[p] \in Entries
    BY <1>3, <1>t DEF Wanting, Verify, VerifyBusy, VerifyAgain
  <2> QED
    BY <1>3, <1>t, <2>1 DEF Verify, VerifyBusy, VerifyAgain, Fail, Lease, Touch
<1>4. CASE TryExclusive(p)
  BY <1>4, <1>t DEF TryExclusive, diskVars, scanVars
<1>5. CASE Recheck(p) \/ Relock(p)
  BY <1>5, <1>t DEF Recheck, Relock, Fail, diskVars, scanVars
<1>6. CASE CreatePartial(p) \/ Download(p) \/ Discard(p)
  BY <1>6, <1>t DEF CreatePartial, Download, Discard, Fail, diskVars, scanVars
<1>7. CASE Publish(p)
  BY <1>7, <1>t DEF Publish, Heavy
<1>8. CASE AfterRelease(p) \/ Open(p)
  BY <1>8, <1>t DEF AfterRelease, Open, diskVars, lockVars, scanVars
<1>9. CASE \/ PublishSize(p) \/ PublishFails(p) \/ TakenBack(p) \/ Maintain(p) \/ Scan(p)
           \/ EvictOldest(p) \/ Evicted(p) \/ MaintenanceDone(p) \/ MaintenanceFails(p)
  BY <1>9 DEF Heavy
<1> QED
  BY <1>1, <1>2, <1>3, <1>4, <1>5, <1>6, <1>7, <1>8, <1>9 DEF Step

-----------------------------------------------------------------------------
(* What is known of the disk.                                              *)

\* Nobody maintains beside the maintainer.
LEMMA Alone ==
    ASSUME CacheInv, NEW p \in Procs, maintainer \in {none, p}, NEW q \in Procs \ {p}
    PROVE  doing[q] \notin Sizing
BY ProcsAssumption DEF CacheInv, Local, Keeping, Sizing, Maintaining

LEMMA SameDisk ==
    ASSUME UNCHANGED disk
    PROVE  DiskBytes' = DiskBytes /\ \A e : Rest(e)' = Rest(e)
<1>1. \A e : Bytes(e)' = Bytes(e)
  BY DEF Bytes
<1>2. {{x} \X (1 .. Bytes(x)') : x \in Entries} = {{x} \X (1 .. Bytes(x)) : x \in Entries}
  BY <1>1
<1>3. DiskBytes' = DiskBytes
  BY <1>2 DEF DiskBytes
<1>4. SizesOn(disk') = SizesOn(disk)
  OBVIOUS
<1> QED
  BY <1>3, <1>4 DEF Rest

LEMMA LightAccounted ==
    ASSUME CacheInv, Accounted, NEW p \in Procs, Undisturbed(p), Light(p)
    PROVE  Accounted'
<1>t. CacheTypes
  BY DEF CacheInv
<1>1. UNCHANGED <<disk, recorded, maintainer, total, scan>>
  BY DEF Light
<1>2. DiskBytes' = DiskBytes /\ \A e : Rest(e)' = Rest(e)
  BY <1>1, SameDisk
<1>3. doing[p] \notin Sizing /\ doing'[p] \notin Sizing
  BY DEF Light
<1>4. \A q \in Procs \ {p} : doing'[q] = doing[q] /\ want'[q] = want[q]
  BY DEF Undisturbed
<1>5. Kept'
  <2>1. \A q \in Procs : maintainer' = q => doing'[q] \in Sizing
    BY <1>1, <1>3, <1>4 DEF Accounted, Kept
  <2>2. ASSUME NEW e \in Entries, disk'[e] \notin {"absent", "complete"}
        PROVE  \E q \in Procs : Removing(q, e)'
    <3>1. PICK q \in Procs : Removing(q, e)
      BY <1>1, <2>2 DEF Accounted, Kept
    <3>2. q # p
      BY <1>3, <3>1 DEF Removing, Sizing, Maintaining
    <3>3. Removing(q, e)'
      BY <1>1, <1>4, <3>1, <3>2 DEF Removing
    <3> QED
      BY <3>3
  <2> QED
    BY <2>1, <2>2 DEF Kept
<1>6. Listed'
  <2>1. CASE lru' = lru
    BY <1>1, <2>1 DEF Accounted, Listed
  <2>2. CASE \E e \in Entries : disk[e] = "complete" /\ lru' = Newest(e)
    <3>1. PICK e \in Entries : disk[e] = "complete" /\ lru' = Newest(e)
      BY <2>2
    <3>2. /\ \A x \in Entries : x \in Range(lru') <=> x \in Range(lru) \/ x = e
          /\ Once(lru')
      BY <3>1, <1>t, NewestOnce DEF CacheTypes, Accounted, Listed
    <3> QED
      BY <1>1, <3>1, <3>2 DEF Accounted, Listed
  <2> QED
    BY <2>1, <2>2 DEF Light
<1>7. Known'
  BY <1>1, <1>2 DEF Accounted, Known
<1>8. ASSUME NEW q \in Procs PROVE Sized(q)' /\ ScanSound(q)'
  <2>1. CASE q = p
    BY <2>1, <1>3 DEF Sized, ScanSound, Sizing, Maintaining
  <2>2. CASE q # p
    BY <2>2, <1>1, <1>2, <1>4 DEF Accounted, Sized, ScanSound
  <2> QED
    BY <2>1, <2>2
<1> QED
  BY <1>5, <1>6, <1>7, <1>8 DEF Accounted

\* While p maintains, or begins or ends to, it suffices to look at p.
LEMMA AloneAccounted ==
    ASSUME CacheInv, NEW p \in Procs, Undisturbed(p), maintainer \in {none, p},
           maintainer' \in {none, p}, maintainer' = p => doing'[p] \in Sizing,
           \A e \in Entries : disk'[e] \in {"absent", "complete"} \/ Removing(p, e)',
           Listed', Known', Sized(p)', ScanSound(p)'
    PROVE  Accounted'
<1>1. ASSUME NEW q \in Procs \ {p} PROVE doing'[q] \notin Sizing
  <2>1. doing'[q] = doing[q]
    BY DEF Undisturbed
  <2> QED
    BY <2>1, Alone
<1>2. Kept'
  <2>1. \A q \in Procs : maintainer' = q => doing'[q] \in Sizing
    BY ProcsAssumption
  <2>2. \A e \in Entries : disk'[e] \in {"absent", "complete"} \/ \E q \in Procs : Removing(q, e)'
    OBVIOUS
  <2> QED
    BY <2>1, <2>2 DEF Kept
<1>3. ASSUME NEW q \in Procs \ {p} PROVE Sized(q)' /\ ScanSound(q)'
  BY <1>1 DEF Sized, ScanSound, Sizing, Maintaining
<1> QED
  BY <1>2, <1>3 DEF Accounted

\* What the disk may hold while p maintains.
LEMMA OnlyRemoving ==
    ASSUME CacheInv, Accounted, NEW p \in Procs, maintainer \in {none, p}, NEW e \in Entries,
           disk[e] \notin {"absent", "complete"}
    PROVE  Removing(p, e)
BY Alone DEF Accounted, Kept, Removing, Sizing, Maintaining

LEMMA PublishAccounted ==
    ASSUME CacheInv, Accounted, NEW p \in Procs, Undisturbed(p),
           Publish(p), maintainer = none, disk[want[p]] = "absent"
    PROVE  Accounted'
<1> DEFINE e == want[p]
<1>t. CacheTypes /\ e \in Entries
  BY DEF CacheInv, Local, Wanting, Publish, Maintaining
<1>1. /\ disk' = [disk EXCEPT ![e] = "complete"] /\ lru' = Newest(e)
      /\ maintainer' = p /\ doing' = [doing EXCEPT ![p] = "size"]
      /\ UNCHANGED <<want, scan, recorded, total>>
  BY DEF Publish, Touch, Goto
<1>2. doing'[p] = "size" /\ want'[p] = e /\ disk'[e] = "complete" /\ doing[p] = "publish"
  BY <1>t, <1>1 DEF CacheTypes, Publish
<1>3. Listed'
  <2>1. /\ \A x \in Entries : x \in Range(lru') <=> x \in Range(lru) \/ x = e
        /\ Once(lru')
    BY <1>1, <1>t, NewestOnce DEF CacheTypes, Accounted, Listed
  <2> QED
    BY <1>1, <1>2, <1>t, <2>1 DEF Accounted, Listed, CacheTypes
<1>4. Known'
  BY <1>1, ProcsAssumption DEF Accounted, Known
<1>5. recorded \in {none, Rest(e)}
  <2>1. SizesOn(disk)[e] = 0
    BY <1>t DEF SizesOn
  <2> QED
    BY <1>t, <2>1, DiskSplit DEF Accounted, Known
<1>6. RestOn(disk', e) = Rest(e)
  <2>1. \A x \in Entries \ {e} : disk'[x] = disk[x]
    BY <1>1, <1>t DEF CacheTypes
  <2> QED
    BY <1>t, <2>1, DiskStep
<1>7. Sized(p)'
  <2>1. Rest(want[p])' = Rest(e)
    BY <1>1, <1>6 DEF Rest
  <2> QED
    BY <1>1, <1>2, <1>5, <2>1 DEF Sized
<1>8. ScanSound(p)'
  BY <1>2 DEF ScanSound
<1>9. \A x \in Entries : disk'[x] \in {"absent", "complete"} \/ Removing(p, x)'
  BY <1>1, <1>2, <1>t, OnlyRemoving DEF CacheTypes, Removing
<1> QED
  BY <1>1, <1>2, <1>3, <1>4, <1>7, <1>8, <1>9, AloneAccounted DEF Sizing

LEMMA PublishSizeAccounted ==
    ASSUME CacheInv, Accounted, NEW p \in Procs, Undisturbed(p), PublishSize(p)
    PROVE  Accounted'
<1> DEFINE e == want[p]
<1>t. CacheTypes /\ e \in Entries /\ maintainer = p
  BY DEF CacheInv, Local, Wanting, Keeping, PublishSize, Maintaining
<1>1. doing[p] = "size" /\ UNCHANGED <<disk, lru, want, scan, total>>
  BY DEF PublishSize, scanVars
<1>2. DiskBytes' = DiskBytes
  BY <1>1, SameDisk
<1>3. DiskBytes = Rest(e) + Size[e] /\ DiskBytes \in Nat
  <2>1. SizesOn(disk)[e] = Size[e]
    BY <1>t, <1>1 DEF SizesOn, Accounted, Sized
  <2> QED
    BY <1>t, <2>1, DiskSplit
<1>4. recorded \in {none, Rest(e)}
  BY <1>1 DEF Accounted, Sized
<1>5. \/ doing'[p] = "maintain" /\ UNCHANGED <<recorded, maintainer>>
      \/ doing'[p] = "relock" /\ maintainer' = none /\ recorded # none /\ recorded' = recorded + Size[e]
      \/ doing'[p] = "relock" /\ maintainer' = none /\ recorded = none /\ recorded' = recorded
  BY <1>t DEF CacheTypes, PublishSize, AddSize, Goto
<1>6. Listed'
  BY <1>1 DEF Accounted, Listed
<1>7. Known'
  BY <1>t, <1>1, <1>2, <1>3, <1>4, <1>5, ProcsAssumption DEF Accounted, Known
<1>8. Sized(p)' /\ ScanSound(p)'
  BY <1>5 DEF Sized, ScanSound
<1>9. \A x \in Entries : disk'[x] \in {"absent", "complete"} \/ Removing(p, x)'
  BY <1>t, <1>1, OnlyRemoving DEF Removing
<1> QED
  BY <1>t, <1>5, <1>6, <1>7, <1>8, <1>9, AloneAccounted, ProcsAssumption DEF Sizing, Maintaining

LEMMA PublishFailsAccounted ==
    ASSUME CacheInv, Accounted, NEW p \in Procs, Undisturbed(p), PublishFails(p)
    PROVE  Accounted'
<1> DEFINE e == want[p]
<1>t. CacheTypes /\ e \in Entries /\ maintainer = p
  BY DEF CacheInv, Local, Wanting, Keeping, PublishFails, Maintaining
<1>1. /\ doing[p] = "size" /\ doing'[p] = "rollback"
      /\ UNCHANGED <<lru, recorded, maintainer, want, scan, total>>
  BY <1>t DEF CacheTypes, PublishFails, TakeBack, Goto, lockVars, scanVars
<1>2. PICK c \in {"damaged", "headless"} : disk' = [disk EXCEPT ![e] = c]
  BY DEF PublishFails, TakeBack
<1>3. disk'[e] = c /\ \A x \in Entries \ {e} : disk'[x] = disk[x]
  BY <1>t, <1>2 DEF CacheTypes
<1>4. disk[e] = "complete"
  BY <1>1 DEF Accounted, Sized
<1>5. RestOn(disk', e) = Rest(e)
  BY <1>t, <1>3, DiskStep
<1>6. Listed'
  <2>1. \A x \in Entries : disk'[x] # "absent" <=> disk[x] # "absent"
    BY <1>4, <1>3
  <2> QED
    BY <1>1, <2>1 DEF Accounted, Listed
<1>7. Known'
  BY <1>t, <1>1, ProcsAssumption DEF Accounted, Known
<1>8. Sized(p)'
  <2>1. Rest(want[p])' = Rest(e)
    BY <1>1, <1>5 DEF Rest
  <2> QED
    BY <1>1, <2>1 DEF Accounted, Sized
<1>9. ScanSound(p)'
  BY <1>1 DEF ScanSound
<1>10. \A x \in Entries : disk'[x] \in {"absent", "complete"} \/ Removing(p, x)'
  BY <1>t, <1>1, <1>3, OnlyRemoving DEF Removing
<1> QED
  BY <1>t, <1>1, <1>6, <1>7, <1>8, <1>9, <1>10, AloneAccounted DEF Sizing

LEMMA TakenBackAccounted ==
    ASSUME CacheInv, Accounted, NEW p \in Procs, Undisturbed(p), TakenBack(p), UNCHANGED faults, faults \in Nat
    PROVE  Accounted'
<1> DEFINE e == want[p]
<1>t. CacheTypes /\ e \in Entries /\ maintainer = p
  BY DEF CacheInv, Local, Wanting, Keeping, TakenBack, Maintaining
<1>1. /\ doing[p] = "rollback" /\ doing'[p] = "discard" /\ maintainer' = none
      /\ UNCHANGED <<recorded, want, scan, total>>
  BY <1>t DEF CacheTypes, TakenBack, Goto, scanVars
<1>2. disk' = [disk EXCEPT ![e] = "absent"] /\ lru' = Without(e)
  BY DEF TakenBack
<1>3. disk'[e] = "absent" /\ \A x \in Entries \ {e} : disk'[x] = disk[x]
  BY <1>t, <1>2 DEF CacheTypes
<1>4. Rest(e) = DiskBytes'
  <2>1. SizesOn(disk')[e] = 0
    BY <1>t, <1>3 DEF SizesOn
  <2>2. DiskBytes' = Rest(e) + SizesOn(disk')[e] /\ Rest(e) \in Nat
    BY <1>t, <1>3, DiskStep, DiskSplit
  <2> QED
    BY <2>1, <2>2
<1>5. Listed'
  <2>1. /\ \A x \in Entries : x \in Range(lru') <=> x \in Range(lru) /\ x # e
        /\ Once(lru')
    BY <1>2, <1>t, WithoutOnce DEF CacheTypes, Accounted, Listed
  <2> QED
    BY <1>3, <2>1 DEF Accounted, Listed
<1>6. Known'
  BY <1>1, <1>4 DEF Accounted, Known, Sized
<1>7. Sized(p)' /\ ScanSound(p)'
  BY <1>1 DEF Sized, ScanSound
<1>8. \A x \in Entries : disk'[x] \in {"absent", "complete"} \/ Removing(p, x)'
  BY <1>t, <1>1, <1>3, OnlyRemoving DEF Removing
<1> QED
  BY <1>t, <1>1, <1>5, <1>6, <1>7, <1>8, AloneAccounted, ProcsAssumption

LEMMA MaintainAccounted ==
    ASSUME CacheInv, Accounted, NEW p \in Procs, Undisturbed(p), Maintain(p)
    PROVE  Accounted'
<1>t. CacheTypes
  BY DEF CacheInv
<1>1. /\ doing[p] = "opening" /\ doing'[p] = "maintain" /\ maintainer = none /\ maintainer' = p
      /\ UNCHANGED <<disk, lru, recorded, want, scan, total>>
  BY <1>t DEF CacheTypes, Maintain, Goto, diskVars, scanVars
<1>2. Listed'
  BY <1>1 DEF Accounted, Listed
<1>3. Known'
  BY <1>1, ProcsAssumption DEF Accounted, Known
<1>4. Sized(p)' /\ ScanSound(p)'
  BY <1>1 DEF Sized, ScanSound
<1>5. \A x \in Entries : disk'[x] \in {"absent", "complete"} \/ Removing(p, x)'
  BY <1>1, OnlyRemoving DEF Removing
<1> QED
  BY <1>1, <1>2, <1>3, <1>4, <1>5, AloneAccounted DEF Sizing, Maintaining

LEMMA ScanAccounted ==
    ASSUME CacheInv, Accounted, NEW p \in Procs, Undisturbed(p), Scan(p)
    PROVE  Accounted'
<1>t. CacheTypes /\ maintainer = p
  BY DEF CacheInv, Local, Keeping, Scan, Maintaining
<1>1. /\ doing[p] = "maintain" /\ doing'[p] = "scanned" /\ scan' = CacheEntries /\ total' = DiskBytes
      /\ UNCHANGED <<disk, lru, recorded, maintainer, want>>
  BY <1>t DEF CacheTypes, Scan, Goto, lockVars
<1>2. DiskBytes' = DiskBytes
  BY <1>1, SameDisk
<1>3. \A x \in Entries : disk[x] \in {"absent", "complete"}
  BY <1>t, <1>1, OnlyRemoving DEF Removing
<1>4. Listed'
  BY <1>1 DEF Accounted, Listed
<1>5. DiskBytes \in Nat
  <2>1. CASE Entries = {}
    <3>1. DiskBytes = 0
      BY <2>1, DiskEmpty
    <3> QED
      BY <3>1
  <2>2. CASE Entries # {}
    BY <2>2, DiskSplit
  <2> QED
    BY <2>1, <2>2
<1>6. Known'
  BY <1>t, <1>1, <1>5, ProcsAssumption DEF Accounted, Known
<1>7. Sized(p)'
  BY <1>1, <1>2 DEF Sized
<1>8. ScanSound(p)'
  <2>1. Len(lru) \in Nat /\ \A i \in 1..Len(lru) : lru[i] \in Entries /\ lru[i] \in Range(lru)
    BY <1>t DEF CacheTypes, Range
  <2>2. Len(scan') = Len(lru) /\ \A i \in 1..Len(lru) : scan'[i] = [entry |-> lru[i], size |-> Bytes(lru[i])]
    BY <1>1, <2>1 DEF CacheEntries
  <2>3. \A i \in 1..Len(lru) : disk[lru[i]] = "complete"
    BY <1>3, <2>1 DEF Accounted, Listed
  <2>4. \A i \in 1..Len(lru) : Bytes(lru[i]) = Size[lru[i]]
    BY <2>3 DEF Bytes
  <2>5. ASSUME NEW i \in 1..Len(lru) PROVE scan'[i].entry = lru[i] /\ scan'[i].size = Size[lru[i]]
    <3>1. scan'[i] = [entry |-> lru[i], size |-> Bytes(lru[i])]
      BY <2>2
    <3> QED
      BY <2>4, <3>1
  <2> QED
    BY <1>1, <2>2, <2>3, <2>5 DEF ScanSound, Accounted, Listed, Once
<1>9. \A x \in Entries : disk'[x] \in {"absent", "complete"} \/ Removing(p, x)'
  BY <1>1, <1>3
<1> QED
  BY <1>t, <1>1, <1>4, <1>6, <1>7, <1>8, <1>9, AloneAccounted DEF Sizing, Maintaining

LEMMA ScanHead ==
    ASSUME CacheTypes, scan # <<>>
    PROVE  /\ Len(scan) \in Nat \ {0} /\ scan[1] = Head(scan) /\ Head(scan).entry \in Entries
           /\ \A i \in 1..Len(scan) : scan[i].entry \in Entries
           /\ Len(Tail(scan)) = Len(scan) - 1
           /\ \A i \in 1..(Len(scan) - 1) : Tail(scan)[i] = scan[i + 1]
<1>t. scan \in Seq([entry : Entries, size : Nat])
  BY DEF CacheTypes
<1>1. Len(scan) \in Nat \ {0} /\ \A i \in 1..Len(scan) : scan[i] \in [entry : Entries, size : Nat]
  <2>1. Len(scan) \in Nat /\ \A i \in 1..Len(scan) : scan[i] \in [entry : Entries, size : Nat]
    BY <1>t, ElementOfSeq, LenProperties
  <2>2. Len(scan) # 0
    BY <1>t, EmptySeq
  <2> QED
    BY <2>1, <2>2
<1>2. scan[1] = Head(scan)
  BY <1>t, HeadTailProperties
<1>3. /\ Len(Tail(scan)) = Len(scan) - 1
      /\ \A i \in 1..(Len(scan) - 1) : Tail(scan)[i] = scan[i + 1]
  BY <1>t, HeadTailProperties
<1> QED
  BY <1>1, <1>2, <1>3

LEMMA EvictOldestAccounted ==
    ASSUME CacheInv, Accounted, NEW p \in Procs, Undisturbed(p), EvictOldest(p)
    PROVE  Accounted'
<1> DEFINE e == Head(scan).entry
<1>t. CacheTypes /\ maintainer = p
  BY DEF CacheInv, Local, Keeping, EvictOldest, Maintaining
<1>1. /\ doing[p] = "scanned" /\ scan # <<>>
      /\ UNCHANGED <<lru, recorded, maintainer, want, total>>
  BY DEF EvictOldest
<1>2. /\ Len(scan) \in Nat \ {0} /\ scan[1] = Head(scan) /\ e \in Entries
      /\ \A i \in 1..Len(scan) : scan[i].entry \in Entries
      /\ Len(Tail(scan)) = Len(scan) - 1
      /\ \A i \in 1..(Len(scan) - 1) : Tail(scan)[i] = scan[i + 1]
  BY <1>t, <1>1, ScanHead
<1>3. \A x \in Entries : disk[x] \in {"absent", "complete"}
  BY <1>t, <1>1, OnlyRemoving DEF Removing
<1>4. /\ \A i \in 1..Len(scan) : scan[i].size = Size[scan[i].entry] /\ disk[scan[i].entry] = "complete"
      /\ \A i, j \in 1..Len(scan) : scan[i].entry = scan[j].entry => i = j
      /\ total = DiskBytes
  BY <1>1 DEF Accounted, ScanSound, Sized
<1>5. CASE Evictable(e)
  <2>1. doing'[p] = "evict" /\ scan' = scan
    BY <1>t, <1>5 DEF CacheTypes, EvictOldest, Goto
  <2>2. PICK c \in {"damaged", "headless"} : disk' = [disk EXCEPT ![e] = c]
    BY <1>5 DEF EvictOldest
  <2>3. disk'[e] = c /\ \A x \in Entries \ {e} : disk'[x] = disk[x]
    BY <1>t, <1>2, <2>2 DEF CacheTypes
  <2>4. disk[e] = "complete"
    BY <1>2, <1>4
  <2>5. total = Rest(e) + Size[e]
    <3>1. SizesOn(disk)[e] = Size[e]
      BY <1>2, <2>4 DEF SizesOn
    <3> QED
      BY <1>2, <1>4, <3>1, DiskSplit
  <2>6. RestOn(disk', e) = Rest(e)
    BY <1>2, <2>3, DiskStep
  <2>7. Listed'
    <3>1. \A x \in Entries : disk'[x] # "absent" <=> disk[x] # "absent"
      BY <2>3, <2>4
    <3> QED
      BY <1>1, <3>1 DEF Accounted, Listed
  <2>8. Known'
    BY <1>t, <1>1, ProcsAssumption DEF Accounted, Known
  <2>9. Sized(p)'
    <3>1. Rest(Head(scan).entry)' = Rest(e)
      BY <2>1, <2>6 DEF Rest
    <3> QED
      BY <1>1, <2>1, <2>5, <3>1 DEF Sized
  <2>10. ScanSound(p)'
    <3>1. \A i \in 1..Len(scan) : i # 1 => scan[i].entry # e
      BY <1>2, <1>4
    <3> QED
      BY <1>2, <1>4, <2>1, <2>3, <3>1 DEF ScanSound
  <2>11. \A x \in Entries : disk'[x] \in {"absent", "complete"} \/ Removing(p, x)'
    BY <1>3, <2>1, <2>3 DEF Removing
  <2> QED
    BY <1>t, <1>1, <2>1, <2>7, <2>8, <2>9, <2>10, <2>11, AloneAccounted DEF Sizing, Maintaining
<1>6. CASE ~Evictable(e)
  <2>1. scan' = Tail(scan) /\ UNCHANGED <<disk, doing>>
    BY <1>6 DEF EvictOldest
  <2>2. DiskBytes' = DiskBytes
    BY <2>1, SameDisk
  <2>3. Listed'
    BY <1>1, <2>1 DEF Accounted, Listed
  <2>4. Known'
    BY <1>t, <1>1, ProcsAssumption DEF Accounted, Known
  <2>5. Sized(p)'
    BY <1>1, <1>4, <2>1, <2>2 DEF Sized
  <2>6. ScanSound(p)'
    <3>1. Len(scan') = Len(scan) - 1 /\ \A i \in 1..(Len(scan) - 1) : scan'[i] = scan[i + 1] /\ i + 1 \in 1..Len(scan)
      BY <1>2, <2>1
    <3> QED
      BY <1>2, <1>4, <2>1, <3>1 DEF ScanSound
  <2>7. \A x \in Entries : disk'[x] \in {"absent", "complete"} \/ Removing(p, x)'
    BY <1>3, <2>1
  <2> QED
    BY <1>t, <1>1, <2>1, <2>3, <2>4, <2>5, <2>6, <2>7, AloneAccounted DEF Sizing, Maintaining
<1> QED
  BY <1>5, <1>6

LEMMA EvictedAccounted ==
    ASSUME CacheInv, Accounted, NEW p \in Procs, Undisturbed(p), Evicted(p)
    PROVE  Accounted'
<1> DEFINE e == Head(scan).entry
<1>t. CacheTypes /\ maintainer = p
  BY DEF CacheInv, Local, Keeping, Evicted, Maintaining
<1>1. /\ doing[p] = "evict" /\ scan # <<>> /\ doing'[p] = "scanned" /\ scan' = Tail(scan)
      /\ total' = total - Head(scan).size
      /\ UNCHANGED <<recorded, maintainer, want>>
  BY <1>t DEF CacheTypes, Evicted, Goto, CacheInv, Local, Evicting
<1>2. /\ Len(scan) \in Nat \ {0} /\ scan[1] = Head(scan) /\ e \in Entries
      /\ \A i \in 1..Len(scan) : scan[i].entry \in Entries
      /\ Len(Tail(scan)) = Len(scan) - 1
      /\ \A i \in 1..(Len(scan) - 1) : Tail(scan)[i] = scan[i + 1]
  BY <1>t, <1>1, ScanHead
<1>3. disk' = [disk EXCEPT ![e] = "absent"] /\ lru' = Without(e)
  BY DEF Evicted
<1>4. disk'[e] = "absent" /\ \A x \in Entries \ {e} : disk'[x] = disk[x]
  BY <1>t, <1>2, <1>3 DEF CacheTypes
<1>5. /\ \A i \in 1..Len(scan) :
           scan[i].size = Size[scan[i].entry] /\ (disk[scan[i].entry] = "complete" \/ i = 1)
      /\ \A i, j \in 1..Len(scan) : scan[i].entry = scan[j].entry => i = j
      /\ total = Rest(e) + Size[e]
  BY <1>1 DEF Accounted, ScanSound, Sized
<1>6. total' = DiskBytes' /\ DiskBytes' \in Nat
  <2>1. SizesOn(disk')[e] = 0
    BY <1>2, <1>4 DEF SizesOn
  <2>2. DiskBytes' = Rest(e) + SizesOn(disk')[e] /\ Rest(e) \in Nat
    BY <1>2, <1>4, DiskStep, DiskSplit
  <2>3. Head(scan).size = Size[e] /\ Size[e] \in Nat
    BY <1>2, <1>5, SizesAssumption
  <2> QED
    BY <1>1, <1>5, <2>1, <2>2, <2>3
<1>7. Listed'
  <2>1. /\ \A x \in Entries : x \in Range(lru') <=> x \in Range(lru) /\ x # e
        /\ Once(lru')
    BY <1>3, <1>2, <1>t, WithoutOnce DEF CacheTypes, Accounted, Listed
  <2> QED
    BY <1>4, <2>1 DEF Accounted, Listed
<1>8. Known'
  BY <1>t, <1>1, <1>6, ProcsAssumption DEF Accounted, Known
<1>9. Sized(p)'
  BY <1>1, <1>6 DEF Sized
<1>10. ScanSound(p)'
  <2>1. Len(scan') = Len(scan) - 1 /\ \A i \in 1..(Len(scan) - 1) : scan'[i] = scan[i + 1] /\ i + 1 \in 1..Len(scan)
    BY <1>1, <1>2
  <2>2. \A i \in 1..(Len(scan) - 1) : scan[i + 1].entry # e /\ disk[scan[i + 1].entry] = "complete"
    BY <1>2, <1>5
  <2>3. \A i \in 1..(Len(scan) - 1) : disk'[scan[i + 1].entry] = "complete"
    BY <1>2, <1>4, <2>1, <2>2
  <2> QED
    BY <1>2, <1>5, <2>1, <2>3 DEF ScanSound
<1>11. \A x \in Entries : disk'[x] \in {"absent", "complete"} \/ Removing(p, x)'
  BY <1>t, <1>1, <1>4, OnlyRemoving DEF Removing
<1> QED
  BY <1>t, <1>1, <1>7, <1>8, <1>9, <1>10, <1>11, AloneAccounted DEF Sizing, Maintaining

LEMMA MaintenanceDoneAccounted ==
    ASSUME CacheInv, Accounted, NEW p \in Procs, Undisturbed(p), MaintenanceDone(p)
    PROVE  Accounted'
<1>t. CacheTypes /\ maintainer = p
  BY DEF CacheInv, Local, Keeping, MaintenanceDone, Maintaining
<1>1. /\ doing[p] = "scanned" /\ doing'[p] \in {"idle", "relock"} /\ maintainer' = none
      /\ recorded' = total /\ total' = 0
      /\ UNCHANGED <<disk, lru, want>>
  BY <1>t DEF CacheTypes, MaintenanceDone, AfterMaintenance, Goto
<1>2. DiskBytes' = DiskBytes
  BY <1>1, SameDisk
<1>3. Listed'
  BY <1>1 DEF Accounted, Listed
<1>4. Known'
  BY <1>1, <1>2 DEF Accounted, Known, Sized
<1>5. Sized(p)' /\ ScanSound(p)'
  BY <1>1 DEF Sized, ScanSound
<1>6. \A x \in Entries : disk'[x] \in {"absent", "complete"} \/ Removing(p, x)'
  BY <1>t, <1>1, OnlyRemoving DEF Removing
<1> QED
  BY <1>t, <1>1, <1>3, <1>4, <1>5, <1>6, AloneAccounted, ProcsAssumption

\* While no process dies and no removal or write fails, a maintenance finds a
\* manifest in every entry.
LEMMA NoFault ==
    ASSUME CacheInv, Accounted, NEW p \in Procs, Step(p) \/ Crash(p), faults = 0, faults' = 0
    PROVE  ~MaintenanceFails(p) /\ ~Crash(p)
<1>1. ~Crash(p)
  BY DEF Crash
<1>2. ASSUME MaintenanceFails(p) PROVE FALSE
  <2>1. doing[p] = "maintain" /\ \E e \in Entries : disk[e] = "headless"
    BY <1>2 DEF MaintenanceFails
  <2>2. maintainer = p
    BY <2>1 DEF CacheInv, Local, Keeping, Maintaining
  <2> QED
    BY <2>1, <2>2, OnlyRemoving DEF Removing
<1> QED
  BY <1>1, <1>2

LEMMA AccountedStep ==
    ASSUME CacheInv, Accounted, NEW p \in Procs, Step(p) \/ Crash(p), Undisturbed(p), faults = 0, faults' = 0
    PROVE  Accounted' /\ (Light(p) \/ Heavy(p))
<1>1. Light(p) \/ Heavy(p)
  BY LightOrHeavy, NoFault
<1>2. Light(p) => Accounted'
  BY LightAccounted
<1>3. Heavy(p) => Accounted'
  BY PublishAccounted, PublishSizeAccounted, PublishFailsAccounted, TakenBackAccounted, MaintainAccounted,
     ScanAccounted, EvictOldestAccounted, EvictedAccounted, MaintenanceDoneAccounted DEF Heavy
<1> QED
  BY <1>1, <1>2, <1>3

-----------------------------------------------------------------------------
(* Before the first maintenance.                                           *)

LEMMA UnopenedStep ==
    ASSUME CacheInv, Accounted, Unopened, NEW p \in setup.procs, p \in Procs, setup.bounded = setup.procs,
           Step(p), Undisturbed(p), Light(p) \/ Heavy(p)
    PROVE  Unopened'
<1>t. CacheTypes
  BY DEF CacheInv
<1>1. CASE recorded # none
  <2> SUFFICES recorded' # none
    BY DEF Unopened
  <2>1. recorded \in Nat /\ total \in Nat
    BY <1>1 DEF Accounted, Known
  <2>2. CASE Light(p)
    BY <1>1, <2>2 DEF Light
  <2>3. CASE PublishSize(p)
    <3>1. recorded' = recorded \/ (want[p] \in Entries /\ recorded' = recorded + Size[want[p]])
      BY <2>3 DEF PublishSize, AddSize, CacheInv, Local, Wanting, Maintaining
    <3>2. \A e \in Entries : recorded + Size[e] \in Nat
      BY <2>1, SizesAssumption
    <3> QED
      BY <1>1, <3>1, <3>2, SizesAssumption
  <2>4. CASE MaintenanceDone(p)
    BY <2>1, <2>4, SizesAssumption DEF MaintenanceDone
  <2>5. CASE \/ Publish(p) \/ PublishFails(p) \/ TakenBack(p) \/ Maintain(p) \/ Scan(p)
             \/ EvictOldest(p) \/ Evicted(p)
    BY <1>1, <2>5 DEF Publish, PublishFails, TakenBack, Maintain, Scan, EvictOldest, Evicted, diskVars
  <2> QED
    BY <2>2, <2>3, <2>4, <2>5 DEF Heavy
<1>2. CASE recorded = none
  <2>1. /\ \A e \in Entries : disk[e] = "absent"
        /\ \A q \in Procs :
             /\ ~opened[q] /\ want[q] = none /\ doing[q] \in {"opening", "idle", "maintain", "scanned"}
             /\ \A e \in Entries : leases[q][e] = 0
    BY <1>2 DEF Unopened
  <2>2. Maintain(p) \/ Scan(p) \/ MaintenanceDone(p)
    <3>1. ~\E e \in Entries : Materialize(p, e) \/ Retain(p, e) \/ Release(p, e)
      BY <2>1 DEF Materialize, Retain, Release
    <3>2. \/ AfterRelease(p) \/ Open(p) \/ Maintain(p) \/ Scan(p) \/ EvictOldest(p) \/ MaintenanceDone(p)
          \/ MaintenanceFails(p)
      BY <2>1, <3>1 DEF Step, LockShared, Verify, TryExclusive, TryShared, VerifyBusy, Recheck, CreatePartial,
           Download, Discard, Publish, PublishSize, PublishFails, TakenBack, Relock, RelockShared, VerifyAgain, Evicted
    <3>3. ~AfterRelease(p) /\ ~Open(p)
      BY <2>1 DEF AfterRelease, Open
    <3>4. ~EvictOldest(p)
      <4>1. ASSUME EvictOldest(p) PROVE FALSE
        <5>1. doing[p] = "scanned" /\ scan # <<>>
          BY <4>1 DEF EvictOldest
        <5>2. 1 \in 1..Len(scan) /\ scan[1].entry \in Entries
          BY <1>t, <5>1, ScanHead
        <5>3. disk[scan[1].entry] = "complete"
          BY <5>1, <5>2 DEF Accounted, ScanSound
        <5> QED
          BY <2>1, <5>2, <5>3
      <4> QED
        BY <4>1
    <3>6. ASSUME MaintenanceFails(p), Light(p) PROVE FALSE
      BY <3>6 DEF MaintenanceFails, Light, Sizing, Maintaining
    <3>7. ASSUME Heavy(p) PROVE Maintain(p) \/ Scan(p) \/ MaintenanceDone(p)
      BY <2>1, <3>4, <3>7 DEF Heavy, Publish, PublishSize, PublishFails, TakenBack, Evicted
    <3> QED
      BY <3>2, <3>3, <3>4, <3>6, <3>7
  <2>3. CASE Maintain(p)
    <3>1. /\ doing' = [doing EXCEPT ![p] = "maintain"] /\ UNCHANGED <<disk, opened, want, leases>>
      BY <2>3 DEF Maintain, Goto, diskVars, storeVars
    <3> QED
      BY <1>t, <2>1, <3>1 DEF CacheTypes, Unopened
  <2>4. CASE Scan(p)
    <3>1. /\ doing' = [doing EXCEPT ![p] = "scanned"] /\ UNCHANGED <<disk, opened, want, leases>>
      BY <2>4 DEF Scan, Goto, lockVars, storeVars
    <3> QED
      BY <1>t, <2>1, <3>1 DEF CacheTypes, Unopened
  <2>5. CASE MaintenanceDone(p)
    <3>1. recorded' \in Nat
      BY <2>5 DEF MaintenanceDone, Accounted, Known
    <3> QED
      BY <3>1, SizesAssumption DEF Unopened
  <2> QED
    BY <2>2, <2>3, <2>4, <2>5
<1> QED
  BY <1>1, <1>2

-----------------------------------------------------------------------------
(* While the cache is over its limit.                                      *)

\* A process that is not at rest is seen by every other.
Awake(p) == doing[p] # "idle" \/ \E e \in Entries : leases[p][e] > 0

LEMMA AwakeBusy ==
    ASSUME CacheInv, NEW p \in Procs, Awake(p)', NEW q, q # p
    PROVE  Busy(q)'
BY DEF Awake, Busy

\* Where no operation fails, a step of a bounded store leaves its process at
\* work or with a lease, unless it ends a maintenance.
LEMMA StaysAwake ==
    ASSUME CacheInv, NEW p \in setup.procs, p \in Procs, setup.bounded = setup.procs, Step(p),
           doing[p] \notin Maintaining, failures' # TRUE, recorded # none, recorded > MaxBytes
    PROVE  Awake(p)'
<1>t. CacheTypes /\ Wanting(p)
  BY DEF CacheInv, Local
<1> USE DEF CacheTypes, Awake, Goto
<1>1. CASE \E x \in Entries : Materialize(p, x) \/ Retain(p, x) \/ Release(p, x)
  <2>1. PICK x \in Entries : Materialize(p, x) \/ Retain(p, x) \/ Release(p, x)
    BY <1>1
  <2>2. CASE Materialize(p, x)
    BY <2>2, <1>t DEF Materialize
  <2>3. CASE Retain(p, x)
    <3>1. leases'[p][x] = leases[p][x] + 1 /\ leases[p][x] \in Nat
      BY <2>3, <1>t DEF Retain
    <3>2. leases'[p][x] > 0
      BY <3>1
    <3> QED
      BY <3>2
  <2>4. CASE Release(p, x)
    BY <2>4, <1>t DEF Release
  <2> QED
    BY <2>1, <2>2, <2>3, <2>4
<1>2. CASE LockShared(p) \/ TryShared(p) \/ RelockShared(p)
  BY <1>2, <1>t DEF LockShared, TryShared, RelockShared, Fail
<1>3. CASE Verify(p) \/ VerifyBusy(p) \/ VerifyAgain(p)
  <2>1. want[p] \in Entries /\ leases[p][want[p]] \in Nat
    BY <1>3, <1>t DEF Wanting, Verify, VerifyBusy, VerifyAgain, Maintaining
  <2>2. \/ doing'[p] # "idle"
        \/ leases' = [leases EXCEPT ![p][want[p]] = @ + 1]
    BY <1>3, <1>t DEF Verify, VerifyBusy, VerifyAgain, Fail, Lease
  <2>3. leases' = [leases EXCEPT ![p][want[p]] = @ + 1] => leases'[p][want[p]] > 0
    BY <1>t, <2>1
  <2> QED
    BY <2>1, <2>2, <2>3
<1>4. CASE TryExclusive(p) \/ Recheck(p) \/ Relock(p)
  BY <1>4, <1>t DEF TryExclusive, Recheck, Relock, Fail
<1>5. CASE CreatePartial(p) \/ Download(p) \/ Discard(p)
  BY <1>5, <1>t DEF CreatePartial, Download, Discard, Fail
<1>6. CASE Publish(p) \/ PublishSize(p) \/ PublishFails(p) \/ TakenBack(p)
  BY <1>6, <1>t DEF Publish, PublishSize, PublishFails, TakeBack, TakenBack
<1>7. CASE AfterRelease(p)
  BY <1>7, <1>t DEF AfterRelease, NeedsMaintenance
<1>8. CASE Open(p) \/ Maintain(p)
  BY <1>8, <1>t DEF Open, Maintain
<1>9. CASE \/ Scan(p) \/ EvictOldest(p) \/ Evicted(p) \/ MaintenanceDone(p) \/ MaintenanceFails(p)
  BY <1>9 DEF Scan, EvictOldest, Evicted, MaintenanceDone, MaintenanceFails, Maintaining
<1> QED
  BY <1>1, <1>2, <1>3, <1>4, <1>5, <1>6, <1>7, <1>8, <1>9 DEF Step

\* Who is busy beside p stays so when p keeps its leases.
LEMMA BusyStays ==
    ASSUME CacheInv, NEW p \in Procs, Undisturbed(p), UNCHANGED leases, Busy(p)
    PROVE  Busy(p)' /\ Busy(none)'
<1>1. PICK q \in Procs : (q # p /\ doing[q] # "idle") \/ \E e \in Entries : leases[q][e] > 0
  BY DEF Busy
<1>2. CASE q # p /\ doing[q] # "idle"
  BY <1>2, ProcsAssumption DEF Busy, Undisturbed
<1>3. CASE \E e \in Entries : leases[q][e] > 0
  BY <1>3 DEF Busy
<1> QED
  BY <1>1, <1>2, <1>3

\* While p maintains, or begins or ends to, it suffices to look at p.
LEMMA AloneAwaited ==
    ASSUME CacheInv, NEW p \in Procs, Undisturbed(p), maintainer \in {none, p},
           recorded' # none /\ maintainer' = none /\ recorded' > MaxBytes => Busy(none)',
           recorded' # none => Watched(p)'
    PROVE  Awaited'
<1>1. ASSUME NEW q \in Procs \ {p} PROVE doing'[q] \notin Maintaining
  <2>1. doing'[q] = doing[q]
    BY DEF Undisturbed
  <2> QED
    BY <2>1, Alone DEF Sizing
<1>2. ASSUME recorded' # none, NEW q \in Procs PROVE Watched(q)'
  <2>1. CASE q = p
    BY <1>2, <2>1
  <2>2. CASE q # p
    BY <1>1, <2>2 DEF Watched
  <2> QED
    BY <2>1, <2>2
<1> QED
  BY <1>2 DEF Awaited

LEMMA LightAwaited ==
    ASSUME CacheInv, Accounted, Awaited, NEW p \in setup.procs, p \in Procs, setup.bounded = setup.procs,
           Step(p), Undisturbed(p), failures' # TRUE, Light(p)
    PROVE  Awaited'
<1>t. CacheTypes
  BY DEF CacheInv
<1>1. /\ UNCHANGED <<disk, recorded, maintainer, total, scan>>
      /\ doing[p] \notin Sizing /\ doing'[p] \notin Sizing
  BY DEF Light
<1>2. DiskBytes' = DiskBytes
  BY <1>1, SameDisk
<1>3. recorded # none /\ recorded > MaxBytes => Awake(p)'
  BY <1>1, StaysAwake DEF Sizing
<1>4. recorded # none /\ recorded > MaxBytes => \A q : q # p => Busy(q)'
  BY <1>3, AwakeBusy
<1>5. ASSUME recorded' # none, NEW q \in Procs PROVE Watched(q)'
  <2>1. CASE q = p
    BY <1>1, <2>1 DEF Watched, Sizing
  <2>2. CASE q # p
    <3>1. doing'[q] = doing[q] /\ want'[q] = want[q]
      BY <2>2 DEF Undisturbed
    <3>2. doing[q] \in Maintaining /\ want[q] = none => recorded >= DiskBytes
      BY <1>1, <1>5 DEF Awaited, Watched
    <3>3. recorded > MaxBytes => Busy(q)'
      BY <1>1, <1>4, <1>5, <2>2
    <3> QED
      BY <1>1, <1>2, <3>1, <3>2, <3>3 DEF Watched
  <2> QED
    BY <2>1, <2>2
<1>6. recorded' # none /\ maintainer' = none /\ recorded' > MaxBytes => Busy(none)'
  BY <1>1, <1>4, ProcsAssumption
<1> QED
  BY <1>5, <1>6 DEF Awaited

LEMMA PublishingAwaited ==
    ASSUME CacheInv, Accounted, NEW p \in Procs, Undisturbed(p),
           \/ Publish(p) /\ maintainer = none /\ disk[want[p]] = "absent"
           \/ PublishSize(p) \/ PublishFails(p) \/ TakenBack(p)
    PROVE  Awaited'
<1>t. CacheTypes /\ p # none
  BY ProcsAssumption DEF CacheInv
<1>1. maintainer \in {none, p} /\ want[p] # none
  BY EntriesAssumption DEF CacheInv, Local, Wanting, Keeping, Publish, PublishSize, PublishFails, TakenBack, Maintaining
<1>2. doing'[p] # "idle"
  BY <1>t DEF CacheTypes, Publish, PublishSize, PublishFails, TakeBack, TakenBack, Goto
<1>3. UNCHANGED want
  BY DEF Publish, PublishSize, PublishFails, TakenBack
<1>4. Watched(p)'
  BY <1>1, <1>3 DEF Watched
<1>5. Busy(none)'
  BY <1>2, <1>t, AwakeBusy DEF Awake
<1> QED
  BY <1>1, <1>4, <1>5, AloneAwaited

LEMMA MaintainAwaited ==
    ASSUME CacheInv, Accounted, NEW p \in Procs, Undisturbed(p), Maintain(p)
    PROVE  Awaited'
<1>t. CacheTypes /\ p # none
  BY ProcsAssumption DEF CacheInv
<1>1. /\ doing'[p] = "maintain" /\ maintainer = none /\ maintainer' = p
      /\ UNCHANGED <<disk, recorded>>
  BY <1>t DEF CacheTypes, Maintain, Goto, diskVars
<1>2. DiskBytes' = DiskBytes
  BY <1>1, SameDisk
<1>3. recorded' # none => recorded' = DiskBytes' /\ recorded' \in Nat
  BY <1>1, <1>2 DEF Accounted, Known
<1>4. recorded' # none => Watched(p)'
  BY <1>1, <1>3 DEF Watched
<1> QED
  BY <1>t, <1>1, <1>4, AloneAwaited

LEMMA ScanAwaited ==
    ASSUME CacheInv, Accounted, Awaited, NEW p \in Procs, Undisturbed(p), Scan(p)
    PROVE  Awaited'
<1>t. CacheTypes /\ p # none /\ maintainer = p
  BY ProcsAssumption DEF CacheInv, Local, Keeping, Scan, Maintaining
<1>1. /\ doing[p] = "maintain" /\ doing'[p] = "scanned" /\ scan' = CacheEntries /\ touched' = {}
      /\ UNCHANGED <<disk, lru, recorded, maintainer, want>>
  BY <1>t DEF CacheTypes, Scan, Goto, lockVars
<1>2. DiskBytes' = DiskBytes
  BY <1>1, SameDisk
<1>3. ASSUME NEW e \in Entries, disk[e] = "complete" PROVE \E i \in 1..Len(scan') : scan'[i].entry = e
  <2>1. e \in Range(lru)
    BY <1>3 DEF Accounted, Listed
  <2>2. Len(lru) \in Nat
    BY <1>t DEF CacheTypes
  <2>3. PICK i \in 1..Len(lru) : lru[i] = e
    BY <1>t, <2>1 DEF CacheTypes, Range
  <2>4. Len(scan') = Len(lru) /\ scan'[i] = [entry |-> lru[i], size |-> Bytes(lru[i])]
    BY <1>1, <2>2 DEF CacheEntries
  <2> QED
    BY <2>3, <2>4
<1>4. ~PassedOver'
  BY <1>1, <1>3 DEF PassedOver
<1>5. recorded' # none => Watched(p)'
  BY <1>1, <1>2, <1>4 DEF Awaited, Watched, Maintaining
<1> QED
  BY <1>t, <1>1, <1>5, AloneAwaited

\* Who keeps an entry from being evicted is busy beside the maintainer.
LEMMA HeldBusy ==
    ASSUME CacheInv, Owned, NEW p \in Procs, doing[p] = "scanned", want[p] = none,
           NEW e \in Entries, ~Unheld(e)
    PROVE  Busy(p)
<1>t. CacheTypes /\ maintainer = p /\ none \notin Entries
  BY EntriesAssumption DEF CacheInv, Local, Keeping, Maintaining
<1>1. CASE Readers(e) # {}
  <2>1. PICK q \in Procs : leases[q][e] > 0 \/ (want[q] = e /\ doing[q] \in Reading)
    BY <1>1 DEF Readers
  <2> QED
    BY <2>1 DEF Busy, Reading
<1>2. CASE exclusive[e] # none
  <2>1. exclusive[e] \in Procs
    BY <1>t, <1>2 DEF CacheTypes
  <2>2. PICK q \in Procs : exclusive[e] = q
    BY <2>1
  <2>3. doing[q] # "idle"
    BY <2>2 DEF Owned, Fetching, Maintaining
  <2>4. q # p
    BY <1>t, <2>2 DEF Owned
  <2> QED
    BY <2>3, <2>4 DEF Busy
<1> QED
  BY <1>1, <1>2 DEF Unheld

LEMMA EvictOldestAwaited ==
    ASSUME CacheInv, Owned, Accounted, Awaited, NEW p \in Procs, Undisturbed(p), EvictOldest(p)
    PROVE  Awaited'
<1> DEFINE e == Head(scan).entry
<1>t. CacheTypes /\ p # none /\ maintainer = p
  BY ProcsAssumption DEF CacheInv, Local, Keeping, EvictOldest, Maintaining
<1>1. /\ doing[p] = "scanned" /\ scan # <<>> /\ UNCHANGED <<recorded, maintainer, want, leases, touched>>
  BY DEF EvictOldest
<1>2. /\ Len(scan) \in Nat \ {0} /\ scan[1] = Head(scan) /\ e \in Entries
      /\ \A i \in 1..Len(scan) : scan[i].entry \in Entries
      /\ Len(Tail(scan)) = Len(scan) - 1
      /\ \A i \in 1..(Len(scan) - 1) : Tail(scan)[i] = scan[i + 1]
  BY <1>t, <1>1, ScanHead
<1>3. disk[e] = "complete"
  BY <1>1, <1>2 DEF Accounted, ScanSound
<1>4. SUFFICES ASSUME recorded # none, want[p] = none PROVE Watched(p)'
  BY <1>t, <1>1, AloneAwaited DEF Watched
<1>5. recorded >= DiskBytes /\ recorded \in Nat /\ (recorded > MaxBytes /\ PassedOver => Busy(p))
  BY <1>1, <1>4 DEF Accounted, Known, Awaited, Watched, Maintaining
<1>6. Busy(p) => Busy(p)'
  BY <1>1, BusyStays
<1>7. CASE Evictable(e)
  <2>1. scan' = scan
    BY <1>7 DEF EvictOldest
  <2>2. PICK c \in {"damaged", "headless"} : disk' = [disk EXCEPT ![e] = c]
    BY <1>7 DEF EvictOldest
  <2>3. disk'[e] = c /\ \A x \in Entries \ {e} : disk'[x] = disk[x]
    BY <1>t, <1>2, <2>2 DEF CacheTypes
  <2>4. recorded >= DiskBytes'
    <3>1. /\ DiskBytes = Rest(e) + SizesOn(disk)[e] /\ DiskBytes' = Rest(e) + SizesOn(disk')[e]
          /\ DiskBytes \in Nat /\ DiskBytes' \in Nat /\ Rest(e) \in Nat
      BY <1>2, <2>3, DiskSplit, DiskStep
    <3>2. SizesOn(disk)[e] = Size[e] /\ Size[e] \in Nat
      BY <1>2, <1>3, SizesAssumption DEF SizesOn
    <3>3. SizesOn(disk')[e] \in {0, Size[e] \div 2}
      BY <1>2, <2>3 DEF SizesOn
    <3>4. 0 <= Size[e] /\ Size[e] \div 2 <= Size[e] /\ Size[e] \div 2 \in Nat
      BY <3>2
    <3> QED
      BY <1>5, <3>1, <3>2, <3>3, <3>4
  <2>5. PassedOver' => PassedOver
    BY <1>1, <2>1, <2>3 DEF PassedOver
  <2> QED
    BY <1>1, <1>5, <1>6, <2>4, <2>5 DEF Watched
<1>8. CASE ~Evictable(e)
  <2>1. scan' = Tail(scan) /\ UNCHANGED <<disk, doing>>
    BY <1>8 DEF EvictOldest
  <2>2. DiskBytes' = DiskBytes
    BY <2>1, SameDisk
  <2>3. recorded > MaxBytes => Busy(p)
    BY <1>1, <1>2, <1>4, <1>5, <1>8, HeldBusy DEF Evictable, PassedOver
  <2> QED
    BY <1>1, <1>5, <1>6, <2>2, <2>3 DEF Watched
<1> QED
  BY <1>7, <1>8

LEMMA EvictedAwaited ==
    ASSUME CacheInv, Accounted, Awaited, NEW p \in Procs, Undisturbed(p), Evicted(p)
    PROVE  Awaited'
<1> DEFINE e == Head(scan).entry
<1>t. CacheTypes /\ p # none /\ maintainer = p
  BY ProcsAssumption DEF CacheInv, Local, Keeping, Evicted, Maintaining
<1>1. /\ doing[p] = "evict" /\ scan # <<>> /\ doing'[p] = "scanned" /\ scan' = Tail(scan)
      /\ UNCHANGED <<recorded, maintainer, want, leases, touched>>
  BY <1>t DEF CacheTypes, Evicted, Goto, CacheInv, Local, Evicting
<1>2. /\ Len(scan) \in Nat \ {0} /\ scan[1] = Head(scan) /\ e \in Entries
      /\ Len(Tail(scan)) = Len(scan) - 1
      /\ \A i \in 1..(Len(scan) - 1) : Tail(scan)[i] = scan[i + 1]
  BY <1>t, <1>1, ScanHead
<1>3. disk' = [disk EXCEPT ![e] = "absent"]
  BY DEF Evicted
<1>4. disk'[e] = "absent" /\ \A x \in Entries \ {e} : disk'[x] = disk[x]
  BY <1>t, <1>2, <1>3 DEF CacheTypes
<1>5. SUFFICES ASSUME recorded # none, want[p] = none PROVE Watched(p)'
  BY <1>t, <1>1, AloneAwaited DEF Watched
<1>6. recorded >= DiskBytes /\ recorded \in Nat /\ (recorded > MaxBytes /\ PassedOver => Busy(p))
  BY <1>1, <1>5 DEF Accounted, Known, Awaited, Watched, Maintaining
<1>7. Busy(p) => Busy(p)'
  BY <1>1, BusyStays
<1>8. recorded >= DiskBytes'
  <2>1. /\ DiskBytes = Rest(e) + SizesOn(disk)[e] /\ DiskBytes' = Rest(e) + SizesOn(disk')[e]
        /\ DiskBytes \in Nat /\ DiskBytes' \in Nat /\ Rest(e) \in Nat
    BY <1>2, <1>4, DiskSplit, DiskStep
  <2>2. SizesOn(disk')[e] = 0
    BY <1>2, <1>4 DEF SizesOn
  <2>3. SizesOn(disk)[e] \in Nat
    BY <1>2, SizesType
  <2> QED
    BY <1>6, <2>1, <2>2, <2>3
<1>9. PassedOver' => PassedOver
  <2>1. ASSUME NEW x \in Entries, disk'[x] = "complete", \A i \in 1..Len(scan') : scan'[i].entry # x
        PROVE  disk[x] = "complete" /\ \A i \in 1..Len(scan) : scan[i].entry # x
    <3>1. x # e /\ disk[x] = "complete"
      BY <1>4, <2>1
    <3>2. ASSUME NEW i \in 1..Len(scan) PROVE scan[i].entry # x
      <4>1. CASE i = 1
        BY <1>2, <3>1, <4>1
      <4>2. CASE i # 1
        <5>1. i - 1 \in 1..(Len(scan) - 1) /\ (i - 1) + 1 = i
          BY <1>2, <4>2
        <5>2. scan'[i - 1] = scan[i] /\ i - 1 \in 1..Len(scan')
          BY <1>1, <1>2, <5>1
        <5> QED
          BY <2>1, <5>2
      <4> QED
        BY <4>1, <4>2
    <3> QED
      BY <3>1, <3>2
  <2> QED
    BY <1>1, <2>1 DEF PassedOver
<1> QED
  BY <1>1, <1>6, <1>7, <1>8, <1>9 DEF Watched

LEMMA MaintenanceDoneAwaited ==
    ASSUME CacheInv, Accounted, Unopened, Awaited, NEW p \in Procs, Undisturbed(p), MaintenanceDone(p)
    PROVE  Awaited'
<1>t. CacheTypes /\ p # none /\ maintainer = p
  BY ProcsAssumption DEF CacheInv, Local, Keeping, MaintenanceDone, Maintaining
<1>1. /\ doing[p] = "scanned" /\ doing'[p] = (IF want[p] = none THEN "idle" ELSE "relock")
      /\ recorded' = total /\ (total <= MaxBytes \/ scan = <<>>)
      /\ UNCHANGED <<disk, want, leases>>
  BY <1>t DEF CacheTypes, MaintenanceDone, AfterMaintenance, Goto
<1>2. total = DiskBytes /\ total \in Nat /\ MaxBytes \in Nat
  BY <1>1, SizesAssumption DEF Accounted, Sized, Known
<1>3. Watched(p)'
  BY <1>1 DEF Watched, Maintaining
<1>4. ASSUME total > MaxBytes PROVE Busy(none)'
  <2>1. \E e \in Entries : disk[e] # "absent"
    BY <1>2, <1>4, DiskEmpty
  <2>2. PICK e \in Entries : disk[e] = "complete"
    BY <1>t, <1>1, <2>1, OnlyRemoving DEF Removing
  <2>3. recorded # none
    BY <2>2 DEF Unopened
  <2>4. CASE want[p] = none
    <3>1. recorded >= DiskBytes /\ (recorded > MaxBytes /\ PassedOver => Busy(p))
      BY <1>1, <2>3, <2>4 DEF Awaited, Watched, Maintaining
    <3>2. recorded \in Nat
      BY <2>3 DEF Accounted, Known
    <3>3. recorded > MaxBytes
      BY <1>2, <1>4, <3>1, <3>2
    <3>4. scan = <<>>
      BY <1>1, <1>2, <1>4
    <3>5. PassedOver
      BY <2>2, <3>4 DEF PassedOver
    <3> QED
      BY <1>1, <3>1, <3>3, <3>5, BusyStays
  <2>5. CASE want[p] # none
    BY <1>1, <1>t, <2>5, AwakeBusy DEF Awake
  <2> QED
    BY <2>4, <2>5
<1> QED
  BY <1>t, <1>1, <1>3, <1>4, AloneAwaited

LEMMA AwaitedStep ==
    ASSUME CacheInv, Owned, Accounted, Unopened, Awaited, NEW p \in setup.procs, p \in Procs,
           setup.bounded = setup.procs, Step(p), Undisturbed(p), failures' # TRUE, Light(p) \/ Heavy(p)
    PROVE  Awaited'
BY LightAwaited, PublishingAwaited, MaintainAwaited, ScanAwaited, EvictOldestAwaited, EvictedAwaited,
   MaintenanceDoneAwaited DEF Heavy

-----------------------------------------------------------------------------
\* Faults and failures are not taken back.
LEMMA Lasting ==
    ASSUME NEW p \in Procs, Step(p) \/ Crash(p), faults \in Nat
    PROVE  /\ faults' \in Nat /\ (faults' = 0 => faults = 0)
           /\ failures' = failures \/ failures' = TRUE
<1>1. CASE \E x \in Entries : Materialize(p, x) \/ Retain(p, x) \/ Release(p, x)
  BY <1>1 DEF Materialize, Retain, Release, ghostVars
<1>2. CASE \/ LockShared(p) \/ TryShared(p) \/ RelockShared(p) \/ Verify(p) \/ VerifyBusy(p) \/ VerifyAgain(p)
           \/ TryExclusive(p) \/ Recheck(p) \/ CreatePartial(p) \/ Download(p) \/ Discard(p) \/ Relock(p)
  BY <1>2 DEF LockShared, TryShared, RelockShared, Verify, VerifyBusy, VerifyAgain, TryExclusive, Recheck,
              CreatePartial, Download, Discard, Relock, Fail, ghostVars
<1>3. CASE Publish(p) \/ PublishSize(p) \/ PublishFails(p) \/ TakenBack(p)
  <2>1. (faults' = faults \/ faults' = faults + 1) /\ failures' = failures
    BY <1>3 DEF Publish, PublishSize, PublishFails, TakenBack, ghostVars
  <2> QED
    BY <2>1
<1>4. CASE AfterRelease(p) \/ Open(p) \/ Maintain(p) \/ Scan(p) \/ EvictOldest(p) \/ Evicted(p)
  BY <1>4 DEF AfterRelease, Open, Maintain, Scan, EvictOldest, Evicted, ghostVars
<1>5. CASE MaintenanceDone(p) \/ MaintenanceFails(p) \/ Crash(p)
  <2>1. (faults' = faults \/ faults' = faults + 1) /\ failures' = failures
    BY <1>5 DEF MaintenanceDone, MaintenanceFails, Crash, ghostVars
  <2> QED
    BY <2>1
<1> QED
  BY <1>1, <1>2, <1>3, <1>4, <1>5 DEF Step

LEMMA LimitInit == CacheInit => LimitInv
<1> SUFFICES ASSUME CacheInit PROVE LimitInv
  OBVIOUS
<1> USE DEF CacheInit
<1>1. Owned
  BY ProcsAssumption DEF Owned
<1>2. Kept /\ Known
  BY ProcsAssumption DEF Kept, Known
<1>3. Listed
  BY DEF Listed, Once, Range
<1>4. \A p \in Procs : Sized(p) /\ ScanSound(p)
  BY DEF Sized, ScanSound
<1>5. Unopened
  BY DEF Unopened
<1>6. Awaited
  BY DEF Awaited, Watched, Maintaining
<1> QED
  BY <1>1, <1>2, <1>3, <1>4, <1>5, <1>6 DEF LimitInv, Accounted

LEMMA LimitStep == CacheInv /\ LimitInv /\ [CacheNext]_cacheVars => LimitInv'
<1> SUFFICES ASSUME CacheInv, LimitInv, [CacheNext]_cacheVars PROVE LimitInv'
  OBVIOUS
<1>1. CASE CacheNext
  <2>1. PICK p \in setup.procs : Step(p) \/ Crash(p)
    BY <1>1 DEF CacheNext
  <2>2. p \in Procs /\ UNCHANGED setup
    BY <1>1, SetupsAssumption DEF CacheNext, CacheInv, CacheTypes, IsSetup
  <2>3. Undisturbed(p)
    BY <2>1, <2>2, Guarantee
  <2>4. Owned'
    BY <2>1, <2>2, <2>3, OwnedStep DEF LimitInv
  <2>5. faults' \in Nat /\ (faults' = 0 => faults = 0) /\ (failures' = failures \/ failures' = TRUE)
    BY <2>1, <2>2, Lasting DEF LimitInv
  <2>6. ASSUME faults' = 0 PROVE Accounted' /\ (Light(p) \/ Heavy(p)) /\ Step(p)
    BY <2>1, <2>2, <2>3, <2>5, <2>6, AccountedStep, NoFault DEF LimitInv
  <2>7. ASSUME faults' = 0, setup'.bounded = setup'.procs PROVE Unopened'
    BY <2>1, <2>2, <2>3, <2>5, <2>6, <2>7, UnopenedStep DEF LimitInv
  <2>8. ASSUME faults' = 0, setup'.bounded = setup'.procs, ~failures' PROVE Awaited'
    <3>1. failures' # TRUE /\ ~failures
      <4>1. failures' # TRUE
        BY <2>8
      <4>2. failures' = failures
        BY <2>5, <4>1
      <4> QED
        BY <2>8, <4>1, <4>2
    <3>2. Accounted /\ Unopened /\ Awaited /\ Owned
      BY <2>2, <2>5, <2>8, <3>1 DEF LimitInv
    <3> QED
      BY <2>2, <2>3, <2>6, <2>8, <3>1, <3>2, AwaitedStep
  <2> QED
    BY <2>4, <2>5, <2>6, <2>7, <2>8 DEF LimitInv
<1>2. CASE UNCHANGED cacheVars
  <2>1. UNCHANGED <<setup, disk, lru, recorded, exclusive, maintainer, leases, doing, want, opened, scan, total,
                    touched, faults, failures>>
    BY <1>2 DEF cacheVars, diskVars, lockVars, storeVars, scanVars, ghostVars
  <2>2. DiskBytes' = DiskBytes /\ \A e : Rest(e)' = Rest(e)
    BY <2>1, SameDisk
  <2>3. Owned' <=> Owned
    BY <2>1 DEF Owned
  <2>4. Accounted' <=> Accounted
    <3>1. (Kept' <=> Kept) /\ (Listed' <=> Listed) /\ (Known' <=> Known)
      BY <2>1, <2>2 DEF Kept, Removing, Listed, Known
    <3>2. \A p \in Procs : (Sized(p)' <=> Sized(p)) /\ (ScanSound(p)' <=> ScanSound(p))
      BY <2>1, <2>2 DEF Sized, ScanSound
    <3> QED
      BY <3>1, <3>2 DEF Accounted
  <2>5. (Unopened' <=> Unopened) /\ (Awaited' <=> Awaited)
    BY <2>1, <2>2 DEF Unopened, Awaited, Watched, Busy, PassedOver
  <2> QED
    BY <2>1, <2>3, <2>4, <2>5 DEF LimitInv
<1> QED
  BY <1>1, <1>2

\* The inductive invariant of the limit.
THEOREM LimitInvariant == CacheSpec => []LimitInv
BY LimitInit, LimitStep, CacheInvariant, PTL DEF CacheSpec

\* Unless a process dies or a removal or a write fails, .size-v1 is the size of
\* the cache to the byte between operations, and when all stores are bounded,
\* no Materialize has failed and every process is at rest, the cache is within
\* its limit (publishCacheEntry, maintainLocked, lease.release).
THEOREM LimitIsKept == CacheSpec => []LimitKept
<1>1. ASSUME CacheInv, LimitInv PROVE SizeIsExact
  BY <1>1 DEF LimitInv, Accounted, Known, SizeIsExact
<1>2. ASSUME CacheInv, LimitInv PROVE WithinLimitAtRest
  <2> SUFFICES ASSUME setup.bounded = setup.procs, faults = 0, ~failures,
                      \A p \in Procs : doing[p] = "idle" /\ \A e \in Entries : leases[p][e] = 0
               PROVE  DiskBytes <= MaxBytes
    BY DEF WithinLimitAtRest
  <2>1. Accounted /\ Unopened /\ Awaited
    BY <1>2 DEF LimitInv
  <2>2. maintainer = none
    BY <1>2, <2>1 DEF CacheInv, CacheTypes, Accounted, Kept, Sizing, Maintaining
  <2>3. CASE recorded = none
    <3>1. DiskBytes = 0
      BY <2>1, <2>3, DiskEmpty DEF Unopened
    <3> QED
      BY <3>1, SizesAssumption
  <2>4. CASE recorded # none
    <3>1. recorded = DiskBytes /\ recorded \in Nat
      BY <2>1, <2>2, <2>4 DEF Accounted, Known
    <3>2. ~Busy(none)
      BY DEF Busy
    <3>3. ~(recorded > MaxBytes)
      BY <2>1, <2>2, <2>4, <3>2 DEF Awaited
    <3> QED
      BY <3>1, <3>3, SizesAssumption
  <2> QED
    BY <2>3, <2>4
<1>3. CacheInv /\ LimitInv => LimitKept
  BY <1>1, <1>2 DEF LimitKept
<1> QED
  BY CacheInvariant, LimitInvariant, <1>3, PTL
=============================================================================
