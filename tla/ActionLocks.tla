------------------------------ MODULE ActionLocks ------------------------------
(* The compiler resolves the actions that the steps of a job use, and those *)
(* that composite actions use in turn, into a list of locks: each has a     *)
(* commit and the locks of its children (actionLockBuilder of               *)
(* internal/compiler/actions.go).  Before a plan is written, and again by   *)
(* the job that runs it, the list is walked a second time                   *)
(* (validateActionLocks of internal/plan/plan.go).                          *)
(*                                                                          *)
(* A `uses` is local to the workspace, names a remote repository and ref,   *)
(* or is "$/path": a path in whatever repository it stands in.  Both walks  *)
(* are depth first; they are a stack of frames here.  A repository and ref  *)
(* resolve to one commit during a build: see PinnedSource.                  *)
EXTENDS Integers, Sequences, FiniteSets, SequencesExt, FiniteSetsExt

CONSTANTS
    Trees,       \* [uses |-> of the steps, body |-> of each file that is there], each a sequence of `uses`
    Home,        \* [repository, commit] of the workflow
    CommitOf,    \* of each repository and ref
    Catalog,     \* of the repositories with an adapter: [native, admitted]
    Substitute,  \* for what is not admitted of the cache action
    CacheAction, \* its repository
    Bytes,       \* of the paths of the executable files in each repository
    MaxNestedActionDepth, MaxActionExecutablePathBytes

ASSUME LockAssumption ==
    /\ MaxNestedActionDepth \in Nat /\ MaxActionExecutablePathBytes \in Nat
    /\ Home.repository \in DOMAIN Bytes
    /\ \A r \in DOMAIN Bytes : Bytes[r] \in Nat
    /\ \A t \in Trees : \A s \in {t.uses} \cup Range(t.body) :
         /\ s \in Seq(Range(s))
         /\ \A u \in Range(s) :
              /\ u.form \in {"local", "self", "remote"}
              /\ u.form = "remote" => u.repository \in DOMAIN Bytes

VARIABLES
    tree,       \* the element of Trees
    walking,    \* "build", "check", or where it ended: "refused", "invalid", "valid"
    turn,       \* the step of the job to walk next
    frames,     \* the actions walked now, the outermost first, and what is left in each
    entries,    \* of each lock, its children
    selectors,  \* of the steps, their locks
    heights     \* of the locks that are checked

lockVars == <<tree, walking, turn, frames, entries, selectors, heights>>

Local(p) == [form |-> "local", path |-> p]
Self(p) == [form |-> "self", path |-> p]
Remote(r, v, p) == [form |-> "remote", repository |-> r, ref |-> v, path |-> p]

Blank == ""

\* A lock is known by its identity, of which its ID is a digest.
Lock(s, r, v, c, p) == [source |-> s, repository |-> r, ref |-> v, commit |-> c, path |-> p]
Workspace(p) == Lock("workspace", Blank, Blank, Blank, p)

\* What a self reference in an action names: the source of the action, or
\* of the workflow when the action is in the workspace.
Containing(lock) ==
    IF lock.source = "github" THEN lock
    ELSE Lock("github", Home.repository, Home.commit, Home.commit, Blank)

File(lock) == <<IF lock.source = "github" THEN lock.repository ELSE Home.repository, lock.path>>
Described(lock) == File(lock) \in DOMAIN tree.body

HasAdapter(lock) == lock.source = "github" /\ lock.repository \in DOMAIN Catalog
Admitted(lock) == HasAdapter(lock) => lock.commit \in Catalog[lock.repository].admitted
Native(lock) == HasAdapter(lock) /\ Catalog[lock.repository].native

\* A self reference is fetched by commit and keeps the ref of the action it
\* is in.  A commit of the cache action that nobody has audited is replaced.
Named(uses, lock) ==
    CASE uses.form = "local" -> Workspace(uses.path)
      [] uses.form = "self" -> [Containing(lock) EXCEPT !.path = uses.path]
      [] uses.form = "remote" -> Lock("github", uses.repository, uses.ref, CommitOf[<<uses.repository, uses.ref>>], uses.path)

Describe(uses, lock) ==
    LET asked == Named(uses, lock)
    IN IF ~Admitted(asked) /\ asked.repository = CacheAction
         THEN [asked EXCEPT !.commit = Substitute] ELSE asked

\* The `uses` in an action.  What a native adapter stands in for is not read.
UsesIn(lock) == IF Native(lock) THEN <<>> ELSE tree.body[File(lock)]

LockInit ==
    /\ tree \in Trees
    /\ walking = "build" /\ turn = 1
    /\ frames = <<>> /\ entries = [l \in {} |-> <<>>]
    /\ selectors = <<>> /\ heights = [l \in {} |-> 0]

With(f, x, e) == [y \in DOMAIN f \cup {x} |-> IF y = x THEN e ELSE f[y]]

Depth == Len(frames) + 1
Walked(lock) == \E i \in DOMAIN frames : frames[i].lock = lock
Owner == IF frames = <<>> THEN Workspace(Blank) ELSE Last(frames).lock
Charged(set) == MapThenSumSet(LAMBDA l : Bytes[File(l)[1]], set)

-----------------------------------------------------------------------------
(* The builder.                                                             *)

Left == IF frames = <<>> THEN SubSeq(tree.uses, turn, Len(tree.uses)) ELSE Last(frames).rest
Describable(lock) == Native(lock) \/ Described(lock)

Refusal(lock) ==
    \/ Depth > MaxNestedActionDepth
    \/ ~Admitted(lock) \/ ~Describable(lock)
    \/ Walked(lock)
    \/ Charged(DOMAIN entries \cup {lock}) > MaxActionExecutablePathBytes

Refuse ==
    /\ walking = "build" /\ Left # <<>> /\ Refusal(Describe(Head(Left), Owner))
    /\ walking' = "refused"
    /\ UNCHANGED <<tree, turn, frames, entries, selectors, heights>>

\* A lock that is complete is taken again, however deep what it uses goes.
\* Its selector goes to what uses it.
Add ==
    /\ walking = "build" /\ Left # <<>>
    /\ LET u == Head(Left)
           lock == Describe(u, Owner)
           below == IF frames = <<>> THEN <<>>
                    ELSE Append(Front(frames), [lock |-> Owner, rest |-> Tail(Left)])
           chosen == IF frames = <<>> THEN entries ELSE [entries EXCEPT ![Owner] = With(@, u, lock)]
       IN /\ ~Refusal(lock)
          /\ frames' = IF lock \in DOMAIN entries THEN below
                       ELSE Append(below, [lock |-> lock, rest |-> UsesIn(lock)])
          /\ entries' = IF lock \in DOMAIN entries THEN chosen ELSE With(chosen, lock, <<>>)
          /\ IF frames = <<>> THEN selectors' = Append(selectors, lock) /\ turn' = turn + 1
             ELSE UNCHANGED <<selectors, turn>>
    /\ UNCHANGED <<tree, walking, heights>>

Complete ==
    /\ walking = "build" /\ Left = <<>>
    /\ IF frames # <<>>
         THEN frames' = Front(frames) /\ UNCHANGED <<walking, turn>>
         ELSE walking' = "check" /\ turn' = 1 /\ UNCHANGED frames
    /\ UNCHANGED <<tree, entries, selectors, heights>>

-----------------------------------------------------------------------------
(* The validator, which walks the children of a lock in any order.          *)

\* The lock is what its `uses` says, in the action that has it.
Matches(u, lock, owner) ==
    /\ lock.path = u.path
    /\ lock.source = IF u.form = "local" THEN "workspace" ELSE "github"
    /\ u.form = "remote" => lock.repository = u.repository /\ lock.ref = u.ref
    /\ u.form = "self" => lock = [Containing(owner) EXCEPT !.path = u.path]

\* What may be visited next: `uses` with their locks.
Visitable ==
    IF frames = <<>> THEN {<<tree.uses[i], selectors[i]>> : i \in {turn} \cap DOMAIN selectors}
    ELSE {<<u, entries[Owner][u]>> : u \in Last(frames).rest}

\* Mutant: what is below a lock that was met before does not count.
FitsItself(lock) == Depth <= MaxNestedActionDepth
FitsBelow(lock) ==
    Depth + (IF lock \in DOMAIN heights THEN heights[lock] - 1 ELSE 0) <= MaxNestedActionDepth

Unacceptable(u, lock) ==
    \/ lock \notin DOMAIN entries
    \/ ~Matches(u, lock, Owner)
    \/ Walked(lock)
    \/ ~FitsBelow(lock)

Reject ==
    /\ walking = "check"
    /\ \/ Charged(DOMAIN entries) > MaxActionExecutablePathBytes
       \/ \E v \in Visitable : Unacceptable(v[1], v[2])
    /\ walking' = "invalid"
    /\ UNCHANGED <<tree, turn, frames, entries, selectors, heights>>

\* The frame of what used it, with what is left in it and the height so far.
Under(u, height) ==
    IF frames = <<>> THEN <<>>
    ELSE Append(Front(frames), [Last(frames) EXCEPT !.rest = @ \ {u}, !.height = Max({@, height})])

Visit ==
    /\ walking = "check" /\ Charged(DOMAIN entries) <= MaxActionExecutablePathBytes
    /\ \E v \in Visitable :
         /\ ~Unacceptable(v[1], v[2])
         /\ frames' = IF v[2] \in DOMAIN heights THEN Under(v[1], heights[v[2]] + 1)
                      ELSE Append(Under(v[1], 1), [lock |-> v[2], rest |-> DOMAIN entries[v[2]], height |-> 1])
    /\ turn' = IF frames = <<>> THEN turn + 1 ELSE turn
    /\ UNCHANGED <<tree, walking, entries, selectors, heights>>

\* A lock that is done, or all of them: each must have been reached.
Finish ==
    /\ walking = "check" /\ Visitable = {}
    /\ IF frames # <<>>
         THEN LET height == Last(frames).height
                  below == Front(frames)
              IN /\ heights' = With(heights, Owner, height)
                 /\ frames' = IF below = <<>> THEN <<>>
                              ELSE Append(Front(below), [Last(below) EXCEPT !.height = Max({@, height + 1})])
                 /\ UNCHANGED walking
         ELSE /\ walking' = IF DOMAIN heights = DOMAIN entries THEN "valid" ELSE "invalid"
              /\ UNCHANGED <<heights, frames>>
    /\ UNCHANGED <<tree, turn, entries, selectors>>

LockNext == Refuse \/ Add \/ Complete \/ Reject \/ Visit \/ Finish

LockSpec == LockInit /\ [][LockNext]_lockVars

-----------------------------------------------------------------------------

\* What the steps use, what that uses, and so on: level n is n deep.
Levels ==
    LET level[n \in 0..MaxNestedActionDepth] ==
            IF n = 0 THEN {Describe(u, Workspace(Blank)) : u \in Range(tree.uses)}
            ELSE UNION {{Describe(u, l) : u \in Range(UsesIn(l))} : l \in {k \in level[n - 1] : Describable(k)}}
    IN level
Used == UNION {Levels[n] : n \in 0..MaxNestedActionDepth - 1}

\* A job gets a plan exactly when what it uses, however it is shared and in
\* whatever order it was found, is nested no deeper than the limit, without a
\* cycle, and is all there and admitted; and the locks of the plan are those
\* and no other, each `uses` leading to the lock of what it names where it
\* stands.  (A lock that was complete when it was met again is not walked
\* again: only the heights of the second walk see how deep it goes there.)
LocksFollowUses ==
    walking \in {"refused", "invalid", "valid"} =>
        /\ walking = "valid" <=>
             /\ Levels[MaxNestedActionDepth] = {}
             /\ \A l \in Used : Admitted(l) /\ Describable(l)
             /\ Charged(Used) <= MaxActionExecutablePathBytes
        /\ walking = "valid" =>
             /\ DOMAIN entries = Used
             /\ \A i \in DOMAIN tree.uses : Matches(tree.uses[i], selectors[i], Workspace(Blank))
             /\ \A l \in Used :
                  /\ DOMAIN entries[l] = Range(UsesIn(l))
                  /\ \A u \in DOMAIN entries[l] : Matches(u, entries[l][u], l)
=============================================================================
