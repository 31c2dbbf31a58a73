------------------------------- MODULE Checkout -------------------------------
(* The native adapter of actions/checkout (internal/runtime/checkout.go): a *)
(* step validates its inputs, takes a directory of the workspace and runs   *)
(* git there, command by command.  Steps in the background check out beside *)
(* it and leave files, branches of the repository move, and every command   *)
(* can fail.  What needs the provider of a private repository is run with   *)
(* the credential of the job.                                               *)
EXTENDS Naturals, FiniteSets, Sequences

CONSTANTS
    CheckoutJobs,       \* [private, tracked, uses |-> sequence of inputs, tools |-> has Git LFS]
    Event,      \* the commit of the event
    Branch,     \* a branch
    Revisions,    \* that it can be at; the event's and others
    NoCommit,
    MaxTrouble  \* failing commands, files left and moves of the branch

\* Directories of the workspace, and what is above them.
Places == {"", "a", "a/b"}
Enclosing(p) == CASE p = "" -> {} [] p = "a" -> {""} [] p = "a/b" -> {"", "a"}
Descendants(p) == {q \in Places : p \in Enclosing(q)}

\* A remote-tracking ref is called "origin" here, and no commit is.
ASSUME CheckoutAssumption ==
    /\ Event # "origin"
    /\ \A j \in CheckoutJobs : \A i \in DOMAIN j.uses :
         j.uses[i].path \in Places /\ j.uses[i].ref # "origin"

VARIABLES
    job,      \* the element of CheckoutJobs
    place,    \* what is at each place: "none", "dir", "file" or "link"
    repo,     \* the repository at each place, if any
    doing,    \* of each checkout, its next command
    running,  \* those that have started
    tip,      \* of the branch
    tips,     \* of each checkout, where the branch was since it started
    given,    \* the commands that ran with the credential
    needed,   \* those that had to reach the provider of a private repository
    output,   \* of each checkout, [ref, commit]
    trouble

checkoutVars == <<job, place, repo, doing, running, tip, tips, given, needed, output, trouble>>

Checkouts == DOMAIN job.uses
In(c) == job.uses[c]
At(c) == In(c).path

NoRepo == [made |-> FALSE, origin |-> FALSE, has |-> {}, at |-> [n \in {} |-> NoCommit], partial |-> FALSE,
           large |-> FALSE, sparse |-> FALSE, head |-> NoCommit, modules |-> "none"]
NoOutput == [ref |-> "", commit |-> NoCommit]

-----------------------------------------------------------------------------
(* The inputs.  A release declares some and has its own defaults.           *)

Declares(release, name) == name \notin (IF release = "v1" THEN {"sparse", "filter"} ELSE {})
HasOutputs(release) == release = "v7"

\* The ref is a commit or a branch; one that is computed from github.sha or
\* from outputs of other jobs must be the commit of the event.
Proven(s) == s.computed => s.ref = Event

Valid(s) ==
    /\ s.sparse # "no" => Declares(s.release, "sparse")
    /\ s.filter => Declares(s.release, "filter")

Depth(s) == IF s.depth = "" THEN (IF s.release = "v1" THEN "0" ELSE "1") ELSE s.depth

IsBranch(s) == s.ref = Branch
Selected(s) == IF s.ref = "" THEN Event ELSE s.ref
FetchTarget(s) == IF IsBranch(s) THEN "origin" ELSE Selected(s)

\* Sparse checkouts do not fetch the files that they leave out.
Filter(s) == s.filter \/ s.sparse # "no"

\* Mutant: only an asked for filter counts.
AskedFilter(s) == s.filter
FilterNeedsProvider(s) == Filter(s)

RefOutput(s) == IF s.ref = "" THEN "event" ELSE IF IsBranch(s) THEN Branch ELSE ""

-----------------------------------------------------------------------------

\* The compiler refuses a job one of whose own steps has inputs that do not
\* fit; it does not see those of the steps of its actions.
Planned(j) == \A i \in DOMAIN j.uses : ~j.uses[i].nested => Valid(j.uses[i])

CheckoutInit ==
    /\ job \in {j \in CheckoutJobs : Planned(j)}
    /\ place \in [Places -> {"none", "file", "link"}]
    /\ place[""] = "none" /\ place["a/b"] = "none"
    /\ repo = [p \in Places |-> NoRepo]
    /\ doing = [c \in Checkouts |-> "validate"] /\ running = {}
    /\ tip = Event /\ tips = [c \in Checkouts |-> {}]
    /\ given = {} /\ needed = {}
    /\ output = [c \in Checkouts |-> NoOutput]
    /\ trouble = 0

Continue(c, d) == doing' = [doing EXCEPT ![c] = d]
Files == <<place, repo>>
Provider == <<tip, tips, given, needed>>
Rest == <<job, running, output, trouble>>

\* A step in the foreground starts when those before it have ended.
Start(c) ==
    /\ doing[c] = "validate" /\ c \notin running
    /\ \A e \in Checkouts : e < c /\ ~In(e).background => doing[e] \in {"done", "failed"}
    /\ \A e \in Checkouts : e < c => e \in running
    /\ running' = running \cup {c}
    /\ tips' = [tips EXCEPT ![c] = {tip}]
    /\ Continue(c, IF Proven(In(c)) /\ Valid(In(c)) /\ (In(c).lfs => job.tools) THEN "inspect" ELSE "failed")
    /\ UNCHANGED <<job, Files, tip, given, needed, output, trouble>>

\* The workspace must be empty, or the directory not there and below none
\* but directories.
Inspect(c) ==
    LET p == At(c)
        free == IF p = "" THEN ~repo[""].made /\ \A q \in Descendants("") : place[q] = "none"
                ELSE place[p] = "none" /\ \A q \in Enclosing(p) \ {""} : place[q] \in {"none", "dir"}
    IN /\ doing[c] = "inspect"
       /\ Continue(c, IF free THEN "make" ELSE "failed")
       /\ UNCHANGED <<Files, Provider, Rest>>

Make(c) ==
    LET path == ({At(c)} \cup Enclosing(At(c))) \ {""}
    IN /\ doing[c] = "make"
       /\ IF \E q \in path : place[q] = "file" THEN Continue(c, "failed") /\ UNCHANGED place
          ELSE /\ place' = [q \in Places |-> IF q \in path /\ place[q] = "none" THEN "dir" ELSE place[q]]
               /\ Continue(c, "init")
       /\ UNCHANGED <<repo, Provider, Rest>>

\* A command of git: with the credential or without, reaching the provider or
\* not.  It fails, or does what follows.
Command(c, name, with, reaches) ==
    /\ doing[c] = name
    /\ given' = IF with /\ job.private THEN given \cup {<<c, name>>} ELSE given
    /\ needed' = IF reaches /\ job.private THEN needed \cup {<<c, name>>} ELSE needed
    /\ UNCHANGED <<job, running, output, tip, tips>>
FailsAt(c) == Continue(c, "failed") /\ UNCHANGED Files
Breaks(c) == trouble < MaxTrouble /\ trouble' = trouble + 1 /\ FailsAt(c)
Does(c, change, next) ==
    /\ repo' = [repo EXCEPT ![At(c)] = change] /\ Continue(c, next)
    /\ UNCHANGED <<place, trouble>>

InitGit(c) ==
    /\ Command(c, "init", FALSE, FALSE)
    /\ Breaks(c) \/ Does(c, [repo[At(c)] EXCEPT !.made = TRUE], "remote")

\* Adding the remote is what fails for the second in one directory.
AddRemote(c) ==
    /\ Command(c, "remote", FALSE, FALSE)
    /\ IF repo[At(c)].origin THEN FailsAt(c) /\ UNCHANGED trouble
       ELSE Breaks(c) \/ Does(c, [repo[At(c)] EXCEPT !.origin = TRUE], IF In(c).lfs THEN "install" ELSE "fetch")

InstallLFS(c) ==
    /\ Command(c, "install", FALSE, FALSE)
    /\ Breaks(c) \/ Does(c, repo[At(c)], "fetch")

\* All branches come with the full history, and the selected commit always.
FetchRefs(c) ==
    LET s == In(c)
        names == {FetchTarget(s)} \cup (IF Depth(s) = "0" THEN {"origin"} ELSE {})
    IN /\ Command(c, "fetch", TRUE, TRUE)
       /\ \/ Breaks(c)
          \/ Does(c, [repo[At(c)] EXCEPT !.at = [n \in names |-> IF n = "origin" THEN tip ELSE n],
                                         !.partial = Filter(s)],
                  IF s.lfs /\ s.sparse = "no" THEN "fetch lfs" ELSE "sparse")

FetchLFS(c) ==
    /\ Command(c, "fetch lfs", TRUE, TRUE)
    /\ Breaks(c) \/ Does(c, [repo[At(c)] EXCEPT !.large = TRUE], "sparse")

ConfigureSparse(c) ==
    LET s == In(c)
    IN /\ Command(c, "sparse", FALSE, FALSE)
       /\ \/ s.sparse # "no" /\ Breaks(c)
          \/ Does(c, [repo[At(c)] EXCEPT !.sparse = s.sparse # "no"], "checkout")

\* Files that were not fetched are, now.  Files in the way stop it.
Checkout(c) ==
    LET p == At(c)
        r == repo[p]
        mine == IF p = "" THEN job.tracked ELSE {}
    IN /\ Command(c, "checkout", FilterNeedsProvider(In(c)), r.partial \/ (In(c).lfs /\ ~r.large))
       /\ \/ Breaks(c)
          \/ \E q \in mine : place[q] # "none" /\ FailsAt(c) /\ UNCHANGED trouble
          \/ /\ \A q \in mine : place[q] \in {"none", "dir"}
             /\ place' = [q \in Places |-> IF q \in mine THEN "dir" ELSE place[q]]
             /\ repo' = [repo EXCEPT ![p].head = r.at[FetchTarget(In(c))]]
             /\ Continue(c, IF In(c).submodules = "no" THEN "verify" ELSE "sync")
             /\ UNCHANGED trouble

Sync(c) ==
    /\ Command(c, "sync", FALSE, FALSE)
    /\ Breaks(c) \/ Does(c, repo[At(c)], "update")

\* A submodule can say that it is not to be updated.
Update(c) ==
    /\ Command(c, "update", TRUE, TRUE)
    /\ \/ Breaks(c)
       \/ \E m \in {In(c).submodules, "some"} : Does(c, [repo[At(c)] EXCEPT !.modules = m], "status")

Status(c) ==
    /\ Command(c, "status", FALSE, FALSE)
    /\ IF repo[At(c)].modules = "some" THEN FailsAt(c) /\ UNCHANGED trouble
       ELSE Breaks(c) \/ Does(c, repo[At(c)], "verify")

\* HEAD must be a commit, and the requested one when one is.
Verify(c) ==
    LET s == In(c)
        head == repo[At(c)].head
        right == head # NoCommit /\ (IsBranch(s) \/ head = Selected(s))
    IN /\ doing[c] = "verify"
       /\ Continue(c, IF right THEN "done" ELSE "failed")
       /\ output' = IF right /\ HasOutputs(s.release)
                      THEN [output EXCEPT ![c] = [ref |-> RefOutput(s), commit |-> head]] ELSE output
       /\ UNCHANGED <<job, running, trouble, Files, Provider>>

Push ==
    /\ trouble < MaxTrouble /\ trouble' = trouble + 1
    /\ tip' \in Revisions \ {tip}
    /\ tips' = [c \in Checkouts |-> IF c \in running /\ doing[c] \notin {"done", "failed"} THEN tips[c] \cup {tip'} ELSE tips[c]]
    /\ UNCHANGED <<job, running, Files, doing, given, needed, output>>

\* Another step leaves a file or a directory.
Leave ==
    /\ trouble < MaxTrouble /\ trouble' = trouble + 1
    /\ \E p \in Places \ {""}, kind \in {"file", "dir"} :
         /\ place[p] = "none" /\ \A q \in Enclosing(p) \ {""} : place[q] = "dir"
         /\ place' = [place EXCEPT ![p] = kind]
    /\ UNCHANGED <<job, running, repo, doing, Provider, output>>

CheckoutNext ==
    \/ \E c \in Checkouts :
         \/ Start(c) \/ Inspect(c) \/ Make(c) \/ InitGit(c) \/ AddRemote(c) \/ InstallLFS(c) \/ FetchRefs(c)
         \/ FetchLFS(c) \/ ConfigureSparse(c) \/ Checkout(c) \/ Sync(c) \/ Update(c) \/ Status(c) \/ Verify(c)
    \/ Push \/ Leave

CheckoutSpec == CheckoutInit /\ [][CheckoutNext]_checkoutVars

-----------------------------------------------------------------------------

\* A checkout that succeeds leaves in a directory of its own, whoever checked
\* out there before or at the same time, what was asked for: the commit of the
\* event, or the one named, whatever its branch has become, or one the branch
\* was at meanwhile; with the files and submodules asked for; and says so.
\* One that fails says nothing.  Every command that has to reach the provider
\* of a private repository has the credential of the job, lazy fetches
\* included, and no other command has it.
CheckoutExact ==
    /\ given = needed
    /\ \A c \in Checkouts :
         LET s == In(c)
             r == repo[At(c)]
         IN IF doing[c] # "done" THEN output[c] = NoOutput
            ELSE /\ \A e \in Checkouts \ {c} : At(e) = At(c) => doing[e] # "done"
                 /\ IF IsBranch(s) THEN r.head \in tips[c] ELSE r.head = Selected(s)
                 /\ r.sparse = (s.sparse # "no")
                 /\ s.submodules \in {"direct", "recursive"} => r.modules = s.submodules
                 /\ output[c] = IF HasOutputs(s.release) THEN [ref |-> RefOutput(s), commit |-> r.head] ELSE NoOutput
=============================================================================
