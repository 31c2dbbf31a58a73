--------------------------- MODULE ArtifactTransfer ---------------------------
(***************************************************************************)
(* The native adapters of upload-artifact and download-artifact: the steps *)
(* of a job select files, archive and store them, and fetch and install    *)
(* the artifacts of its needs, while other steps use the same workspace.   *)
(*                                                                         *)
(* A path is a sequence of names.  The tree has, of each path, a node: a   *)
(* file with its identity, content and time of change, a directory, a      *)
(* symbolic link to Target, or nothing.                                    *)
(***************************************************************************)
EXTENDS Naturals, Sequences, FiniteSets, SequencesExt, FiniteSetsExt, Functions, TLC

CONSTANTS
    Transfers,     \* jobs: [steps: [step -> request], tree, needs: artifacts in order of names, events: bound]
    Lower,         \* strings.ToLower of names
    Dotted,        \* names with a leading dot
    Weight,        \* size of a content
    Target,        \* the file links lead to
    MaxArtifacts   \* MaxResultArtifacts

ASSUME TransfersAssumption ==
    /\ MaxArtifacts \in Nat
    /\ \A t \in Transfers : /\ IsFiniteSet(DOMAIN t.tree) /\ Target \in DOMAIN t.tree
                           /\ t.needs \in Seq(Range(t.needs))

VARIABLES
    transfer,
    tree,
    reserved,  \* artifactRegistry
    at,        \* [step -> what it is doing]
    work,      \* [step -> its files, archive, members; todo: what it has open, or is to fetch]
    stored,    \* archives in the native store
    results,   \* artifacts of the job result
    masks,     \* names that contain a registered mask
    cancelled, \* steps whose context has ended
    events,    \* changes by others, cancellations, registered masks, faults
    had        \* history: the contents each file has had

transferVars == <<transfer, tree, reserved, at, work, stored, results, masks, cancelled, events, had>>

Steps == DOMAIN transfer.steps
Request(s) == transfer.steps[s]

Nothing == [kind |-> "none"]
Directory == [kind |-> "dir"]
Link == [kind |-> "link"]
Regular(i, c, t) == [kind |-> "file", id |-> i, content |-> c, time |-> t]
Folded(p) == [i \in DOMAIN p |-> Lower[p[i]]]
IsHidden(p) == \E i \in DOMAIN p : p[i] \in Dotted
Kind(t, p) == IF p = <<>> THEN "dir" ELSE IF p \in DOMAIN t THEN t[p].kind ELSE "none"

-----------------------------------------------------------------------------
(* Selection.  A root is a literal path, of which dirOnly ends in a slash, *)
(* or a pattern that matches what is directly below its literal prefix.    *)

Linked(t, p) == \E i \in DOMAIN p : Kind(t, SubSeq(p, 1, i)) = "link"

Visible(t, r, hidden) ==
    {p \in DOMAIN t : /\ t[p].kind # "none" /\ IsPrefix(r.path, p) /\ (r.glob => p # r.path)
                      /\ hidden \/ ~IsHidden(p)
                      /\ r.dirOnly => Kind(t, r.path) = "dir"}

SelectedFiles(t, r, hidden) == {p \in Visible(t, r, hidden) : t[p].kind = "file"}
Base(t, r) == IF r.glob \/ Kind(t, r.path) = "dir" THEN r.path ELSE Front(r.path)
Below(base, p) == SubSeq(p, Len(base) + 1, Len(p))

\* collectUploadFiles: the files with their names in the archive.
Collected(t, u) ==
    LET roots == {i \in DOMAIN u.roots : u.hidden \/ ~IsHidden(u.roots[i].path)}
        found(i) == SelectedFiles(t, u.roots[i], u.hidden)
        files == UNION {found(i) : i \in roots}
        base == LongestCommonPrefix({Base(t, u.roots[i]) : i \in {j \in roots : found(j) # {}}})
    IN  [refused |-> \/ \E i \in roots : /\ ~u.roots[i].glob
                                         /\ Linked(t, u.roots[i].path)
                     \/ \E i \in roots : \E p \in Visible(t, u.roots[i], u.hidden) : t[p].kind = "link"
                     \/ \E i, j \in roots : i # j /\ found(i) \cap found(j) # {}
                     \/ \E p, q \in files : p # q /\ Folded(Below(base, p)) = Folded(Below(base, q)),
         files |-> {[path |-> p, name |-> Below(base, p), info |-> t[p]] : p \in files}]

Contents(t) == {<<n.id, n.content>> : n \in {m \in Range(t) : m.kind = "file"}}

-----------------------------------------------------------------------------
TransferInit ==
    /\ transfer \in Transfers
    /\ tree = transfer.tree
    /\ reserved = {}
    /\ at = [s \in Steps |-> "start"]
    /\ work = [s \in Steps |-> [files |-> {}, archive |-> <<>>, todo |-> {}, members |-> <<>>]]
    /\ stored = {} /\ results = <<>> /\ masks = {} /\ cancelled = {}
    /\ events = 0
    /\ had = Contents(tree)

Enter(s, stage) == at' = [at EXCEPT ![s] = stage]
Over(s) == at[s] \in {"done", "failed"}
Remember == had' = had \cup Contents(tree')
Running(s, stage) == at[s] = stage /\ s \notin cancelled
AnEvent == events < transfer.events /\ events' = events + 1
Unnoticed == UNCHANGED <<transfer, masks, cancelled, events>>
TreeKept == UNCHANGED <<tree, had>>

\* Mutant: a step gives up the name it asked for, reserved by it or not.
ReleasedAlways(s, mine) == reserved \ {Lower[Request(s).name]}

\* The deferred release, of a step that reserved the name.
Released(s, mine) == IF mine THEN reserved \ {Lower[Request(s).name]} ELSE reserved

FailUpload(s, mine) ==
    /\ Enter(s, "failed")
    /\ reserved' = Released(s, mine)
    /\ UNCHANGED <<work, stored, results>> /\ TreeKept

-----------------------------------------------------------------------------
(* runUploadArtifactCommit                                                 *)

Uploading(s) == Request(s).kind = "upload"

Reserve(s) ==
    /\ Running(s, "start") /\ Uploading(s)
    /\ LET name == Request(s).name IN
       IF name \in masks \/ Lower[name] \in reserved \/ Cardinality(reserved) = MaxArtifacts THEN FailUpload(s, FALSE)
       ELSE /\ reserved' = reserved \cup {Lower[name]}
            /\ Enter(s, "collect")
            /\ UNCHANGED <<work, stored, results>> /\ TreeKept
    /\ Unnoticed

\* Without files an upload stores nothing: it fails or its name is free again.
\* The v1 contract stores a directory without files.
Collect(s) ==
    /\ Running(s, "collect")
    /\ LET u == Request(s)
           c == Collected(tree, u)
           emptyDirectory == u.v1 /\ LET p == u.roots[1].path IN Kind(tree, p) = "dir"
           missing == c.files = {} /\ ~emptyDirectory
       IN  IF c.refused \/ (missing /\ u.noFiles = "error") THEN FailUpload(s, TRUE)
           ELSE IF missing
           THEN /\ Enter(s, "done")
                /\ reserved' = Released(s, TRUE)
                /\ UNCHANGED <<work, stored, results>> /\ TreeKept
           ELSE /\ Enter(s, "archive")
                /\ work' = [work EXCEPT ![s].files = c.files]
                /\ UNCHANGED <<reserved, stored, results>> /\ TreeKept
    /\ Unnoticed

Unarchived(s) == {f \in work[s].files : f.name \notin DOMAIN work[s].archive}

\* The path is checked for links, then opened.
CheckLinks(s) ==
    /\ Running(s, "archive") /\ Unarchived(s) # {}
    /\ LET f == CHOOSE f \in Unarchived(s) : TRUE IN
       IF Linked(tree, f.path) THEN FailUpload(s, TRUE)
       ELSE Enter(s, "open") /\ UNCHANGED <<reserved, work, stored, results>> /\ TreeKept
    /\ Unnoticed

\* What opening a path yields: a link inside the root is followed.
Opened(p) == IF Kind(tree, p) = "link" THEN tree[Target] ELSE tree[p]

\* os.SameFile and the size; the time of change is not compared.
SameFile(info, node) == node.id = info.id /\ Weight[node.content] = Weight[info.content]

OpenSource(s) ==
    /\ Running(s, "open")
    /\ LET f == CHOOSE f \in Unarchived(s) : TRUE
           node == Opened(f.path)
       IN  IF node.kind # "file" \/ (node.kind = "file" /\ ~SameFile(f.info, node)) THEN FailUpload(s, TRUE)
           ELSE /\ Enter(s, "read")
                /\ work' = [work EXCEPT ![s].todo = {node}]
                /\ UNCHANGED <<reserved, stored, results>> /\ TreeKept
    /\ Unnoticed

Archived(w, name, content) ==
    [w EXCEPT !.archive = [n \in DOMAIN w.archive \cup {name} |-> IF n = name THEN content ELSE w.archive[n]],
              !.todo = {}]

\* Of a file that changes meanwhile parts are read.
Copied(before, after) == IF before = after THEN before.content ELSE "parts"

\* The file is read while others write: an open file that is not in the tree
\* any more does not change.
ReadSource(s) ==
    /\ Running(s, "read")
    /\ LET f == CHOOSE f \in Unarchived(s) : TRUE
           before == CHOOSE n \in work[s].todo : TRUE
           now == {n \in Range(tree) : n.kind = "file" /\ n.id = before.id}
           after == IF now = {} THEN before ELSE CHOOSE n \in now : TRUE
       IN  IF after # before THEN FailUpload(s, TRUE)
           ELSE /\ Enter(s, "archive")
                /\ work' = [work EXCEPT ![s] = Archived(@, f.name, Copied(before, after))]
                /\ UNCHANGED <<reserved, stored, results>> /\ TreeKept
    /\ Unnoticed

Artifact(s) ==
    [name |-> Request(s).name, archive |-> work[s].archive, count |-> Cardinality(work[s].files), producer |-> s]

\* verifyUploadZIP and UploadArtifactFrom, which can store the archive and
\* return when the context has ended.
StoreArchive(s) ==
    /\ Running(s, "archive") /\ Unarchived(s) = {}
    /\ stored' = stored \cup {Artifact(s)}
    /\ Enter(s, "stored")
    /\ UNCHANGED <<reserved, work, results>> /\ TreeKept /\ Unnoticed

UploadFails(s) ==
    /\ Running(s, "archive") /\ Unarchived(s) = {}
    /\ AnEvent
    /\ FailUpload(s, TRUE)
    /\ UNCHANGED <<transfer, masks, cancelled>>

FinishUpload(s) ==
    /\ Running(s, "stored")
    /\ results' = Append(results, Artifact(s))
    /\ Enter(s, "done")
    /\ UNCHANGED <<reserved, work, stored>> /\ TreeKept /\ Unnoticed

-----------------------------------------------------------------------------
(* runDownloadArtifact                                                     *)

Downloading(s) == Request(s).kind = "download"

FailDownload(s) == Enter(s, "failed") /\ UNCHANGED <<reserved, work, stored, results>> /\ TreeKept

\* The artifacts of direct needs by exact name, or by a pattern, in the order
\* of names.
Needs == transfer.needs
Matched(s) == {i \in DOMAIN Needs : Needs[i].name \in Request(s).names}

\* A name or pattern that contains a mask is refused.  Which masks a pattern
\* contains, its names do not tell.
Match(s) ==
    /\ Running(s, "start") /\ Downloading(s)
    /\ LET d == Request(s) IN
       \/ d.pattern /\ masks # {} /\ FailDownload(s)
       \/ IF \/ ~d.pattern /\ (d.names \cap masks # {} \/ Cardinality(Matched(s)) # 1)
             \/ d.pattern /\ (\/ Matched(s) = {}
                              \/ \E i, j \in Matched(s) : i # j /\ Lower[Needs[i].name] = Lower[Needs[j].name])
             \/ Cardinality(Matched(s)) > MaxArtifacts
            THEN FailDownload(s)
            ELSE /\ Enter(s, "fetch")
                 /\ work' = [work EXCEPT ![s].todo = Matched(s)]
                 /\ UNCHANGED <<reserved, stored, results>> /\ TreeKept
    /\ Unnoticed

\* One is in the way of the other as a directory, or differs in case only.
Under(p, q) == IsStrictPrefix(Folded(p), Folded(q))
Collides(p, q) == Under(p, q) \/ Under(q, p) \/ (p # q /\ Folded(p) = Folded(q))

\* stageDownloadZIPFile: the member of the later artifact.
Staged(w, i) ==
    LET archive == Needs[i].archive IN
    [w EXCEPT !.members = [n \in DOMAIN archive \cup DOMAIN w.members |->
                              IF n \in DOMAIN archive THEN archive[n] ELSE w.members[n]],
              !.todo = w.todo \ {i}]

Fetch(s) ==
    /\ Running(s, "fetch")
    /\ \E i \in work[s].todo :
         /\ \A j \in work[s].todo : i <= j
         /\ LET names == DOMAIN Needs[i].archive \cup DOMAIN work[s].members IN
            IF \E p, q \in names : Collides(p, q) THEN FailDownload(s)
            ELSE /\ work' = [work EXCEPT ![s] = Staged(@, i)]
                 /\ UNCHANGED <<at, reserved, stored, results>> /\ TreeKept
    /\ Unnoticed

\* The store fails, or what it returns is not the archive of the manifest.
FetchFails(s) ==
    /\ Running(s, "fetch") /\ work[s].todo # {}
    /\ AnEvent
    /\ FailDownload(s)
    /\ UNCHANGED <<transfer, masks, cancelled>>

Destination(s, name) == Request(s).path \o name

\* openDownloadDirectoryAt
Passable(p, create) ==
    \A i \in 1..(Len(p) - 1) : \/ Kind(tree, SubSeq(p, 1, i)) = "dir"
                               \/ Kind(tree, SubSeq(p, 1, i)) = "none" /\ create
Obstructed(p) == Kind(tree, p) \in {"dir", "link"}
Above(p) == {SubSeq(p, 1, i) : i \in 1..(Len(p) - 1)}

\* Every member is looked at before the first is installed.
Preflight(s) ==
    /\ Running(s, "fetch") /\ work[s].todo = {}
    /\ IF \E n \in DOMAIN work[s].members :
             LET p == Destination(s, n) IN ~Passable(p, TRUE) \/ Obstructed(p)
       THEN FailDownload(s)
       ELSE /\ Enter(s, "install")
            /\ work' = [work EXCEPT ![s].files = {[path |-> Destination(s, n), name |-> n] : n \in DOMAIN work[s].members}]
            /\ UNCHANGED <<reserved, stored, results>> /\ TreeKept
    /\ Unnoticed

\* The directories of the next member, and its copy under a temporary name.
Place(s) ==
    /\ Running(s, "install") /\ work[s].files # {}
    /\ LET p == (CHOOSE f \in work[s].files : TRUE).path IN
       IF ~Passable(p, TRUE) THEN FailDownload(s)
       ELSE /\ tree' = [q \in DOMAIN tree \cup Above(p) |-> IF q \in Above(p) THEN Directory ELSE tree[q]]
            /\ Enter(s, IF Obstructed(p) THEN "failed" ELSE "placed")
            /\ UNCHANGED <<reserved, work, stored, results, had>>
    /\ Unnoticed

\* The destination is looked at once more and the copy renamed to it.
Rename(s) ==
    /\ at[s] = "placed"
    /\ LET f == CHOOSE f \in work[s].files : TRUE IN
       IF Obstructed(f.path) THEN FailDownload(s)
       ELSE /\ tree' = [q \in DOMAIN tree \cup {f.path} |->
                      IF q = f.path THEN Regular(<<s>> \o f.name, work[s].members[f.name], 0) ELSE tree[q]]
            /\ Remember
            /\ work' = [work EXCEPT ![s].files = @ \ {f}]
            /\ Enter(s, "install")
            /\ UNCHANGED <<reserved, stored, results>>
    /\ Unnoticed

FinishDownload(s) ==
    /\ Running(s, "install") /\ work[s].files = {}
    /\ Enter(s, "done")
    /\ UNCHANGED <<reserved, work, stored, results>> /\ TreeKept /\ Unnoticed

-----------------------------------------------------------------------------
(* Contexts, other steps and their processes                               *)

ArtifactNames(s) == IF Uploading(s) THEN {Request(s).name} ELSE Request(s).names

\* The context of a step ends; the step sees it when it looks next.
Stop(s) ==
    /\ ~Over(s) /\ s \notin cancelled
    /\ AnEvent
    /\ cancelled' = cancelled \cup {s}
    /\ UNCHANGED <<transfer, tree, reserved, at, work, stored, results, masks, had>>

Abort(s) ==
    /\ s \in cancelled /\ ~Over(s) /\ at[s] # "placed"
    /\ IF Uploading(s) THEN FailUpload(s, at[s] # "start") ELSE FailDownload(s)
    /\ Unnoticed

RegisterMask(name) ==
    /\ name \notin masks
    /\ AnEvent
    /\ masks' = masks \cup {name}
    /\ UNCHANGED <<transfer, tree, reserved, at, work, stored, results, cancelled, had>>

\* A process changes a file, or puts another file or a link in its place.
Disturb(p) ==
    /\ p = <<Head(p)>> \/ Kind(tree, Front(p)) = "dir"
    /\ Kind(tree, p) # "dir"
    /\ AnEvent
    /\ \/ \E c \in DOMAIN Weight :
            tree' = [tree EXCEPT ![p] = IF Kind(tree, p) = "file" THEN Regular(tree[p].id, c, events') ELSE Regular(<<"new", ToString(events')>>, c, 0)]
       \/ tree' = [tree EXCEPT ![p] = Regular(<<"new", ToString(events')>>, CHOOSE c \in DOMAIN Weight : TRUE, 0)]
       \/ p # Target /\ tree' = [tree EXCEPT ![p] = Link]
       \/ tree' = [tree EXCEPT ![p] = Nothing]
    /\ Remember
    /\ UNCHANGED <<transfer, reserved, at, work, stored, results, masks, cancelled>>

TransferOver == (\A s \in Steps : Over(s)) /\ UNCHANGED transferVars

TransferNext ==
    \/ \E s \in Steps :
         \/ Reserve(s) \/ Collect(s) \/ CheckLinks(s) \/ OpenSource(s) \/ ReadSource(s)
         \/ StoreArchive(s) \/ UploadFails(s) \/ FinishUpload(s)
         \/ Match(s) \/ Fetch(s) \/ FetchFails(s) \/ Preflight(s) \/ Place(s) \/ Rename(s) \/ FinishDownload(s)
         \/ Stop(s) \/ Abort(s)
    \/ \E s \in Steps : \E name \in ArtifactNames(s) : RegisterMask(name)
    \/ \E p \in DOMAIN tree : Disturb(p)
    \/ TransferOver

TransferSpec == TransferInit /\ [][TransferNext]_transferVars

-----------------------------------------------------------------------------
(* Properties                                                              *)

\* What a download of several artifacts leaves under a name: the member of the
\* last of them that has it.
LastMember(s, n) ==
    Needs[Max({i \in Matched(s) : n \in DOMAIN Needs[i].archive})].archive[n]

\* Whatever the other steps do meanwhile, and wherever a step is cancelled or
\* fails: an artifact of the job result has its name for itself, is in the
\* store, and has of each file selected, and of no other, a content this very
\* file had; a name is taken exactly while a step may still give it to an
\* artifact or has; and a download that succeeds has installed every member.
TransfersExact ==
    /\ \A i, j \in DOMAIN results : i # j => Lower[results[i].name] # Lower[results[j].name]
    /\ Len(results) <= MaxArtifacts
    /\ \A i \in DOMAIN results :
          /\ results[i] \in stored
          /\ LET files == work[results[i].producer].files IN
             /\ DOMAIN results[i].archive = {f.name : f \in files}
             /\ results[i].count = Cardinality(DOMAIN results[i].archive)
             /\ \A f \in files : <<f.info.id, results[i].archive[f.name]>> \in had
    /\ reserved = {Lower[Request(s).name] : s \in {t \in Steps : Uploading(t) /\
                     \/ at[t] \in {"collect", "archive", "open", "read", "stored"}
                     \/ \E i \in DOMAIN results : results[i].producer = t}}
    /\ \A s \in Steps : Downloading(s) /\ at[s] = "done" =>
          \A i \in Matched(s) : \A n \in DOMAIN Needs[i].archive : << <<s>> \o n, LastMember(s, n)>> \in had
=============================================================================
