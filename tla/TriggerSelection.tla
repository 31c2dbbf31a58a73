--------------------------- MODULE TriggerSelection ---------------------------
(***************************************************************************)
(* Which workflows a build runs: the event the importer finds in the       *)
(* environment and the webhook of the build, the changed paths it derives  *)
(* from the webhook and the checkout, the condition it gives the steps of  *)
(* a workflow, and what Buildkite makes of that condition.                 *)
(*                                                                         *)
(* A pattern is the set of names it matches.  A filter is a list of        *)
(* patterns, each positive or negated, and may be an -ignore list.  The    *)
(* history is a graph of commits; a checkout has some of them, and a       *)
(* shallow one forgets the parents of others.                              *)
(***************************************************************************)
EXTENDS Integers, Sequences, FiniteSets, FiniteSetsExt, SequencesExt

CONSTANTS Scenarios,   \* families of what builds may find: env, hook, checkout, workflows, happened
          Parents,     \* of a commit
          Content,     \* of a commit: file -> version
          MaxCommits,  \* maxGitHubPushCommits
          none,
          zero         \* zeroGitCommit

VARIABLES
    scene,     \* the scenario
    pc,        \* "load", "paths", "select", "uploaded", "evaluated" or "failed"
    event,     \* the effective event
    paths,     \* ChangedPaths: a set, or none if they are unavailable
    pathError, \* workflows with a PathFiltersError
    verified,  \* workflows with PathFiltersIdentityVerified
    selection, \* per workflow: none or what was selected
    ran        \* workflows whose steps Buildkite ran

selectionVars == <<scene, pc, event, paths, pathError, verified, selection, ran>>

env       == scene.env
hook      == scene.hook
checkout  == scene.checkout
workflows == scene.workflows

SelectionInit ==
    /\ \E family \in Scenarios : scene \in family
    /\ pc = "load"
    /\ event = none /\ paths = none
    /\ pathError = {} /\ verified = {}
    /\ selection = [w \in DOMAIN scene.workflows |-> none]
    /\ ran = {}

-----------------------------------------------------------------------------
(* Events.  One stands for all that are treated alike: "issues" for those  *)
(* with optional activity types, "deployment" for those without types,     *)
(* "fork" for those that refuse only a non-empty list of them.             *)

Activities ==
    [pull_request |-> {"opened", "synchronize", "reopened", "closed"},
     merge_group  |-> {"checks_requested", "destroyed"},
     release      |-> {"published", "created"},
     issues       |-> {"opened", "closed"},
     pull_request_review |-> {"submitted", "edited"}]

Default ==
    [pull_request |-> {"opened", "synchronize", "reopened"},
     merge_group  |-> {"checks_requested"},
     release      |-> {"published", "created"}]

Active == DOMAIN Activities
SupportedEvents ==
    Active \cup {"push", "schedule", "workflow_dispatch", "deployment", "fork", "workflow_call"}

\* Events whose name alone is enough for a build, and those that need the
\* payload they came with.
Direct  == {"push", "pull_request", "workflow_dispatch", "schedule"}
Hooked  == {"issues", "pull_request_review", "release", "merge_group", "deployment", "fork"}
Payload == {"pull_request_review", "deployment", "fork"}

\* Filters an event refuses.
Refused(e) ==
    CASE e = "workflow_call" -> {"paths"}
      [] e \in {"workflow_dispatch", "schedule"} -> {"types", "branches", "tags", "paths"}
      [] e \in {"push", "deployment", "fork"} -> {"types"}
      [] e \in {"pull_request", "merge_group"} -> {"tags"}
      [] OTHER -> {}

-----------------------------------------------------------------------------
(* The effective event                                                     *)

\* buildkiteGitHubEventName; a name that is no event name is not taken.
GitHubEvent == IF env.github # none THEN env.github ELSE IF env.buildkite = "Odd" THEN none ELSE env.buildkite

\* What a build is, as far as Buildkite itself says.
BuildEvent ==
    IF env.pr THEN "pull_request" ELSE IF env.schedule THEN "schedule" ELSE "push"

\* The event without its payload, "error" for environments that contradict
\* themselves: a trigger's identity is complete or absent.
SourceEvent ==
    IF \/ env.pr /\ env.tag # none
       \/ GitHubEvent \in {"deployment", "fork"} /\ env.pr
       \/ GitHubEvent = "deployment" /\ env.buildkite # "deployment"
       \/ /\ GitHubEvent \in Hooked /\ env.trigger # "complete"
          /\ GitHubEvent \in {"issues", "release", "merge_group"} => env.trigger # "absent"
    THEN "error"
    ELSE IF GitHubEvent \in Direct \/ (GitHubEvent \in Hooked /\ env.trigger = "complete")
    THEN GitHubEvent ELSE BuildEvent

\* A push has the ref of its branch or tag, whatever else the build is; a
\* trigger names the ref.
SourceRef(e) ==
    IF env.pr /\ e # "push" THEN [kind |-> "pull", name |-> none]
    ELSE IF env.tag # none THEN [kind |-> "tag", name |-> env.tag]
    ELSE [kind |-> "branch", name |-> env.branch]

\* The payload made up for a build without webhook.
BuildPayload(e) ==
    IF env.pr /\ e # "push"
    THEN [action |-> IF env.trigger = "complete" /\ env.action # none THEN env.action ELSE "synchronize",
          base |-> env.base]
    ELSE [action |-> none, base |-> none]

\* A payload that must be, and is not, about this build.  Pushes and pull
\* requests are compared with the checkout where it matters, in their paths.
Foreign(e) ==
    /\ e \in Hooked
    /\ \/ ~hook.own
       \/ e \in Active /\ hook.action \notin Activities[e]
       \/ e \in Active /\ hook.action # env.action /\ (e = "merge_group" => env.trigger = "complete")
       \/ e = "merge_group" /\ (env.base = none \/ hook.base # env.base)
       \/ e = "release" /\ (env.tag = none \/ env.tag # env.branch)
       \/ e = "issues" /\ env.tag # none /\ env.trigger = "absent"
       \/ e = "pull_request_review" /\ ~env.pr

Fails == pc' = "failed" /\ UNCHANGED <<scene, event, paths, pathError, verified, selection, ran>>

Effective(e, payload, origin) ==
    /\ event' = [name |-> e, ref |-> SourceRef(e), action |-> payload.action,
                 base |-> payload.base, origin |-> origin]
    /\ pc' = "paths"
    /\ UNCHANGED <<scene, paths, pathError, verified, selection, ran>>

\* The payload of the build's webhook, on the identity of the build.
LoadWebhook ==
    /\ pc = "load" /\ hook # none
    /\ LET e == IF GitHubEvent # none THEN GitHubEvent ELSE SourceEvent IN
       IF SourceEvent = "error" \/ Foreign(e) THEN Fails ELSE Effective(e, hook, "webhook")

\* A rebuild, or a build that no webhook caused.
LoadBuild ==
    /\ pc = "load" /\ hook = none
    /\ IF \/ SourceEvent = "error"
          \/ GitHubEvent \in Payload
          \/ GitHubEvent \in {"release", "merge_group"} /\ env.trigger # "absent"
       THEN Fails
       ELSE Effective(SourceEvent, BuildPayload(SourceEvent), "build")

\* LiveEventPredicate, as Buildkite evaluates it on the build.
Fallback == env.github = none /\ env.buildkite \notin Direct \cup {"pull_request_review"}
Live(e) ==
    \/ env.github = e \/ (env.github = none /\ env.buildkite = e)
    \/ Fallback /\ CASE e = "push"         -> ~env.pr /\ ~env.schedule
                     [] e = "schedule"     -> ~env.pr /\ env.schedule
                     [] e = "pull_request" -> env.pr
                     [] OTHER              -> FALSE

-----------------------------------------------------------------------------
(* Filters                                                                 *)

\* refFilters, pathFiltersMatch: a negated pattern follows a positive one, and
\* never stands in an -ignore list.
Malformed(f) ==
    f # none /\ \E i \in DOMAIN f.patterns :
        ~f.patterns[i].positive /\ (f.ignore \/ \A j \in 1 .. i - 1 : ~f.patterns[j].positive)

\* refFilters: the condition that is built, pattern by pattern.
Condition(f, name) ==
    f = none \/
    LET built[i \in 0 .. Len(f.patterns)] ==
            IF i = 0 THEN f.ignore
            ELSE IF f.patterns[i].positive /\ ~f.ignore
                 THEN built[i - 1] \/ name \in f.patterns[i].match
                 ELSE built[i - 1] /\ name \notin f.patterns[i].match
    IN  built[Len(f.patterns)]

\* refFilterMatches, pathFiltersMatch: the last pattern that matches decides.
Matches(f, name) ==
    f = none \/ LET hits == {i \in DOMAIN f.patterns : name \in f.patterns[i].match}
                IN IF hits = {} THEN f.ignore ELSE f.patterns[Max(hits)].positive /\ ~f.ignore

PathsMatch(f, changed) == \E p \in changed : Matches(f, p)

\* What GitHub documents of a filter.
LastDecides(f, name) ==
    \/ f = none
    \/ \E i \in DOMAIN f.patterns :
          /\ name \in f.patterns[i].match /\ f.patterns[i].positive /\ ~f.ignore
          /\ \A j \in i + 1 .. Len(f.patterns) :
                name \in f.patterns[j].match => f.patterns[j].positive
    \/ f.ignore /\ \A i \in DOMAIN f.patterns : name \notin f.patterns[i].match

\* A filter as the condition reads it, as the matcher does, and as documented.
Passes(how, f, name) ==
    CASE how = "condition" -> Condition(f, name)
      [] how = "matcher"   -> Matches(f, name)
      [] how = "github"    -> LastDecides(f, name)

\* A branch filter says nothing about tags, unless there is no tag filter.
RefPasses(how, t, ref) ==
    CASE ref.kind = "tag" ->
           IF t.tags = none THEN t.branches = none ELSE Passes(how, t.tags, ref.name)
      [] ref.kind = "branch" ->
           IF t.branches = none THEN t.tags = none ELSE Passes(how, t.branches, ref.name)

\* Without types, those that start a workflow by default; all if there is no
\* default.
TypesOf(t) == IF t.types = none \/ (t.types = {} /\ t.event # "pull_request")
              THEN IF t.event \in DOMAIN Default THEN Default[t.event] ELSE Activities[t.event]
              ELSE t.types

-----------------------------------------------------------------------------
(* translateTrigger                                                        *)

Uses(t, filter) ==
    CASE filter = "types"    -> t.types # none /\ ~(t.event = "fork" /\ t.types = {})
      [] filter = "branches" -> t.branches # none
      [] filter = "tags"     -> t.tags # none
      [] filter = "paths"    -> t.paths # none

\* Errors of a trigger whatever the event is.
Invalid(t) ==
    \/ \E f \in Refused(t.event) : Uses(t, f)
    \/ t.event \in {"push", "pull_request"} /\ Malformed(t.paths)
    \/ t.event \in {"push", "pull_request", "merge_group"} /\ Malformed(t.branches)
    \/ t.event = "push" /\ Malformed(t.tags)
    \/ t.event = "pull_request" /\ t.types = {}
    \/ t.event \in Active /\ ~(TypesOf(t) \subseteq Activities[t.event])

\* What the event of the build lacks for a trigger.
Lacking(t) ==
    \/ t.event = "push" /\ event.ref.kind = "pull"
    \/ t.event \in Active /\ event.action = none
    \/ t.event \in {"pull_request", "merge_group"} /\ t.branches # none /\ event.base = none
    \/ t.event \in {"merge_group", "pull_request_review"} /\ event.action \notin Activities[t.event]

\* Its ref and activity, by the condition that is emitted or by the matcher.
Admits(how, t) ==
    /\ t.event = "push" => RefPasses(how, t, event.ref)
    /\ t.event \in {"pull_request", "merge_group"} =>
          (event.base # none => Passes(how, t.branches, event.base))
    /\ t.event \in Active => event.action \in TypesOf(t)

NeedsPaths(t) ==
    t.paths # none /\ (t.event = "pull_request" \/ (t.event = "push" /\ event.ref.kind # "tag"))

\* The term of a trigger of the event: "error", "none" if it does not
\* contribute, or whether its condition holds in the build.  Paths count only
\* where everything else matches.
Term(t, changed) ==
    LET counts == NeedsPaths(t) /\ Admits("matcher", t) IN
    IF Invalid(t) \/ Lacking(t) \/ (counts /\ changed = none) THEN "error"
    ELSE IF counts /\ ~PathsMatch(t.paths, changed) THEN "none"
    ELSE IF Live(t.event) /\ Admits("condition", t) THEN "true" ELSE "false"

\* TranslateEventTriggerCondition; the triggers of other events must be valid.
Translate(triggers, changed) ==
    LET Mine == {t \in triggers : t.event = event.name}
        Terms == {Term(t, changed) : t \in Mine}
    IN  IF \/ \E t \in triggers \ Mine : t.event \in SupportedEvents /\ Invalid(t)
           \/ \E t \in Mine : t.event \notin SupportedEvents
           \/ "error" \in Terms
        THEN "error"
        ELSE IF event.name = "workflow_call" \/ Terms \subseteq {"none"} THEN "none"
        ELSE IF "true" \in Terms THEN "true" ELSE "false"

\* TriggerEventSkipReason, TriggerFilterMismatchReason: what is said of a
\* workflow that does not run.
Reason(triggers, changed) ==
    LET Mine == {t \in triggers : t.event = event.name} IN
    IF Mine = {} THEN "event"
    ELSE IF \E t \in Mine : ~Admits("matcher", t) THEN "filter"
    ELSE IF \E t \in Mine : NeedsPaths(t) /\ changed # none /\ ~PathsMatch(t.paths, changed) THEN "paths"
    ELSE none

-----------------------------------------------------------------------------
(* Changed paths (populateChangedPaths)                                    *)

Commits == DOMAIN Parents
UsesPaths(w) == \E t \in workflows[w].triggers : t.event = event.name /\ t.paths # none
Filtered == {w \in DOMAIN workflows : UsesPaths(w)}

Graph(known) == [c \in Commits |-> IF c \in known THEN Parents[c] \cap known ELSE {}]
Ancestors(graph) ==
    LET anc[c \in Commits] == {c} \cup UNION {anc[p] : p \in graph[c]} IN anc

\* What the checkout knows of the history.
Known == Ancestors(IF checkout.shallow THEN Graph(checkout.have) ELSE Parents)
Single(S) == \E c \in S : S = {c}
Between(base, tip) == Known[tip] \ Known[base]
Diff(base, tip) == {f \in DOMAIN Content[base] : Content[base][f] # Content[tip][f]}

\* Mutant: the file in the checkout is taken to be that of the commit.
AnyTracked(tip) == {w \in Filtered : workflows[w].tracked}

\* Workflow files that are, in the checkout and byte by byte, those of the
\* commit; the others' filters are not those GitHub would apply.
Identified(tip) ==
    {w \in Filtered : workflows[w].tracked /\ workflows[w].triggers = workflows[w].committed}

Unverified == Filtered \ Identified(checkout.head)

\* Nothing is known before the identity of the push or pull request is
\* established (pathEvaluation fails as a whole).
Unavailable(reasons, identified) ==
    /\ paths' = none
    /\ pathError' = reasons
    /\ verified' = identified
    /\ pc' = "select"
    /\ UNCHANGED <<scene, event, selection, ran>>

Available(base, tip) ==
    /\ paths' = Diff(base, tip)
    /\ verified' = Identified(tip)
    /\ pathError' = Unverified
    /\ pc' = "select"
    /\ UNCHANGED <<scene, event, selection, ran>>

\* Events whose filters on paths are read; those of the push of a tag are not.
PathsCount == event.name = "pull_request" \/ (event.name = "push" /\ event.ref.kind # "tag")

NoPaths ==
    /\ pc = "paths" /\ (~PathsCount \/ Filtered = {})
    /\ pc' = "select"
    /\ UNCHANGED <<scene, event, paths, pathError, verified, selection, ran>>

PathsWanted == pc = "paths" /\ PathsCount /\ Filtered # {}

\* Only a webhook is evidence.  Of a build without one nothing is recorded for
\* the single workflows; all see that the paths are unavailable.
Unlinked ==
    /\ PathsWanted /\ event.origin # "webhook"
    /\ Unavailable({}, {})

PushWanted == PathsWanted /\ event.origin = "webhook" /\ event.name = "push"

\* The webhook is of this repository, branch and commit, and so is the
\* checkout.
PushIdentified ==
    /\ hook.own /\ hook.after # zero
    /\ hook.after = checkout.commit
    /\ hook.created <=> hook.before = zero
    /\ checkout.head = hook.after /\ hook.after \in checkout.have

\* newBranchPushDiffBase: the parent of the one commit of the push that has no
\* parent in it, if the list of commits is just what the branch adds to it.
NewBranchBase ==
    LET roots == {c \in hook.commits : Graph(checkout.have)[c] \cap hook.commits = {}}
        RangeBelow(c) == \E p \in Parents[c] : Between(p, hook.after) = hook.commits
    IN  IF hook.commits = {} THEN hook.after
        ELSE IF /\ hook.after \in hook.commits /\ hook.commits \subseteq checkout.have
                /\ hook.commits \subseteq Known[hook.after]
                /\ Single(roots) /\ \A c \in roots : Single(Parents[c]) /\ RangeBelow(c)
        THEN CHOOSE p \in UNION {Parents[c] : c \in roots} : TRUE
        ELSE none

\* The base of the diff, or none if the evidence is incomplete.
PushBase ==
    IF \/ checkout.shallow \/ hook.commits = none \/ Cardinality(hook.commits) > MaxCommits
       \/ hook.created /\ hook.forced
    THEN none
    ELSE IF hook.created THEN NewBranchBase
    ELSE IF /\ hook.before \in checkout.have
            /\ hook.forced <=> hook.before \notin Known[hook.after]
            /\ Between(hook.before, hook.after) = hook.commits
    THEN hook.before ELSE none

PushPaths ==
    /\ PushWanted
    /\ IF ~PushIdentified THEN Unavailable(Filtered, {})
       ELSE IF PushBase = none THEN Unavailable(Filtered, Identified(hook.after))
       ELSE Available(PushBase, hook.after)

PullRequestIdentified ==
    /\ hook.own /\ hook.base = env.base
    /\ hook.after = checkout.commit
    /\ hook.after \in checkout.have /\ checkout.head = hook.after

\* merge-base --all: common ancestors that are no ancestors of another.
MergeBases(a, b) ==
    LET common == Known[a] \cap Known[b]
    IN {c \in common : \A d \in common \ {c} : c \notin Known[d]}

PullRequestBase ==
    IF \/ hook.before \notin checkout.have \/ checkout.shallow
       \/ ~Single(MergeBases(hook.before, hook.after))
    THEN none ELSE CHOOSE c \in MergeBases(hook.before, hook.after) : TRUE

\* Without a base the paths are an empty list, and the errors of the workflows
\* say that it means nothing.
PullRequestPaths ==
    /\ PathsWanted /\ event.origin = "webhook" /\ event.name = "pull_request"
    /\ IF ~env.pr \/ env.base = none \/ ~PullRequestIdentified THEN Unavailable(Filtered, {})
       ELSE IF PullRequestBase # none THEN Available(PullRequestBase, hook.after)
       ELSE /\ paths' = {}
            /\ pathError' = Filtered
            /\ verified' = Identified(hook.after)
            /\ pc' = "select"
            /\ UNCHANGED <<scene, event, selection, ran>>

-----------------------------------------------------------------------------
(* Selection and evaluation                                                *)

Changed(w) == IF w \in pathError THEN none ELSE paths

\* What becomes of a workflow: it fails to be imported, is left out, or gets
\* steps with a condition.
Outcome(w) ==
    LET outcome == Translate(workflows[w].triggers, Changed(w)) IN
    IF outcome = "error" \/ (w \in pathError /\ w \notin verified)
    THEN [outcome |-> "error", reason |-> none]
    ELSE [outcome |-> outcome, reason |-> Reason(workflows[w].triggers, Changed(w))]

Select(w) ==
    /\ pc = "select" /\ selection[w] = none
    /\ selection' = [selection EXCEPT ![w] = Outcome(w)]
    /\ UNCHANGED <<scene, pc, event, paths, pathError, verified, ran>>

Upload ==
    /\ pc = "select" /\ \A w \in DOMAIN workflows : selection[w] # none
    /\ pc' = "uploaded"
    /\ UNCHANGED <<scene, event, paths, pathError, verified, selection, ran>>

\* Buildkite evaluates the conditions of the steps.
Evaluate ==
    /\ pc = "uploaded"
    /\ ran' = {w \in DOMAIN workflows : selection[w].outcome = "true"}
    /\ pc' = "evaluated"
    /\ UNCHANGED <<scene, event, paths, pathError, verified, selection>>

SelectionOver == pc \in {"evaluated", "failed"} /\ UNCHANGED selectionVars

SelectionNext ==
    \/ LoadWebhook \/ LoadBuild
    \/ NoPaths \/ Unlinked \/ PushPaths \/ PullRequestPaths
    \/ \E w \in DOMAIN workflows : Select(w)
    \/ Upload \/ Evaluate \/ SelectionOver

SelectionSpec == SelectionInit /\ [][SelectionNext]_selectionVars

-----------------------------------------------------------------------------
(* What builds may find.                                                   *)

TrueAncestors == Ancestors(Parents)
PushedBy(push) == TrueAncestors[push.after] \ UNION {TrueAncestors[c] : c \in push.others}

IsFilter(f) ==
    f # none => /\ f.ignore \in BOOLEAN
                /\ Len(f.patterns) \in Nat /\ DOMAIN f.patterns = 1 .. Len(f.patterns)
                /\ \A i \in DOMAIN f.patterns : f.patterns[i].positive \in BOOLEAN

\* A workflow names an event once.
IsWorkflow(w) ==
    \A t \in w.triggers :
        /\ IsFilter(t.branches) /\ IsFilter(t.tags) /\ IsFilter(t.paths)
        /\ \A u \in w.triggers : t.event = u.event => t = u

\* A webhook tells of what happened, though maybe not all: GitHub cuts lists
\* of commits where they are longer than the importer takes.
Tells(h, happened) ==
    /\ h.before = happened.before /\ h.after = happened.after
    /\ h.commits = none \/ happened.before # zero \/ h.commits = PushedBy(happened)
       \/ Cardinality(h.commits) > MaxCommits

\* No event is called workflow_call: that is how workflows name their callers.
Genuine(s) ==
    /\ \A w \in DOMAIN s.workflows : IsWorkflow(s.workflows[w])
    /\ s.checkout.have \subseteq Commits
    /\ s.hook # none /\ s.hook.own => Tells(s.hook, s.happened)
    /\ "workflow_call" \notin {s.env.github, s.env.buildkite}

ASSUME ScenariosAssumption == \A family \in Scenarios : \A s \in family : Genuine(s)
ASSUME NoneAssumption == none \notin SupportedEvents \cup {"event", "filter", "paths"}

-----------------------------------------------------------------------------
(* Properties                                                              *)

\* GitHub, of what really happened: of a push to a branch the files that
\* differ from its previous commit, or for a new one from the commit below
\* all that were pushed; of a pull request those that differ from the merge
\* base.
Pushed == PushedBy(scene.happened)
TrueBase ==
    LET push == scene.happened
        common == TrueAncestors[push.before] \cap TrueAncestors[push.after]
    IN  IF event.name = "pull_request"
        THEN {c \in common : \A d \in common \ {c} : c \notin TrueAncestors[d]}
        ELSE IF push.before # zero THEN {push.before}
        ELSE IF Pushed = {} THEN {push.after}
        ELSE UNION {Parents[c] : c \in {p \in Pushed : Parents[p] \cap Pushed = {}}}

GitHubRuns(triggers) ==
    \E t \in triggers :
        /\ t.event = event.name /\ t.event # "workflow_call"
        /\ Admits("github", t)
        /\ NeedsPaths(t) => \E b \in TrueBase : \E p \in Diff(b, scene.happened.after) : LastDecides(t.paths, p)

\* The triggers that count: those in the checkout, unless paths do, which are
\* of the commit that the webhook names, as the filters on them are then.
Authored(w) ==
    IF UsesPaths(w) /\ PathsCount /\ event.origin = "webhook"
    THEN workflows[w].committed ELSE workflows[w].triggers

\* A build runs the workflows that GitHub would run for its event, or says that
\* it cannot tell, and has a reason for each it does not run: the condition
\* uploaded with a workflow, the explanation shown for it and the event as
\* Buildkite knows it were derived separately (TranslateEventTriggerCondition,
\* TriggerFilterMismatchReason, LiveEventPredicate), and the paths from
\* evidence that may be incomplete.  A build that GITHUB_EVENT_NAME calls by an
\* event it was not imported for runs nothing.
SelectionAgrees ==
    pc = "evaluated" => \A w \in DOMAIN workflows :
        LET s == selection[w] IN
        s.outcome # "error" =>
            IF env.github \notin {none, event.name} THEN w \notin ran
            ELSE /\ w \in ran <=> GitHubRuns(Authored(w))
                 /\ w \in ran <=> s.reason = none
=============================================================================
