------------------------------ MODULE MCTriggers ------------------------------
\* What the importer may find: environments and webhooks, filters, and
\* histories with checkouts.
EXTENDS Integers, Sequences, FiniteSets, FiniteSetsExt, SequencesExt, TLC

CONSTANTS none, zero

File(a, b) == [a |-> a, b |-> b]

\* 2 and 3 follow 1 on one side, 4 on the other, and 5 merges them.
MCParents == <<{}, {1}, {2}, {1}, {3, 4}>>
MCContent == <<File(0, 0), File(1, 0), File(1, 1), File(0, 2), File(1, 3)>>
MCMaxCommits == 2
WebhookLimit == 3

Env == [github |-> none, buildkite |-> none, schedule |-> FALSE, pr |-> FALSE, tag |-> none,
        branch |-> "main", base |-> none, trigger |-> "absent", action |-> none]
Hook == [own |-> TRUE, action |-> none, base |-> none, before |-> 1, after |-> 2,
         created |-> FALSE, forced |-> FALSE, commits |-> {2}]
Checkout == [commit |-> 2, head |-> 2, have |-> 1 .. 5, shallow |-> FALSE]
Trigger(e) == [event |-> e, types |-> none, branches |-> none, tags |-> none, paths |-> none]
Workflow(triggers) == [triggers |-> triggers, committed |-> triggers, tracked |-> TRUE]
Scene(e, h, ws) == [env |-> e, hook |-> h, checkout |-> Checkout, workflows |-> ws,
                    happened |-> [before |-> 1, after |-> 2, others |-> {1}]]

\* Environments of all kinds, contradictory ones included, and a workflow with
\* every trigger.
Names == {none, "push", "pull_request", "schedule", "workflow_dispatch", "release", "issues",
          "merge_group", "pull_request_review", "deployment", "fork", "workflow_run", "Odd"}
Everything == Workflow({Trigger(e) : e \in {"push", "pull_request", "schedule", "release", "issues",
                  "workflow_dispatch", "merge_group", "pull_request_review", "deployment", "fork",
                  "workflow_call"}})

Identities ==
    {Scene([Env EXCEPT !.github = g, !.buildkite = b, !.schedule = s, !.pr = p, !.tag = t,
                       !.base = IF p THEN "main" ELSE none, !.trigger = i, !.action = a],
           h, <<Everything>>) :
        g \in Names \ {"Odd"}, b \in Names, s \in BOOLEAN, p \in BOOLEAN, t \in {none, "v1"},
        i \in {"absent", "partial", "complete"}, a \in {none, "opened"},
        h \in {none, [Hook EXCEPT !.action = "opened"], [Hook EXCEPT !.own = FALSE]}}

Activities ==
    {Scene([Env EXCEPT !.github = e, !.trigger = "complete", !.action = a, !.base = "main",
                       !.pr = (e \in {"pull_request", "pull_request_review"}),
                       !.buildkite = IF e = "deployment" THEN e ELSE none,
                       !.tag = IF e = "release" THEN "v1" ELSE none,
                       !.branch = IF e = "release" THEN "v1" ELSE "main"],
           [Hook EXCEPT !.action = h, !.base = b], <<Workflow({[Trigger(e) EXCEPT !.types = types]})>>) :
        e \in {"pull_request", "release", "issues", "merge_group", "pull_request_review", "deployment", "fork"},
        a \in {"closed", "opened", "published", "checks_requested", "submitted"},
        h \in {none, "closed", "opened", "published", "checks_requested", "submitted"},
        b \in {none, "main", "dev"},
        types \in {none, {}, {"opened"}, {"closed", "opened"}, {"created"}, {"checks_requested"},
                   {"edited"}, {"reopened", "merged"}}}

\* Filters with up to three patterns.
Pattern == [positive : BOOLEAN, match : SUBSET {"main", "dev"}]
Lists == UNION {[1 .. n -> Pattern] : n \in 0 .. 2}
         \cup {l \in [1 .. 3 -> Pattern] : l[1].match = {"main", "dev"} /\ l[1].positive}
Filter(ignore, patterns) == [ignore |-> ignore, patterns |-> patterns]
RefFilters == {none} \cup {Filter(i, l) : i \in BOOLEAN, l \in Lists}
TagFilters == {none, Filter(FALSE, <<>>), Filter(FALSE, <<[positive |-> TRUE, match |-> {"v1"}]>>),
               Filter(TRUE, <<[positive |-> TRUE, match |-> {"v1"}]>>)}

Refs ==
    {Scene([Env EXCEPT !.buildkite = "push", !.branch = b, !.tag = t], Hook,
           <<Workflow({[Trigger("push") EXCEPT !.branches = bs, !.tags = ts], Trigger("fork")})>>) :
        b \in {"main", "dev"}, t \in {none, "v1"}, bs \in RefFilters, ts \in TagFilters}
    \cup
    {Scene([Env EXCEPT !.buildkite = e, !.pr = (e = "pull_request"), !.base = "dev", !.trigger = "complete",
                       !.action = a],
           [Hook EXCEPT !.base = "dev", !.action = a],
           <<Workflow({[Trigger(e) EXCEPT !.branches = bs]})>>) :
        e \in {"pull_request", "merge_group"}, a \in {"opened", "checks_requested"}, bs \in RefFilters}

\* Histories: pushes to existing and new branches, and pull requests, with all
\* that a webhook and a checkout can leave out.
Anc == <<{1}, {1, 2}, {1, 2, 3}, {1, 4}, {1, 2, 3, 4, 5}>>
Listed(commits, tip) ==
    IF Cardinality(commits) <= WebhookLimit THEN {commits}
    ELSE {some \in SUBSET commits : Cardinality(some) = WebhookLimit /\ tip \in some}
Checkouts(tip, head) ==
    {[commit |-> tip, head |-> head, have |-> have, shallow |-> shallow] :
        have \in {{tip}, {tip} \cup MCParents[tip], Anc[tip], 1 .. 5}, shallow \in BOOLEAN}
Complete(c) == c.shallow \/ c.have \in {Anc[c.commit], 1 .. 5}

PathFilter == {Filter(FALSE, <<[positive |-> TRUE, match |-> {"a"}]>>),
               Filter(FALSE, <<[positive |-> TRUE, match |-> {"a", "b"}], [positive |-> FALSE, match |-> {"b"}]>>),
               Filter(TRUE, <<[positive |-> TRUE, match |-> {"a"}]>>)}
Pathed(e, branches, f, kind) ==
    LET t == {[Trigger(e) EXCEPT !.paths = f, !.branches = branches]}
        Other == {[Trigger(e) EXCEPT !.paths = Filter(FALSE, <<[positive |-> TRUE, match |-> {"b"}]>>)]}
    IN  CASE kind = "same"    -> Workflow(t)
          [] kind = "edited"  -> [Workflow(t) EXCEPT !.committed = Other]
          [] kind = "foreign" -> [Workflow(t) EXCEPT !.tracked = FALSE]

Main == Filter(FALSE, <<[positive |-> TRUE, match |-> {"main"}]>>)
OnlyA == Filter(FALSE, <<[positive |-> TRUE, match |-> {"a"}]>>)

\* Workflows whose file may differ from that of the commit, and one that
\* needs no paths.
Pairs(e) ==
    {<<w, Workflow({Trigger(e)})>> :
        w \in {Pathed(e, none, f, "same") : f \in PathFilter}
             \cup {Pathed(e, none, OnlyA, kind) : kind \in {"edited", "foreign"}}
             \cup {Pathed(e, Main, OnlyA, "same")}}

Pushed(push) == IF push.before = zero THEN Anc[push.after] \ UNION {Anc[c] : c \in push.others}
                ELSE Anc[push.after] \ Anc[push.before]
PushScenes(happened, branch, own) ==
    {[env |-> [Env EXCEPT !.buildkite = "push", !.branch = branch],
      hook |-> [Hook EXCEPT !.before = happened.before, !.after = happened.after, !.own = own,
                            !.created = (happened.before = zero),
                            !.forced = (happened.before # zero /\ happened.before \notin Anc[happened.after]),
                            !.commits = commits],
      checkout |-> c, workflows |-> ws, happened |-> happened] :
        commits \in Listed(Pushed(happened), happened.after) \cup {none},
        c \in {k \in Checkouts(happened.after, happened.after) \cup Checkouts(happened.after, 1) : Complete(k)},
        ws \in {pair \in Pairs("push") : branch = "main" \/ pair[1].triggers # pair[2].triggers}}

Pushes ==
    {PushScenes([before |-> before, after |-> after, others |-> others], branch, own) :
        before \in {zero, 1, 2, 4}, after \in {2, 3, 5}, others \in {{1}, {2, 4}, {5}},
        branch \in {"main", "dev"}, own \in BOOLEAN}

PullRequests ==
    {[env |-> [Env EXCEPT !.buildkite = "pull_request", !.pr = pr, !.base = "main", !.tag = tag],
      hook |-> [Hook EXCEPT !.before = base, !.after = head, !.base = of, !.action = "opened"],
      checkout |-> c, workflows |-> ws,
      happened |-> [before |-> base, after |-> head, others |-> {}]] :
        pr \in BOOLEAN, tag \in {none, "v1"}, of \in {"main", "dev"}, base \in {1, 2, 4, 5}, head \in {3, 5},
        c \in {k \in UNION {Checkouts(h, g) : h \in {3, 5}, g \in {3, 5}} : Complete(k)},
        ws \in Pairs("pull_request")}

MCScenarios == {Identities, Activities, Refs, PullRequests} \cup Pushes
=============================================================================
