------------------------------- MODULE MCImport -------------------------------
(* What the importer does before and while a build runs: the jobs it makes *)
(* of a workflow with calls, gates and groups, the commits it pins the refs *)
(* of actions to, for itself and for other processes, the locks of the      *)
(* actions that a job uses, and the pipeline that comes of compilations     *)
(* that fail in part.  A behaviour is of one of these.                      *)
EXTENDS WorkflowBuild, RefResolution, ActionLocks, PinnedSource, Importer

\* Small workflows. Jobs 1 and 4 and the call 5 are authored in the workflow;
\* the call runs frame 1 with jobs 2 and 3, or a second call 6 in its place of
\* job 3, whose frame 2 has job 3.
Plain(nested) ==
    [frame    |-> [j \in 1..(IF nested THEN 6 ELSE 5) |->
                     CASE j \in {1, 4, 5} -> 0 [] j = 3 /\ nested -> 2 [] OTHER -> 1],
     needs    |-> [j \in 1..(IF nested THEN 6 ELSE 5) |-> {}],
     cond     |-> [j \in 1..(IF nested THEN 6 ELSE 5) |-> ""],
     bodies   |-> [j \in 1..(IF nested THEN 6 ELSE 5) |->
                     CASE j = 5 -> {1} [] j = 6 -> {2} [] OTHER -> {}],
     rows     |-> [j \in 1..(IF nested THEN 6 ELSE 5) |-> 1],
     parallel |-> [j \in 1..(IF nested THEN 6 ELSE 5) |-> 0],
     group    |-> [j \in 1..(IF nested THEN 6 ELSE 5) |-> 0],
     cancel   |-> [j \in 1..(IF nested THEN 6 ELSE 5) |-> FALSE],
     gate     |-> [f \in 0..(IF nested THEN 2 ELSE 1) |-> 0],
     gateCancel |-> [f \in 0..(IF nested THEN 2 ELSE 1) |-> FALSE],
     approval |-> {}]

Quiet == [frame |-> <<0>>, needs |-> <<{}>>, cond |-> <<"">>, bodies |-> <<{}>>,
          rows |-> <<1>>, parallel |-> <<0>>, group |-> <<0>>, cancel |-> <<FALSE>>,
          gate |-> (0 :> 0), gateCancel |-> (0 :> FALSE), approval |-> {}]

\* One build: how conditions and needs cross the boundary of the call.
Conditions ==
    {[Plain(nested) EXCEPT !.needs[5] = n5, !.needs[4] = n4, !.needs[3] = n3,
                           !.cond[5] = c5, !.cond[4] = c4] :
        nested \in {FALSE}, n5 \in {{}, {1}}, n4 \in {{5}, {1, 5}}, n3 \in {{}, {2}},
        c5 \in {"", "failure", "false"}, c4 \in {"", "always"}}

NestedConditions ==
    {[Plain(TRUE) EXCEPT !.needs[5] = {1}, !.needs[6] = {2}, !.needs[4] = {5},
                         !.cond[5] = c5, !.cond[6] = c6] :
        c5 \in {"", "always"}, c6 \in {"", "failure"}}

\* One build: gates and job groups that meet, so that some orders deadlock.
Meeting ==
    {[Plain(nested) EXCEPT !.gate[1] = g1, !.gate[0] = g0, !.group[1] = j1, !.group[4] = j4,
                           !.group[2] = j2, !.needs[5] = n5, !.needs[1] = n1] :
        nested \in {FALSE}, g1 \in {1, 2}, g0 \in {0, 2}, j1 \in {0, 1}, j4 \in {0, 1, 2},
        j2 \in {0, 2}, n5 \in {{}, {1}}, n1 \in {{}, {4}}}

NestedMeeting ==
    {[Plain(TRUE) EXCEPT !.gate[1] = 1, !.gate[2] = g2, !.group[3] = j3, !.needs[6] = n6] :
        g2 \in {1, 2}, j3 \in {0, 1, 2}, n6 \in {{}, {2}}}

\* One build: two calls with gates, each behind a job of some group.
Crossed ==
    {[Plain(TRUE) EXCEPT !.frame[6] = 0, !.gate[1] = 1, !.gate[2] = 2, !.needs[5] = {4},
                         !.needs[6] = n6, !.group[1] = j1, !.group[4] = j4] :
        n6 \in {{}, {1}}, j1 \in {1, 2}, j4 \in {0, 1, 2}}

\* Two builds.
Only(w, jobs) ==
    [field \in DOMAIN w |->
        IF field \in {"gate", "gateCancel", "approval"} THEN w[field]
        ELSE [j \in jobs |-> w[field][j]]]

Gated == [Plain(FALSE) EXCEPT !.gate[1] = 1, !.needs[5] = {1}, !.needs[3] = {2}]
Shared == [Only(Plain(FALSE), {2, 5}) EXCEPT !.gate[0] = 1, !.gateCancel[0] = TRUE, !.gate[1] = 2]
Nested == [Only(Plain(TRUE), {2, 3, 5, 6}) EXCEPT !.gate[1] = 1, !.gate[2] = 2]
Small == [Quiet EXCEPT !.group = <<1>>, !.rows = <<2>>]
Racing == [Quiet EXCEPT !.group = <<1>>, !.cancel = <<TRUE>>, !.approval = {1}]
Limited == [Quiet EXCEPT !.rows = <<3>>, !.parallel = <<2>>]
WholeGated == [Quiet EXCEPT !.gate = (0 :> 1), !.rows = <<2>>]

MCPairings ==
    {(1 :> w) : w \in {Quiet} \cup Conditions \cup NestedConditions \cup Meeting \cup NestedMeeting \cup Crossed}
    \cup {p : p \in {<<Gated, Small>>, <<Small, Small>>, <<Racing, Racing>>, <<Racing, Small>>,
                   <<Limited, Limited>>, <<WholeGated, WholeGated>>, <<WholeGated, Small>>,
                   <<Shared, Shared>>, <<Nested, Nested>>, <<Nested, Small>>}}

MCGroups == {1, 2, 101}

-----------------------------------------------------------------------------

MCHome == [repository |-> "W", commit |-> "w1"]
MCCommitOf == (<<"R", "v1">> :> "r1") @@ (<<"C", "v1">> :> "c1") @@ (<<"N", "v1">> :> "n1") @@ (<<"N", "v2">> :> "n2")
MCCatalog == ("C" :> [native |-> FALSE, admitted |-> {"c0"}]) @@ ("N" :> [native |-> TRUE, admitted |-> {"n1"}])
MCBytes == ("W" :> 0) @@ ("R" :> 1) @@ ("C" :> 1) @@ ("N" :> 1)

\* Two composites in the workspace and two in a repository, at the top of it
\* and below.
InHome == {Local("a"), Local("b"), Self("a"), Self("b")}
InOther == {Remote("R", "v1", "a"), Remote("R", "v1", "b")}
Leaves == {Remote("C", "v1", "a"), Remote("N", "v1", "a"), Remote("N", "v2", "a")}
UpToOne(set) == {<<>>} \cup {<<u>> : u \in set}
Bodies ==
    {wb @@ (<<"W", "a">> :> wa) @@ (<<"R", "a">> :> ra) @@ (<<"R", "b">> :> rb) @@ (<<"C", "a">> :> <<>>) :
        wa \in UpToOne({Local("b"), Remote("R", "v1", "a")}) \cup {<<Local("b"), Remote("R", "v1", "a")>>, <<Remote("R", "v1", "b"), Self("b")>>},
        wb \in {<<"W", "b">> :> w : w \in UpToOne({Self("a"), Local("a"), Remote("R", "v1", "a"), Remote("R", "v1", "b")})} \cup {<<>>},
        ra \in UpToOne({Local("b"), Self("b"), Remote("R", "v1", "a")} \cup Leaves) \cup {<<Self("b"), Remote("R", "v1", "b")>>},
        rb \in UpToOne({Self("a"), Remote("C", "v1", "a")})}
MCTrees == {[uses |-> u, body |-> b] : b \in Bodies,
    u \in {<<Local("a")>>, <<Self("a"), Remote("R", "v1", "a")>>, <<Local("b"), Local("a")>>, <<Remote("R", "v1", "b"), Local("a")>>}}

-----------------------------------------------------------------------------

\* Three jobs, the second after the first, which may fail, and the third on a
\* platform of its own; or one job on a platform that has no runtime.
ThreeJobs(broken, deferred) ==
    [kind |-> "valid", reads |-> FALSE, asks |-> TRUE, deferred |-> deferred, needs |-> <<{}, {1}, {}>>,
     soft |-> {1}, platform |-> <<"linux", "linux", "darwin">>, broken |-> broken]
OneJob(kind) ==
    [kind |-> kind, reads |-> TRUE, asks |-> TRUE, deferred |-> FALSE, needs |-> <<{}>>,
     soft |-> {}, platform |-> <<"windows">>, broken |-> {}]

MCUploads ==
    {<<ThreeJobs(b, d)>> : d \in BOOLEAN,
        b \in {{}, {<<"job", 1>>}, {<<"barred", 2>>}, {<<"action", 3>>}, {<<"plan", 1>>}}}
    \cup {<<[ThreeJobs({}, FALSE) EXCEPT !.reads = TRUE], OneJob(k)>> :
             k \in {"reusable", "unselected", "unparsable", "invalid", "valid"}}
    \cup {<<OneJob(k)>> : k \in {"reusable", "unparsable", "unselected"}}

-----------------------------------------------------------------------------

CONSTANTS c1, c2, c3, c4, r1, r2, a, f1, f2, f3, old, new

\* Two callers of a process with the same ref, one with another, and one in a
\* second process.
MCProcOf == (c1 :> "p") @@ (c2 :> "p") @@ (c3 :> "p") @@ (c4 :> "q")
MCRef == (c1 :> r1) @@ (c2 :> r1) @@ (c3 :> r2) @@ (c4 :> r1)
MCSetups == {<<"snapshot", {c1, c4}>>, <<"direct", {c1, c2}>>, <<"direct", {c1, c3}>>,
             <<"cache", {c1, c2}>>}

\* Two fetches of one reference and one of another path of the same ref, with
\* nothing recorded, one pin, or two that disagree.
MCRefOf == (f1 :> r1) @@ (f2 :> r1) @@ (f3 :> r1)
MCPathOf == (f1 :> "a") @@ (f2 :> "a") @@ (f3 :> "b")
Records(v) == [ref |-> r1, pin |-> PinSource(v, v)]
MCRecorded == {{}, {Records(old)}, {Records(old), Records(new)}}

VARIABLE part

\* What the other parts start from is settled first.
Still ==
    /\ IF part = "build" THEN TRUE ELSE authored = <<Contract!Tree(Quiet)>>
    /\ IF part = "refs" THEN TRUE ELSE mode = "cache" /\ upstream = [r \in {r1, r2} |-> absent]
    /\ IF part = "locks" THEN TRUE ELSE tree = CHOOSE t \in Trees : TRUE
    /\ IF part = "pins" THEN TRUE ELSE recorded = {} /\ heads = [r \in {r1} |-> old]
    /\ IF part = "command" THEN TRUE ELSE work = <<OneJob("reusable")>>

MCInit ==
    /\ part \in {"build", "refs", "locks", "pins", "command"}
    /\ Still
    /\ Init /\ RefInit /\ LockInit /\ PinInit /\ ImportInit
    /\ \A r \in Refs : (\A c \in Resolvers : Ref[c] = r => pc[c] = "done") => upstream[r] = absent
    /\ part = "refs" /\ (mode # "direct" \/ pc[c3] # "done") => upstream[r1] = a

\* Where a walk, all fetches or the command has ended, and nothing else may.
AtEnd ==
    \/ part = "locks" /\ walking \in {"refused", "invalid", "valid"}
    \/ part = "pins" /\ \A c \in Askers : Back(c)
    \/ part = "command" /\ command \in {"done", "stopped"}

MCNext ==
    \/ part = "build" /\ Next /\ UNCHANGED <<part, refVars, lockVars, pinVars, importVars>>
    \/ part = "refs" /\ RefNext /\ UNCHANGED <<part, vars, lockVars, pinVars, importVars>>
    \/ part = "locks" /\ LockNext /\ UNCHANGED <<part, vars, refVars, pinVars, importVars>>
    \/ part = "pins" /\ PinNext /\ UNCHANGED <<part, vars, refVars, lockVars, importVars>>
    \/ part = "command" /\ ImportNext /\ UNCHANGED <<part, vars, refVars, lockVars, pinVars>>
    \/ AtEnd /\ UNCHANGED <<part, vars, refVars, lockVars, pinVars, importVars>>

MCSpec == MCInit /\ [][MCNext]_<<part, vars, refVars, lockVars, pinVars, importVars>>
=============================================================================
