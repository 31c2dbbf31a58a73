-------------------------- MODULE WorkflowContract --------------------------
(***************************************************************************)
(* What a workflow promises its author, stated on the authored jobs and    *)
(* calls and not on the flattened ones: a job begins when the needs of the *)
(* job and of every call around it have ended; whether it runs is decided  *)
(* by its condition and by those of the calls around it, each over the     *)
(* results of its own needs. Any job may still fail or be cancelled.       *)
(***************************************************************************)
EXTENDS CalledWorkflows

VARIABLES authored,   \* per build: the tree of its workflow
          outcome     \* per build: instance -> "pending", "running" or result

Results == {"success", "failure", "cancelled", "skipped"}

\* An authored workflow with its tree: the calls around each job and the job
\* itself (scopes), and the instances each job or call stands for (leaves).
Tree(w) ==
    LET encloses(c, j) == \E n \in 0..MaxDepth :
            LET up[i \in 0..MaxDepth] ==
                    IF i = 0 THEN j
                    ELSE IF up[i - 1] = 0 \/ w.frame[up[i - 1]] = 0 THEN 0
                    ELSE Caller(w, w.frame[up[i - 1]])
            IN  up[n] = c
    IN  w @@ [scopes |-> [j \in DOMAIN w.frame |-> {c \in DOMAIN w.frame : encloses(c, j)}],
              leaves |-> [c \in DOMAIN w.frame |->
                            {k \in Instances(w) : encloses(c, JobOf(k))}]]

OutcomesOf(b, j) == {outcome[b][k] : k \in authored[b].leaves[j]}

Ended(b, j) == OutcomesOf(b, j) \subseteq Results

Permits(b, c) ==
    ConditionHolds(authored[b].cond[c], {Aggregate(OutcomesOf(b, n)) : n \in authored[b].needs[c]})

Wanted(b, k) == \A c \in authored[b].scopes[JobOf(k)] : Permits(b, c)

Init == outcome = [b \in DOMAIN authored |-> [k \in DOMAIN outcome[b] |-> "pending"]]

Begin(b, k) ==
    /\ outcome[b][k] = "pending"
    /\ \A c \in authored[b].scopes[JobOf(k)] :
         \A n \in authored[b].needs[c] : Ended(b, n)
    /\ outcome' = [outcome EXCEPT ![b][k] = "running"]
    /\ UNCHANGED authored

Conclude(b, k, result) ==
    /\ outcome[b][k] = "running"
    /\ result = "success" => Wanted(b, k)
    /\ result = "skipped" => ~Wanted(b, k)
    /\ outcome' = [outcome EXCEPT ![b][k] = result]
    /\ UNCHANGED authored

NeverRuns(b, k) ==
    /\ outcome[b][k] = "pending"
    /\ outcome' = [outcome EXCEPT ![b][k] = "cancelled"]
    /\ UNCHANGED authored

Next == \E b \in DOMAIN authored : \E k \in DOMAIN outcome[b] :
          \/ Begin(b, k)
          \/ \E result \in Results : Conclude(b, k, result)
          \/ NeverRuns(b, k)

Spec == Init /\ [][Next]_<<authored, outcome>>
=============================================================================
