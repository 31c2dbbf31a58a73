----------------------------- MODULE NestedActions -----------------------------
(***************************************************************************)
(* The steps of a job that are actions, and the actions nested in them.    *)
(* Ahead of all steps the runner walks the tree of remote actions and runs *)
(* their pre hooks (runPreActions, prepareRemoteAction); then each step    *)
(* walks its tree again (runActionStep, runCompositeAction).  JobRun has    *)
(* their posts.                                                            *)
(*                                                                         *)
(* A failed pre keeps its action from running.  What continue-on-error     *)
(* forgives is warned of: of a failed pre where its action would have run, *)
(* or at the end if nothing got there.                                     *)
(*                                                                         *)
(* Nodes are numbered as they are walked.  A failure is <<"pre", n>> or    *)
(* <<"main", n>>; an error is the set of failures joined in it.            *)
(***************************************************************************)
EXTENDS Naturals, Sequences, FiniteSets, SequencesExt

CONSTANTS Parent,   \* of each node, 0 for a step of the job
          Action    \* of each node: "composite", "remote" or "local"; the
                    \* last two are JavaScript, with a pre

Nodes == DOMAIN Parent
Children(p) == {n \in Nodes : Parent[n] = p}

\* Siblings are numbered as they are walked, after their parent; only composite
\* actions have actions in them, and they need not.
ASSUME TreeAssumption ==
    /\ Parent \in Seq(Nat) /\ Parent # <<>>
    /\ \A n \in Nodes : Parent[n] < n /\ (Action[n] # "composite" => Children(n) = {})

VARIABLES
    walk,        \* "pre", "main", "end" or "over"
    going,       \* "enter" or "leave" the node
    node,        \* the node of the walk
    forgiving,   \* nodes with continue-on-error
    jobCancelled,
    expired,     \* walks of steps that have timed out
    joined,      \* of each composite: the failures joined in its error; of 0: the job's
    preFailed,   \* actions with a preFailure
    preErrors,   \* of a step: the error of its preparation
    excused,     \* steps whose failed preparation continue-on-error forgave
    pending,     \* pendingPreWarnings
    warned       \* the errors warned of, in order

treeVars == <<walk, going, node, forgiving, jobCancelled, expired, joined, preFailed,
              preErrors, excused, pending, warned>>

TreeInit ==
    /\ walk = "pre" /\ going = "enter" /\ node = 1
    /\ forgiving \in SUBSET Nodes
    /\ jobCancelled = FALSE /\ expired = {}
    /\ joined = [n \in Nodes \cup {0} |-> {}]
    /\ preFailed = {} /\ preErrors = [n \in Nodes |-> {}] /\ excused = {}
    /\ pending = {} /\ warned = <<>>

-----------------------------------------------------------------------------
Later(n) == {m \in Children(Parent[n]) : m > n}

\* From a node on to the next of its siblings, or out of their parent.
Onward(n) ==
    IF Later(n) # {} THEN going' = "enter" /\ node' = Min(Later(n)) /\ UNCHANGED walk
    ELSE IF Parent[n] # 0 THEN going' = "leave" /\ node' = Parent[n] /\ UNCHANGED walk
    ELSE /\ going' = "enter"
         /\ walk' = (IF walk = "pre" THEN "main" ELSE "end")
         /\ node' = 1
Out(n) == going' = "leave" /\ node' = n /\ UNCHANGED walk
Into(n) ==
    IF Children(n) = {} THEN Out(n)
    ELSE going' = "enter" /\ node' = Min(Children(n)) /\ UNCHANGED walk

At(w, g) == walk = w /\ going = g

\* The step a node is in.
Root(n) == LET f[m \in Nodes] == IF Parent[m] = 0 THEN m ELSE f[Parent[m]] IN f[n]
CutShort(n) == jobCancelled \/ <<walk, Root(n)>> \in expired

\* classifyStepExecution: what has been cancelled is not forgiven, and inside
\* of a step its timeout is a cancellation.
Forgiven(n) == n \in forgiving /\ ~jobCancelled /\ (Parent[n] # 0 => ~CutShort(n))
Failing(n, error) == joined' = [joined EXCEPT ![n] = @ \cup error]

-----------------------------------------------------------------------------
(* Preparation                                                             *)

\* The actions of a local one are not prepared.
SkipPre ==
    /\ At("pre", "enter") /\ Action[node] = "local"
    /\ Onward(node)
    /\ UNCHANGED <<forgiving, jobCancelled, expired, joined, preFailed, preErrors, excused, pending, warned>>

EnterPre ==
    /\ At("pre", "enter") /\ Action[node] = "composite"
    /\ Into(node)
    /\ UNCHANGED <<forgiving, jobCancelled, expired, joined, preFailed, preErrors, excused, pending, warned>>

\* Its pre-if is false, or the pre, or what it needs, fails.
RunPre ==
    /\ At("pre", "enter") /\ Action[node] = "remote"
    /\ \/ preFailed' = preFailed \cup {node} /\ Failing(node, {<<"pre", node>>})
       \/ UNCHANGED <<preFailed, joined>>
    /\ Out(node)
    /\ UNCHANGED <<forgiving, jobCancelled, expired, preErrors, excused, pending, warned>>

\* The composite around it, or the job, takes the error over, or forgives it.
LeavePre ==
    /\ At("pre", "leave")
    /\ LET error == joined[node]
           forgiven == Forgiven(node)
       IN  /\ IF Parent[node] = 0
              THEN /\ preErrors' = [preErrors EXCEPT ![node] = error]
                   /\ excused' = IF forgiven THEN excused \cup {node} ELSE excused
                   /\ UNCHANGED pending
              ELSE /\ pending' = IF forgiven THEN pending \cup error ELSE pending
                   /\ UNCHANGED <<preErrors, excused>>
           /\ joined' = [joined EXCEPT ![node] = {},
                         ![Parent[node]] = IF forgiven \/ Parent[node] = 0 THEN @ ELSE @ \cup error]
    /\ Onward(node)
    /\ UNCHANGED <<forgiving, jobCancelled, expired, preFailed, warned>>

-----------------------------------------------------------------------------
(* The steps                                                               *)

\* Mutant: what has been reported stays queued.
KeepPending(error) == pending

\* consumePreWarnings
Consumed(error) == pending \ error

\* warnToleratedFailure, or the error of what is around the node.
Conclude(n, error, forgiven) ==
    IF error = {} THEN UNCHANGED <<joined, pending, warned>>
    ELSE IF forgiven
    THEN /\ warned' = Append(warned, error)
         /\ pending' = IF Parent[n] = 0 THEN pending ELSE Consumed(error)
         /\ joined' = [joined EXCEPT ![n] = {}]
    ELSE /\ joined' = [joined EXCEPT ![n] = {}, ![Parent[n]] = @ \cup error]
         /\ UNCHANGED <<pending, warned>>

\* The pre of this step, or of this action in its composite, has failed.
MeetPreFailure ==
    /\ At("main", "enter")
    /\ \/ Parent[node] = 0 /\ preErrors[node] # {} /\ Conclude(node, preErrors[node], node \in excused)
       \/ Parent[node] # 0 /\ node \in preFailed /\ Conclude(node, {<<"pre", node>>}, Forgiven(node))
    /\ Onward(node)
    /\ UNCHANGED <<forgiving, jobCancelled, expired, preFailed, preErrors, excused>>

Ready(n) == preErrors[n] = {} /\ (Parent[n] # 0 => n \notin preFailed)

\* Its condition is false.
SkipMain ==
    /\ At("main", "enter") /\ Ready(node)
    /\ Onward(node)
    /\ UNCHANGED <<forgiving, jobCancelled, expired, joined, preFailed, preErrors, excused, pending, warned>>

EnterMain ==
    /\ At("main", "enter") /\ Ready(node) /\ Action[node] = "composite"
    /\ Into(node)
    /\ UNCHANGED <<forgiving, jobCancelled, expired, joined, preFailed, preErrors, excused, pending, warned>>

\* Its condition or inputs fail, its processes fail or succeed; a local action
\* runs its pre now.
RunMain ==
    /\ At("main", "enter") /\ Ready(node) /\ Action[node] # "composite"
    /\ Failing(node, {<<"main", node>>}) \/ UNCHANGED joined
    /\ Out(node)
    /\ UNCHANGED <<forgiving, jobCancelled, expired, preFailed, preErrors, excused, pending, warned>>

\* The outputs of a composite can fail too.
LeaveMain ==
    /\ At("main", "leave")
    /\ \E own \in {{}, {<<"main", node>>}} :
         /\ own # {} => Action[node] = "composite"
         /\ Conclude(node, joined[node] \cup own, Forgiven(node))
    /\ Onward(node)
    /\ UNCHANGED <<forgiving, jobCancelled, expired, preFailed, preErrors, excused>>

-----------------------------------------------------------------------------
(* The end                                                                 *)

\* flushPreWarnings
Flush ==
    /\ walk = "end"
    /\ warned' = warned \o SetToSeq({{f} : f \in pending})
    /\ pending' = {}
    /\ walk' = "over"
    /\ UNCHANGED <<going, node, forgiving, jobCancelled, expired, joined, preFailed, preErrors, excused>>

Cancel ==
    /\ walk # "over" /\ ~jobCancelled
    /\ jobCancelled' = TRUE
    /\ UNCHANGED <<walk, going, node, forgiving, expired, joined, preFailed, preErrors, excused, pending, warned>>

StepExpires ==
    /\ walk \in {"pre", "main"} /\ (going = "leave" \/ Parent[node] # 0)
    /\ expired' = expired \cup {<<walk, Root(node)>>}
    /\ UNCHANGED <<walk, going, node, forgiving, jobCancelled, joined, preFailed, preErrors, excused, pending, warned>>

TreeWalked == walk = "over" /\ UNCHANGED treeVars

TreeNext ==
    \/ SkipPre \/ EnterPre \/ RunPre \/ LeavePre
    \/ MeetPreFailure \/ SkipMain \/ EnterMain \/ RunMain \/ LeaveMain
    \/ Flush \/ Cancel \/ StepExpires \/ TreeWalked

TreeSpec == TreeInit /\ [][TreeNext]_treeVars

-----------------------------------------------------------------------------
(* Properties                                                              *)

Reports(f) == {i \in DOMAIN warned : f \in warned[i]}

\* A failed pre fails the job or is warned of, and not both, and not twice,
\* however deep it is and wherever continue-on-error is; the exception is a
\* step that times out between the two walks of an action.
PresReported ==
    walk = "over" =>
      \A n \in preFailed :
        LET times == Cardinality(Reports(<<"pre", n>>)) + (IF <<"pre", n>> \in joined[0] THEN 1 ELSE 0)
        IN  times >= 1 /\ (~jobCancelled /\ <<"main", Root(n)>> \notin expired => times = 1)
=============================================================================
