----------------------------- MODULE Expressions -----------------------------
(* Expressions of a job, from the workflow to the runner.  The compiler     *)
(* replaces what it knows, the event above all, and leaves the rest in the  *)
(* plan (internal/expression: Reduce).  An abstract interpretation of what  *)
(* is left decides whether the plan carries the event payload and a token,  *)
(* and which steps can run (Analyze).  The runner evaluates the rest.  One  *)
(* job of a called workflow has an expression at each of four sites: the    *)
(* condition of the call, of the job and of a step, and a template.         *)
EXTENDS Naturals, FiniteSets

CONSTANTS Scenarios, \* families of jobs and what their expressions read
          Empty      \* the condition that is not written

VARIABLES
    scene,     \* the scenario
    phase,     \* "authored", "resolved", "planned", "called", "started", "stepped", "over"
    sites,     \* the expression at each site now
    plan,      \* what the plan carries: [event, token, job, step]
    decided,   \* the outcome of a site at the runner, or Pending
    refused    \* import reports an error

exprVars == <<scene, phase, sites, plan, decided, refused>>

Conditions == {"call", "job", "step"}
Sites      == Conditions \cup {"body"}
Order      == <<"call", "job", "step", "body">>

-----------------------------------------------------------------------------
(* Values.  A JSON text is known by what it is the text of; an object, by   *)
(* its name.                                                                *)

Null      == [k |-> "null"]
Bool(b)   == [k |-> "bool", b |-> b]
Str(s)    == [k |-> "str", s |-> s]
Json(v)   == [k |-> "json", of |-> v]
Obj(o)    == [k |-> "obj", o |-> o]
Err(why)  == [k |-> "error", why |-> why]
Unknown   == [k |-> "unknown"]
Later     == Err("compile-time context is unavailable")
Pending   == [k |-> "pending"]

IsErr(v)  == v.k = "error"
IsText(v) == v.k \in {"str", "json"}

\* githubTruthy
Truthy(v) == CASE v.k = "bool" -> v.b
               [] v.k = "null" -> FALSE
               [] v.k = "str"  -> v.s # ""
               [] OTHER        -> TRUE

\* githubNumber; what is not 0 or 1 is not a number here.
Number(v) == CASE v.k = "null" -> {0}
               [] v.k = "bool" -> {IF v.b THEN 1 ELSE 0}
               [] v.k = "str"  -> IF v.s = "" THEN {0} ELSE {}
               [] OTHER        -> {}

\* githubEqual: values of one type are compared as such, others as numbers.
GitHubEqual(v, w) ==
    IF v.k = w.k \/ (IsText(v) /\ IsText(w)) THEN v = w
    ELSE Number(v) # {} /\ Number(v) = Number(w)

\* expressionString: what a template renders.
Rendered(v) == CASE IsErr(v)      -> v
                 [] v.k = "null"  -> Str("")
                 [] v.k = "bool"  -> Json(v)
                 [] v.k = "obj"   -> Err("a template wants a scalar")
                 [] OTHER         -> v

\* decodeJSONValue, of the text of v.
Decoded(v) == LET text == Rendered(v)
              IN IF text.k = "json" THEN text.of ELSE Err("invalid JSON")

-----------------------------------------------------------------------------
(* Syntax.  A name is a reference or a status function; Event[e] is the     *)
(* member of the payload that e names.                                      *)

Lit(v)        == [op |-> "lit", v |-> v]
Name(n)       == [op |-> "name", n |-> n]
Not(e)        == [op |-> "not", args |-> <<e>>]
And(e, f)     == [op |-> "and", args |-> <<e, f>>]
Or(e, f)      == [op |-> "or", args |-> <<e, f>>]
Eq(e, f)      == [op |-> "eq", args |-> <<e, f>>]
Choice(p, e, f) == [op |-> "case", args |-> <<p, e, f>>]
ToJSON(e)     == [op |-> "toJSON", args |-> <<e>>]
FromJSON(e)   == [op |-> "fromJSON", args |-> <<e>>]
Event(e)      == [op |-> "index", args |-> <<Name("github.event"), e>>]

IsLeaf(e) == e.op \in {"lit", "name"}

RECURSIVE Names(_)
Names(e) == CASE e.op = "lit"  -> {}
              [] e.op = "name" -> {e.n}
              [] OTHER -> UNION {Names(e.args[i]) : i \in DOMAIN e.args}

StatusFunctions == {"success()", "failure()", "always()", "cancelled()"}
EventNames      == {"github.event", "github.event.flag"}

\* containsStatusFunction; nodeReferencesGitHubEventPayload,
\* nodeReferencesCompileGitHubEvent, referencesWholeEvent.
NamesStatus(e)     == e # Empty /\ Names(e) \cap StatusFunctions # {}
NamesPayload(e)    == e # Empty /\ Names(e) \cap EventNames # {}
NamesEvent(e)      == e # Empty /\ Names(e) \cap (EventNames \cup {"github.ref_name"}) # {}

RECURSIVE NamesWholeEvent(_)
NamesWholeEvent(e) ==
    CASE e.op = "lit"   -> FALSE
      [] e.op = "name"  -> e.n = "github.event"
      [] e.op = "index" -> NamesWholeEvent(e.args[2])
      [] OTHER -> \E i \in DOMAIN e.args : NamesWholeEvent(e.args[i])

-----------------------------------------------------------------------------
(* Evaluation.  c gives the value of each name, or an error.                *)

\* expressionIndex
Member(object, key) ==
    CASE IsErr(object) -> object
      [] IsErr(key)    -> key
      [] object = Obj("github.event") /\ key = Str("flag") -> scene.flag
      [] OTHER -> Null

RECURSIVE Evaluate(_, _)
Evaluate(e, c) ==
    IF e.op = "lit" THEN e.v
    ELSE IF e.op = "name" THEN c[e.n]
    ELSE LET First   == Evaluate(e.args[1], c)
             Arg(i)  == Evaluate(e.args[i], c)
         IN  IF IsErr(First) THEN First
             ELSE CASE e.op = "not" -> Bool(~Truthy(First))
                    [] e.op = "and" -> IF Truthy(First) THEN Arg(2) ELSE First
                    [] e.op = "or"  -> IF Truthy(First) THEN First ELSE Arg(2)
                    [] e.op = "eq"  -> LET Second == Arg(2)
                                       IN IF IsErr(Second) THEN Second
                                          ELSE Bool(GitHubEqual(First, Second))
                    [] e.op = "case" -> IF First.k # "bool" THEN Err("case wants a boolean")
                                        ELSE IF First.b THEN Arg(2) ELSE Arg(3)
                    [] e.op = "toJSON"   -> Json(First)
                    [] e.op = "fromJSON" -> Decoded(First)
                    [] e.op = "index"    -> Member(First, Arg(2))

-----------------------------------------------------------------------------
(* What is known.                                                           *)

\* What GitHub has for every expression of a scope, of which something failed
\* or not.
GitHub(failed) ==
    [n \in {"github.event", "github", "github.event.flag", "github.ref_name", "github.token",
            "matrix.m", "inputs.i", "vars.v", "needs.o"} \cup StatusFunctions |->
        CASE n = "github.event.flag" -> scene.flag
          [] n = "github.ref_name"   -> Str("main")
          [] n = "github.token"      -> Str("token")
          [] n = "matrix.m"          -> scene.m
          [] n = "inputs.i"          -> scene.i
          [] n = "vars.v"            -> scene.v
          [] n = "needs.o"           -> scene.o
          [] n = "success()"         -> Bool(~failed)
          [] n = "failure()"         -> Bool(failed)
          [] n = "cancelled()"       -> Bool(FALSE)
          [] n = "always()"          -> Bool(TRUE)
          [] OTHER                   -> Obj(n)]

\* compileContext, resolveCompileReference: the compiler has the event, the
\* ref and the matrix, and the inputs of a call that are not deferred.
Compile(withMatrix, withInputs) ==
    [n \in DOMAIN GitHub(FALSE) |->
        IF \/ n \in EventNames \cup {"github.ref_name", "github"}
           \/ n = "matrix.m" /\ withMatrix
           \/ n = "inputs.i" /\ withInputs /\ ~scene.deferred
        THEN IF n = "github" THEN Obj("github at import") ELSE GitHub(FALSE)[n]
        ELSE Later]

\* resolveConditionReference, resolveRuntimeReferenceValue: the runner has the
\* payload and the token if the plan carries them.
Runner(failed) ==
    [n \in DOMAIN GitHub(FALSE) |->
        CASE n \in EventNames /\ ~plan.event   -> Err("event payload is unavailable")
          [] n = "github" /\ ~plan.event       -> Obj("github without event")
          [] n = "github.token" /\ ~plan.token -> Err("token is unavailable")
          [] OTHER -> GitHub(failed)[n]]

-----------------------------------------------------------------------------
(* Reduction                                                                *)

\* evaluateCompileNodeAvailable: every branch, before short-circuits can hide
\* what is not known or fails in it.
RECURSIVE Available(_, _)
Available(e, c) ==
    IF IsLeaf(e) THEN Evaluate(e, c)
    ELSE LET Branches == {Available(e.args[i], c) : i \in DOMAIN e.args}
             Failing  == {v \in Branches : IsErr(v) /\ v # Later}
         IN  IF Failing # {} THEN CHOOSE v \in Failing : TRUE
             ELSE IF Later \in Branches THEN Later
             ELSE Evaluate(e, c)

\* reduceCompileNode: a known scalar becomes a literal.
RECURSIVE Reduced(_, _)
Reduced(e, c) ==
    LET v == Available(e, c)
    IN  IF ~IsErr(v) /\ v.k # "obj" THEN Lit(v)
        ELSE IF IsLeaf(e) THEN e
        ELSE [e EXCEPT !.args = [i \in DOMAIN e.args |-> Reduced(e.args[i], c)]]

\* A condition is refused, decided, or left with the rest of it.
Fails(e, c)   == IsErr(Available(e, c)) /\ Available(e, c) # Later
Verdict(e, c) == Evaluate(Reduced(e, c), c)
Decides(e, c) == ~IsErr(Verdict(e, c))
Verdicts(e, c) == Lit(Bool(Truthy(Verdict(e, c))))

\* reduceCondition in plan_builder.go
Condition(e, c) == IF Decides(e, c) THEN Verdicts(e, c) ELSE Reduced(e, c)

\* Mutant: a condition that is known to be true becomes "true".
ResolvedPlainly(e, c) == IF NamesEvent(e) THEN Condition(e, c) ELSE e

\* resolveCompileTimeCondition: implicit success() must not come back with a
\* status function that was decided away.
ResolvedCondition(e, c) ==
    IF ~NamesEvent(e) THEN e
    ELSE IF Decides(e, c) /\ Truthy(Verdict(e, c)) /\ NamesStatus(e) THEN Name("always()")
    ELSE Condition(e, c)

\* expandJob: a job that cannot run is known by its condition.
JobCondition(e, c) ==
    LET r == ResolvedCondition(e, c)
        v == IF r = Empty THEN Bool(TRUE) ELSE Evaluate(r, c)
    IN  IF ~IsErr(v) /\ ~Truthy(v) THEN Lit(Bool(FALSE)) ELSE r

\* The resolver of called workflows: without a condition, a call with needs
\* has success(); inputs are only read if they decide the call.
CallCondition(e) ==
    LET authored == IF e = Empty THEN Name("success()") ELSE e
    IN  IF Decides(authored, Compile(FALSE, TRUE)) THEN Verdicts(authored, Compile(FALSE, TRUE))
        ELSE Condition(authored, Compile(FALSE, FALSE))

\* reduceAvailableCompileTemplate: the template renders what is known.
Template(e, c) ==
    IF ~NamesPayload(e) \/ NamesWholeEvent(e) THEN e
    ELSE IF IsErr(Available(e, c)) THEN Reduced(e, c) ELSE Lit(Rendered(Available(e, c)))

TemplateFails(e, c) ==
    /\ NamesPayload(e) /\ ~NamesWholeEvent(e)
    /\ Fails(e, c) \/ (~IsErr(Available(e, c)) /\ IsErr(Rendered(Available(e, c))))

\* expandJobs: the conditions of the call, the job and its steps.
Resolve ==
    LET job == Compile(TRUE, FALSE)
    IN  /\ phase = "authored"
        /\ IF \/ sites["call"] # Empty /\ (Fails(sites["call"], Compile(FALSE, TRUE))
                                           \/ Fails(sites["call"], Compile(FALSE, FALSE)))
              \/ \E s \in {"job", "step"} : NamesEvent(sites[s])
                    /\ (Fails(sites[s], job) \/ Fails(sites[s], Compile(FALSE, FALSE)))
           THEN phase' = "over" /\ refused' = TRUE /\ UNCHANGED sites
           ELSE /\ phase' = "resolved"
                /\ sites' = [sites EXCEPT !["call"] = CallCondition(@),
                                          !["job"]  = JobCondition(@, job),
                                          !["step"] = ResolvedCondition(@, job)]
                /\ UNCHANGED refused
        /\ UNCHANGED <<scene, plan, decided>>

-----------------------------------------------------------------------------
(* Abstract interpretation.  A result has a value or is Unknown, is truthy  *)
(* in one way or either, and needs the event or the token to come about.    *)

Known(v, uses) == [v |-> v, truths |-> {Truthy(v)}, uses |-> uses]
Open(truths, uses) == [v |-> Unknown, truths |-> truths, uses |-> uses]
Using(a, b) == [a EXCEPT !.uses = @ \cup b.uses]

\* abstractReferenceEffects, and the token of resolve and resolveRoot.
Uses(n) == (IF n \in {"github", "github.event", "github.event.flag"} THEN {"event"} ELSE {})
           \cup (IF n \in {"github", "github.token"} THEN {"token"} ELSE {})

\* join: what both branches agree on.
Join(a, b) == LET uses == a.uses \cup b.uses
              IN IF a.v # Unknown /\ a.v = b.v THEN Known(a.v, uses)
                 ELSE Open(a.truths \cup b.truths, uses)

RECURSIVE Abstract(_, _)
Abstract(e, known) ==
    IF e.op = "lit" THEN Known(e.v, {})
    ELSE IF e.op = "name"
    THEN IF e.n \in DOMAIN known THEN Known(known[e.n], Uses(e.n)) ELSE Open(BOOLEAN, Uses(e.n))
    ELSE LET A    == Abstract(e.args[1], known)
             B(i) == Abstract(e.args[i], known)
         IN  IF IsErr(A.v) THEN A
             ELSE CASE e.op = "not" -> IF A.truths = BOOLEAN THEN Open(BOOLEAN, A.uses)
                                       ELSE Known(Bool(A.truths = {FALSE}), A.uses)
                    [] e.op \in {"and", "or"} ->
                         LET goesOn == e.op = "and"
                         IN  IF A.truths = {~goesOn} THEN A
                             ELSE IF A.truths = {goesOn} \/ IsErr(B(2).v) THEN Using(B(2), A)
                             ELSE Open(IF B(2).truths = {~goesOn} THEN {~goesOn} ELSE BOOLEAN,
                                       A.uses \cup B(2).uses)
                    [] e.op = "eq" ->
                         IF IsErr(B(2).v) THEN B(2)
                         ELSE IF Unknown \in {A.v, B(2).v} THEN Open(BOOLEAN, A.uses \cup B(2).uses)
                         ELSE Known(Bool(GitHubEqual(A.v, B(2).v)), A.uses \cup B(2).uses)
                    [] e.op = "case" ->
                         IF A.v \notin {Unknown, Bool(TRUE), Bool(FALSE)}
                         THEN Known(Err("case wants a boolean"), {})
                         ELSE IF A.truths = {TRUE} THEN Using(B(2), A)
                         ELSE IF A.truths = {FALSE} \/ IsErr(B(2).v) THEN Using(B(IF A.truths = {FALSE} THEN 3 ELSE 2), A)
                         ELSE IF IsErr(B(3).v) THEN B(3)
                         ELSE Using(Join(B(2), B(3)), A)
                    [] e.op = "toJSON"   -> IF A.v = Unknown THEN Open(BOOLEAN, A.uses)
                                            ELSE Known(Json(A.v), A.uses)
                    [] e.op = "fromJSON" -> IF A.v = Unknown THEN Open(BOOLEAN, A.uses)
                                            ELSE Known(Decoded(A.v), A.uses)
                    [] e.op = "index"    -> Open(BOOLEAN, A.uses \cup B(2).uses)

\* What planning knows of a site: matrix, inputs and status functions are of
\* the job, not of the call.
PlanKnows(s) == [n \in {"always()"} \cup (IF s = "call" THEN {} ELSE {"matrix.m"})
                       \cup (IF s = "call" \/ scene.deferred THEN {} ELSE {"inputs.i"})
                     |-> GitHub(FALSE)[n]]

Analysis(e, s) == IF e = Empty THEN Known(Bool(TRUE), {}) ELSE Abstract(e, PlanKnows(s))

\* reducePlanEventExpressions, WorkflowReachability and InventoryAuthority.
\* What follows a condition that is known to be false needs nothing.
Plan ==
    LET c == Compile(TRUE, FALSE)
        Reducing(s) == IF s = "body" THEN Template(sites[s], c)
                       ELSE IF NamesEvent(sites[s]) THEN Condition(sites[s], c) ELSE sites[s]
        left  == [s \in Sites |-> Reducing(s)]
        found == [s \in Sites |-> Analysis(left[s], s)]
        Reached(s) == \A t \in Conditions : (t = "call" \/ (t = "job" /\ s # "call")
                                              \/ (t = "step" /\ s = "body")) /\ t # s
                                            => found[t].truths # {FALSE}
        uses  == UNION {found[s].uses : s \in {t \in Sites : Reached(t)}}
    IN  /\ phase = "resolved"
        /\ IF \/ \E s \in Conditions : NamesEvent(sites[s]) /\ Fails(sites[s], c)
              \/ TemplateFails(sites["body"], c)
              \/ \E s \in Sites : Reached(s) /\ IsErr(found[s].v)
           THEN phase' = "over" /\ refused' = TRUE /\ UNCHANGED <<sites, plan>>
           ELSE /\ phase' = "planned"
                /\ sites' = left
                /\ plan' = [event |-> "event" \in uses, token |-> "token" \in uses,
                            job |-> Reached("step"), step |-> Reached("body")]
                /\ UNCHANGED refused
        /\ UNCHANGED <<scene, decided>>

-----------------------------------------------------------------------------
(* The runner                                                               *)

\* evaluateProfileCondition
Evaluated(e, failed) ==
    IF failed /\ ~NamesStatus(e) THEN Bool(FALSE)
    ELSE IF e = Empty THEN Bool(TRUE)
    ELSE LET v == Evaluate(e, Runner(failed))
         IN  IF IsErr(v) THEN v ELSE Bool(Truthy(v))

\* evaluateCallGuards, the condition of the job and that of the step: the
\* first that is not true ends it.
Decide(s, from, to) ==
    LET v == Evaluated(sites[s], scene.trouble = s)
    IN  /\ phase = from
        /\ decided' = [decided EXCEPT ![s] = v]
        /\ phase' = IF v = Bool(TRUE) THEN to ELSE "over"
        /\ UNCHANGED <<scene, sites, plan, refused>>

RunCall == Decide("call", "planned", "called")
RunJob  == Decide("job", "called", "started")
RunStep == Decide("step", "started", "stepped")

\* evaluateRuntimeTemplate
RunBody ==
    /\ phase = "stepped"
    /\ phase' = "over"
    /\ decided' = [decided EXCEPT !["body"] =
                      Rendered(Evaluate(sites["body"], Runner(scene.trouble = "step")))]
    /\ UNCHANGED <<scene, sites, plan, refused>>

ExprStart ==
    /\ sites = scene.sites
    /\ phase = "authored"
    /\ plan = [event |-> FALSE, token |-> FALSE, job |-> FALSE, step |-> FALSE]
    /\ decided = [s \in Sites |-> Pending]
    /\ refused = FALSE

\* A scenario has the expressions of the sites and what they can read.
ExprInit ==
    /\ \E family \in DOMAIN Scenarios : \E given \in Scenarios[family] : scene = given
    /\ ExprStart

ExprNext == Resolve \/ Plan \/ RunCall \/ RunJob \/ RunStep \/ RunBody

-----------------------------------------------------------------------------
(* Properties                                                               *)

\* What GitHub makes of a site as it was written.
OnGitHub(s) ==
    LET e      == scene.sites[s]
        failed == scene.trouble = s
        v      == Evaluate(e, GitHub(failed))
    IN  IF s = "body" THEN Rendered(Evaluate(e, GitHub(scene.trouble = "step")))
        ELSE IF failed /\ ~NamesStatus(e) THEN Bool(FALSE)
        ELSE IF e = Empty THEN Bool(TRUE)
        ELSE IF IsErr(v) THEN v ELSE Bool(Truthy(v))

\* A call whose condition the importer decides loses the status functions of
\* it, unlike a job and a step (resolveCompileTimeCondition).
LosesStatus(s) == /\ s = "call" /\ scene.trouble = "call"
                  /\ NamesStatus(scene.sites[s]) /\ Decides(scene.sites[s], Compile(FALSE, TRUE))

\* Whether some branch fails with what GitHub has, read or not.
RECURSIVE CanFail(_)
CanFail(e) == IF e = Empty \/ IsLeaf(e) THEN FALSE
              ELSE \/ IsErr(Evaluate(e, GitHub(FALSE)))
                   \/ \E i \in DOMAIN e.args : CanFail(e.args[i])

\* Splitting an expression between import and run changes nothing: what the
\* runner decides of a site is what GitHub decides of it as it was written,
\* with an implicit success() only where the author named no status function
\* and with the payload and the token at hand where they are read; a step
\* that runs was not planned as unreachable; and import refuses a job only if
\* a branch of an expression of it can fail.
DecisionsKept ==
    /\ \A s \in Sites : decided[s] # Pending /\ ~LosesStatus(s) => decided[s] = OnGitHub(s)
    /\ phase = "stepped" => plan.job /\ plan.step
    /\ refused => \E s \in Sites : CanFail(scene.sites[s])
=============================================================================
