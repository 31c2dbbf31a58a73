---------------------------- MODULE ResultTransport ----------------------------
(***************************************************************************)
(* How a job learns what its prerequisites did: LoadNeeds and              *)
(* LoadRuntimeNeeds read the receipts of the generated steps it needs      *)
(* (internal/transport), once for every scope run-job hydrates: the needs  *)
(* of the job, deferred inputs, guards of reusable-workflow calls.         *)
(*                                                                         *)
(* A step is run by a job of the build, and can be retried while the       *)
(* consumer reads; each attempt keeps to JobContract.  What Buildkite says *)
(* of a step does not tell which attempt it speaks of.                     *)
(***************************************************************************)
EXTENDS Naturals, Sequences, FiniteSets, SequencesExt

CONSTANTS NProducers,  \* the steps needed are 1..NProducers, by step key
          Manifests,   \* receipts an attempt can publish: [result, output]
          Scopes,      \* "runtime" or "strict", in the order of hydration
          MaxRetries,  \* bound: retries, over all steps
          empty,       \* the value of an output that is not set
          absent

Needed == 1..NProducers
ScopeIds  == 1..Len(Scopes)
Results   == {"success", "failure", "cancelled", "skipped"}

ASSUME ProducersAssumption == NProducers \in Nat \ {0}
ASSUME RetriesAssumption == MaxRetries \in Nat
ASSUME ScopesAssumption == Scopes \in Seq({"runtime", "strict"}) /\ Scopes # <<>>
ASSUME ManifestsAssumption == \A m \in Manifests : m.result \in Results
ASSUME SkippedAssumption == \A m \in Manifests : m.result = "skipped" => m.output = absent

VARIABLES
    attempts,   \* of each step: [receipt, outcome], the latest last
    projection, \* steps whose output the need exposes; absent: those of all
    query,      \* the query of the consumer that is next
    scope, at,  \* the scope and the step it is about
    job,        \* the attempt whose receipt the search has found
    before,     \* the step at the first look: [attempt, outcome]
    need,       \* the need of the scope so far: [result, output]
    evidence,   \* per scope and step: absent or [attempt, recovered, receipt]
    needs       \* per scope: the need that was returned, or absent

consumerVars == <<query, scope, at, job, before, need, evidence, needs>>
queryVars == <<attempts, projection, consumerVars>>

\* The attempts are jobs, of which the build sees a receipt and a status.
Job == INSTANCE JobContract WITH receipt <- absent, exit <- absent, none <- absent

\* soft_fail admits 78 alone; a job that had to be killed may also count as
\* errored.
OutcomesOf(status) ==
    CASE status = "0"      -> {"passed"}
      [] status = "78"     -> {"soft_failed"}
      [] status = "1"      -> {"hard_failed"}
      [] status = "killed" -> {"hard_failed", "errored"}
Endings == UNION {OutcomesOf(s) : s \in Job!Statuses}

ASSUME AbsentAssumption == absent \notin Endings /\ absent \notin Manifests

Started == [receipt |-> absent, outcome |-> absent]
Skipped == [result |-> "skipped", output |-> absent]

QueryInit ==
    /\ attempts = [p \in Needed |-> <<Started>>]
    /\ projection \in {absent} \cup SUBSET Needed
    /\ query = "waiting" /\ scope = 1 /\ at = 1 /\ job = 0 /\ before = absent
    /\ need = Skipped
    /\ evidence = [s \in ScopeIds |-> [p \in Needed |-> absent]]
    /\ needs = [s \in ScopeIds |-> absent]

-----------------------------------------------------------------------------
(* The steps                                                               *)

Current(p) == Last(attempts[p])
Running(p) == Current(p).outcome = absent

Retries == FoldFunction(LAMBDA a, n : n + Len(a) - 1, 0, attempts)

PublishReceipt(p) ==
    /\ Running(p) /\ Current(p).receipt = absent
    /\ \E m \in Manifests : attempts' = [attempts EXCEPT ![p][Len(attempts[p])].receipt = m]
    /\ UNCHANGED <<projection, consumerVars>>

Finish(p) ==
    /\ Running(p)
    /\ LET receipt == Current(p).receipt
           result  == IF receipt = absent THEN absent ELSE receipt.result
       IN  \E s \in Job!StatusesWith(result) : \E o \in OutcomesOf(s) :
              attempts' = [attempts EXCEPT ![p][Len(attempts[p])].outcome = o]
    /\ UNCHANGED <<projection, consumerVars>>

Retry(p) ==
    /\ ~Running(p) /\ Retries < MaxRetries
    /\ attempts' = [attempts EXCEPT ![p] = Append(@, Started)]
    /\ UNCHANGED <<projection, consumerVars>>

-----------------------------------------------------------------------------
(* The need of a scope                                                     *)

\* Mutant: a cancelled prerequisite hides the failure of another.
CancelledFirst(current, next) ==
    LET priority == [skipped |-> 0, success |-> 1, failure |-> 2, cancelled |-> 3]
    IN  IF priority[next] > priority[current] THEN next ELSE current

aggregateResult(current, next) ==
    LET priority == [skipped |-> 0, success |-> 1, cancelled |-> 2, failure |-> 3]
    IN  IF priority[next] > priority[current] THEN next ELSE current

\* Outputs of all matrix legs are merged; the consumer fails if they differ.
Conflict(output) == need.output # absent /\ output # absent /\ output # need.output

Merged(output) == IF need.output = absent THEN output ELSE need.output

\* Projected: the values of the selected steps that have a receipt; an output
\* they did not set is empty.
Selected(found) ==
    {IF found[p].receipt.output = absent THEN empty ELSE found[p].receipt.output :
        p \in {q \in projection : ~found[q].recovered}}

GoTo(label) == query' = label /\ UNCHANGED <<scope, at, need, evidence, needs>>

FailQuery ==
    /\ query' = "failed"
    /\ UNCHANGED <<scope, at, need, evidence, needs>>

NextScope ==
    /\ scope' = scope + 1
    /\ query' = IF scope = Len(Scopes) THEN "done" ELSE "search"

\* One step is resolved; after the last of them the need is complete.
Take(result, found) ==
    LET all    == [evidence[scope] EXCEPT ![at] = found]
        output == IF found.recovered \/ projection # absent THEN absent ELSE found.receipt.output
        merged == [result |-> aggregateResult(need.result, result), output |-> Merged(output)]
        values == Selected(all)
    IN  \/ (Conflict(output) \/ (at = NProducers /\ projection # absent /\ Cardinality(values) > 1))
           /\ FailQuery
        \/ /\ ~Conflict(output) /\ at < NProducers
           /\ evidence' = [evidence EXCEPT ![scope] = all]
           /\ need' = merged
           /\ at' = at + 1 /\ query' = "search"
           /\ UNCHANGED <<scope, needs>>
        \/ /\ ~Conflict(output) /\ at = NProducers
           /\ projection # absent => Cardinality(values) <= 1
           /\ evidence' = [evidence EXCEPT ![scope] = all]
           /\ needs' = [needs EXCEPT ![scope] =
                 IF projection = absent \/ values = {} THEN merged
                 ELSE [merged EXCEPT !.output = CHOOSE v \in values : TRUE]]
           /\ need' = Skipped /\ at' = 1
           /\ NextScope

-----------------------------------------------------------------------------
(* The queries, each a call of buildkite-agent                             *)

\* Buildkite starts the consumer when all it depends on has finished.
Begin ==
    /\ query = "waiting"
    /\ \A p \in Needed : ~Running(p)
    /\ GoTo("search")
    /\ UNCHANGED <<attempts, projection, job, before>>

\* SearchArtifactProducer: receipts of the attempt that is not retried.  Only
\* runtime scopes go on without one.
Search ==
    /\ query = "search"
    /\ \/ /\ Current(at).receipt # absent
          /\ job' = Len(attempts[at])
          /\ GoTo("download")
       \/ /\ Current(at).receipt = absent
          /\ IF Scopes[scope] = "runtime" THEN GoTo("before") ELSE FailQuery
          /\ UNCHANGED job
    /\ UNCHANGED <<attempts, projection, before>>

Downloaded(p) == attempts[p][job].receipt

\* By the job found, whose identity the manifest must repeat.
DownloadReceipt ==
    /\ query = "download"
    /\ Downloaded(at) # absent
    /\ Take(Downloaded(at).result,
            [attempt |-> job, recovered |-> FALSE, receipt |-> Downloaded(at)])
    /\ UNCHANGED <<attempts, projection, job, before>>

\* The first look at the step: only one that has finished and failed hard is
\* evidence of a failure.
LookBefore ==
    /\ query = "before"
    /\ before' = [attempt |-> Len(attempts[at]), outcome |-> Current(at).outcome]
    /\ IF Current(at).outcome = "hard_failed" THEN GoTo("history") ELSE FailQuery
    /\ UNCHANGED <<attempts, projection, job>>

\* Mutant: retried attempts are not searched.
CurrentOnly(p) == IF Current(p).receipt = absent THEN {} ELSE {Len(attempts[p])}

\* The attempts with a receipt, --include-retried-jobs=true.
Records(p) == {i \in DOMAIN attempts[p] : attempts[p][i].receipt # absent}

SearchHistory ==
    /\ query = "history"
    /\ IF Records(at) = {} THEN GoTo("after") ELSE FailQuery
    /\ UNCHANGED <<attempts, projection, job, before>>

SameStep(p) == Current(p).outcome = before.outcome

\* The second look must equal the first.
LookAfter ==
    /\ query = "after"
    /\ \/ /\ SameStep(at)
          /\ Take("failure", [attempt |-> before.attempt, recovered |-> TRUE, receipt |-> absent])
       \/ ~SameStep(at) /\ FailQuery
    /\ UNCHANGED <<attempts, projection, job, before>>

\* A query fails, or its answer is malformed; a download does not verify.
QueryFails ==
    /\ query \in {"search", "download", "before", "history", "after"}
    /\ FailQuery
    /\ UNCHANGED <<attempts, projection, job, before>>

Over == query \in {"done", "failed"} /\ UNCHANGED queryVars

QueryNext ==
    \/ \E p \in Needed : PublishReceipt(p) \/ Finish(p) \/ Retry(p)
    \/ Begin \/ Search \/ DownloadReceipt \/ LookBefore \/ SearchHistory \/ LookAfter
    \/ QueryFails \/ Over

QuerySpec == QueryInit /\ [][QueryNext]_queryVars

-----------------------------------------------------------------------------
Evidence == [attempt : Nat \ {0}, recovered : BOOLEAN, receipt : Manifests \cup {absent}]
Needs == [result : Results, output : {m.output : m \in Manifests} \cup {absent, empty}]

\* The values the variables take.
QueryTypeOK ==
    /\ attempts \in [Needed -> Seq([receipt : Manifests \cup {absent}, outcome : Endings \cup {absent}])]
    /\ \A p \in Needed : Len(attempts[p]) \in 1..(MaxRetries + 1)
    /\ projection = absent \/ projection \subseteq Needed
    /\ query \in {"waiting", "search", "download", "before", "history", "after", "done", "failed"}
    /\ scope \in ScopeIds \/ (query = "done" /\ scope = Len(Scopes) + 1)
    /\ at \in Needed /\ job \in 0..(MaxRetries + 1)
    /\ before = absent \/ before \in [attempt : 1..(MaxRetries + 1), outcome : Endings \cup {absent}]
    /\ need \in Needs
    /\ evidence \in [ScopeIds -> [Needed -> Evidence \cup {absent}]]
    /\ needs \in [ScopeIds -> Needs \cup {absent}]

\* A need that was returned says what the attempts it was drawn from have
\* published: the worst of their results, and an output only if every step
\* that counts for it agrees.  A recovered failure adds no output.
NeedsExact ==
    \A s \in ScopeIds : needs[s] # absent =>
        LET From(p)   == evidence[s][p]
            Receipt(p) == attempts[p][From(p).attempt].receipt
            Verified  == {p \in Needed : ~From(p).recovered}
            Counted   == IF projection = absent
                         THEN {p \in Verified : Receipt(p).output # absent}
                         ELSE Verified \cap projection
            Value(p)  == IF Receipt(p).output = absent THEN empty ELSE Receipt(p).output
            Told      == {IF From(p).recovered THEN "failure" ELSE Receipt(p).result : p \in Needed}
        IN  /\ \A p \in Verified : Receipt(p) = From(p).receipt /\ Receipt(p) # absent
            /\ needs[s].result = CASE "failure" \in Told   -> "failure"
                                   [] "failure" \notin Told /\ "cancelled" \in Told -> "cancelled"
                                   [] Told = {"skipped"}    -> "skipped"
                                   [] OTHER                 -> "success"
            /\ IF Counted = {} THEN needs[s].output = absent
               ELSE \A p \in Counted : needs[s].output = Value(p)

\* A failure is recovered in runtime scopes alone, from an attempt that failed
\* hard, and only if neither it nor any attempt before it has published.
RecoveryJustified ==
    \A s \in ScopeIds, p \in Needed :
        evidence[s][p] # absent /\ evidence[s][p].recovered =>
            /\ Scopes[s] = "runtime"
            /\ attempts[p][evidence[s][p].attempt].outcome = "hard_failed"
            /\ \A i \in 1..evidence[s][p].attempt : attempts[p][i].receipt = absent

\* The scopes of a job see a prerequisite differently only if it was retried
\* in between: what is drawn from the same attempt is the same.
ScopesAgree ==
    \A s, t \in ScopeIds, p \in Needed :
        /\ evidence[s][p] # absent /\ evidence[t][p] # absent
        /\ evidence[s][p].attempt = evidence[t][p].attempt
        => evidence[s][p] = evidence[t][p]

\* What the runner makes of the evidence: recovery where it is due, and one
\* view of each attempt (terminal_results.go, HydrateJobNeeds).
EvidenceSound == RecoveryJustified /\ ScopesAgree

\* docs/compatibility-contract.md: a failure is recovered only when the step
\* "remains finished with outcome hard_failed across successful artifact
\* searches confirming absence from every attempt": when the second look finds
\* the step as it was, no attempt has a receipt.
NoReceiptOverlooked == query = "after" /\ SameStep(at) => Records(at) = {}
=============================================================================
