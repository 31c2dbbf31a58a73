----------------------------- MODULE JobServices -----------------------------
(***************************************************************************)
(* The credentials of a job and the failures it tells of.  The job asks    *)
(* the Agent API for its workflow token; then JavaScript action phases of  *)
(* concurrent steps get a cache credential each and the credential of the  *)
(* local ID-token service, from which their processes request ID tokens.   *)
(*                                                                         *)
(* An error is a tree: a leaf, a wrapper of one error or a join of several.*)
(***************************************************************************)
EXTENDS Naturals, Sequences, FiniteSets, SequencesExt, FiniteSetsExt, Functions, TLC

CONSTANTS
    ActionPhases,       \* JavaScript action phases
    CacheActions, \* those of actions that are cache clients: action.Cache
    Audiences,
    Asking,       \* phases whose processes request ID tokens
    MaxRequests,  \* of ID tokens
    WorkflowTokenBudget, AttemptTimeout,   \* in seconds
    Afters        \* Retry-After headers

VARIABLES
    stage,     \* "secrets", "token", "steps", "done"
    attempt, spent, retry,   \* of WorkflowToken: the error a pause is for, or nil
    masked, redacted,        \* values the processor masks, the agent redacts
    exposed,      \* values that processes of the job have seen
    phaseAt,        \* [phase -> where runJavaScriptPhase is]
    over,     \* [phase -> why its context ended, or ""]
    usable,    \* phases whose cache credential is in the environment
    accepted,  \* authHashes
    requests,  \* requests the ID-token service is minting or protecting for
    served,    \* number of requests
    failures,  \* [phase -> audiences of idTokenInvocation.failures]
    failure,   \* [phase -> error of its process, then of the phase]
    job,       \* error of the job
    answers,   \* history: results recorded for an audience before revocation
    denied     \* history: credentials that were refused and that something needed

servicesVars == <<stage, attempt, spent, retry, masked, redacted, exposed, phaseAt, over, usable,
                  accepted, requests, served, failures, failure, job, answers, denied>>
setupVars == <<attempt, spent, retry>>
phaseVars == <<phaseAt, usable, accepted, failure>>
tokenVars == <<requests, served, failures, answers>>

-----------------------------------------------------------------------------
(* Errors. *)

Error(k, c, of) == [kind |-> k, class |-> c, of |-> of]
Leaf(k) == Error(k, "", <<>>)
Wrap(k, e) == Error(k, "", <<e>>)
NoError == Leaf("nil")

Joined(errors) ==
    LET some == SelectSeq(errors, LAMBDA e : e # NoError)
    IN  IF some = <<>> THEN NoError ELSE Error("join", "", some)

RECURSIVE Within(_)
Within(e) == <<e>> \o FoldLeft(LAMBDA s, c : s \o Within(c), <<>>, e.of)
Is(e, kinds) == \E n \in ToSet(Within(e)) : n.kind \in kinds

CredentialRequestFailure(reason, e) ==
    IF Is(e, {"canceled", "cancelledProcess", "request"}) \/ (reason = "deadline" /\ Is(e, {"deadline"}))
    THEN e ELSE Wrap("request", e)

MarkJobSetupFailure(class, e) ==
    IF Is(e, {"request"}) /\ ~Is(e, {"setup"}) THEN Error("setup", class, <<e>>) ELSE e

MarkWorkflowTimeout(why, e) ==
    IF why = "deadline" /\ e # NoError THEN Wrap("timeout", e) ELSE e

MarkHardJobFailure(e) == IF e = NoError \/ Is(e, {"hard"}) THEN e ELSE Wrap("hard", e)

RECURSIVE OnlyValidation(_)
OnlyValidation(e) ==
    \/ e.kind = "validation"
    \/ e.of # <<>> /\ \A i \in DOMAIN e.of : OnlyValidation(e.of[i])

ClassifyFailure(e) ==
    CASE Is(e, {"unsupported"}) -> "unsupported_feature"
      [] ~Is(e, {"unsupported"}) /\ Is(e, {"hard"}) -> "integrity"
      [] ~Is(e, {"unsupported", "hard"}) /\ Is(e, {"readiness"}) -> "service_readiness"
      [] ~Is(e, {"unsupported", "hard", "readiness"}) /\ Is(e, {"setup"}) ->
            SelectSeq(Within(e), LAMBDA n : n.kind = "setup")[1].class
      [] ~Is(e, {"unsupported", "hard", "readiness", "setup"}) /\ Is(e, {"exited"}) -> "step_process_exit"
      [] ~Is(e, {"unsupported", "hard", "readiness", "setup", "exited"}) ->
            IF OnlyValidation(e) THEN "workflow_validation" ELSE ""

RECURSIVE Unexpected(_, _, _)
Unexpected(e, timeout, exited) ==
    LET Rest(t, x) ==
            LET children == [i \in DOMAIN e.of |-> Unexpected(e.of[i], t, x)]
            IN  IF children = e.of THEN e
                ELSE IF e.kind = "join" THEN Joined(children) ELSE children[1]
    IN  CASE e.kind = "hard" ->
                IF ~Is(e, {"canceled", "cancelledProcess", "timeout", "timeoutExit"}) THEN e
                ELSE IF Unexpected(e.of[1], FALSE, FALSE) = e.of[1] THEN e
                ELSE MarkHardJobFailure(Unexpected(e.of[1], FALSE, FALSE))
          [] e.kind \in {"setup", "termination"} -> e
          [] e.kind \in {"unsupported", "validation", "cancelledProcess", "timeoutExit"} -> NoError
          [] e.kind = "exited" -> Unexpected(e.of[1], timeout, TRUE)
          [] e.kind = "timeout" -> Unexpected(e.of[1], TRUE, exited)
          [] e.kind = "exit" -> IF exited THEN NoError ELSE e
          [] e.kind = "canceled" -> NoError
          [] e.kind = "deadline" -> IF timeout THEN NoError ELSE e
          [] OTHER -> Rest(timeout, exited)

UnexpectedFailure(e) == Unexpected(e, FALSE, FALSE)

RuntimeFailureCode(e) ==
    CASE Is(e, {"secret"}) -> IF Is(e, {"canceled", "cancelledProcess", "deadline"}) THEN "" ELSE "secret_unavailable"
      [] OTHER -> IF ClassifyFailure(e) = "workflow_validation" THEN "" ELSE ClassifyFailure(e)

-----------------------------------------------------------------------------
(* The workflow token.  Time passes in attempts and in pauses. *)

ServicesInit ==
    /\ stage = "secrets" /\ attempt = 0 /\ spent = 0 /\ retry = NoError
    /\ masked = {} /\ redacted = {} /\ exposed = {}
    /\ phaseAt = [p \in ActionPhases |-> "idle"] /\ over = [p \in ActionPhases |-> ""]
    /\ usable = {} /\ accepted = {} /\ requests = {} /\ served = 0
    /\ failures = [p \in ActionPhases |-> {}] /\ failure = [p \in ActionPhases |-> NoError]
    /\ job = NoError /\ answers = [p \in ActionPhases |-> <<>>] /\ denied = {}

\* What mint makes of an answer, of none in the time of the attempt, and of
\* the end of the caller's context.
Minted(why) ==
    CASE why = "attempt" -> Leaf("deadline")
      [] why \in {"canceled", "deadline"} -> Leaf(why)
      [] OTHER -> Wrap("request", Leaf(why))

CacheRefused == MarkJobSetupFailure("cache_credential", Minted("status"))
IDTokenRefused == MarkJobSetupFailure("oidc_token", Minted("status"))

TokenFails(why, e) ==
    /\ stage' = "done"
    /\ job' = IF why # "" THEN MarkWorkflowTimeout(why, Joined(<<Leaf(why), Leaf(why)>>))
              ELSE MarkJobSetupFailure("workflow_token",
                     IF Is(e, {"deadline"}) THEN CredentialRequestFailure("", e) ELSE e)
    /\ denied' = IF why = "" THEN denied \cup {<<"workflow">>} ELSE denied
    /\ UNCHANGED <<setupVars, masked, redacted, exposed, over, phaseVars, tokenVars>>

\* The redactor can fail: by itself, or because the context has ended.
Unredacted(why) ==
    CASE why = "" -> Leaf("redactor")
      [] why = "canceled" -> Wrap("cancelledProcess", Leaf("redactor"))
      [] why = "deadline" -> Wrap("timeoutExit", Leaf("redactor"))

\* What ends the command is told as unavailable, too.
Unavailable == Wrap("secret", Leaf("unavailable"))

\* One secret of the job.
ResolveSecret ==
    /\ stage = "secrets"
    /\ \/ /\ masked' = masked \cup {<<"secret">>} /\ redacted' = redacted \cup {<<"secret">>}
          /\ exposed' = exposed \cup {<<"secret">>} /\ stage' = "token" /\ UNCHANGED <<job, denied>>
       \/ /\ masked' = masked \cup {<<"secret">>} /\ stage' = "done" /\ job' = Unredacted("")
          /\ UNCHANGED <<redacted, exposed, denied>>
       \/ \E why \in {"", "canceled", "deadline"} :
            /\ stage' = "done"
            /\ job' = IF why = "" THEN Unavailable
                      ELSE MarkWorkflowTimeout(why, Joined(<<Unavailable, Leaf(why)>>))
            /\ denied' = IF why = "" THEN {<<"secret">>} ELSE {}
            /\ UNCHANGED <<masked, redacted, exposed>>
    /\ UNCHANGED <<setupVars, over, phaseVars, tokenVars>>

GetWorkflowToken ==
    /\ masked' = masked \cup {<<"workflow">>}
    /\ \/ /\ stage' = "steps" /\ redacted' = redacted \cup {<<"workflow">>}
          /\ exposed' = exposed \cup {<<"workflow">>}
          /\ UNCHANGED job
       \/ /\ stage' = "done" /\ job' = Unredacted("") /\ UNCHANGED <<redacted, exposed>>
    /\ attempt' = 0 /\ spent' = 0 /\ UNCHANGED <<retry, over, phaseVars, tokenVars, denied>>

Attempt ==
    /\ stage = "token" /\ retry = NoError
    /\ \/ GetWorkflowToken
       \/ \E why \in {"canceled", "deadline"} : TokenFails(why, Leaf(why))
       \/ \E answer \in {"status", "malformed", "attempt"} :
            TokenFails("", Minted(answer))
       \/ \E after \in Afters, took \in {0, AttemptTimeout - 1} :
            LET base == 2 ^ attempt
                left == WorkflowTokenBudget - (spent + took)
            IN  /\ spent + took < WorkflowTokenBudget
                /\ \E jitter \in 0 .. base - 1 :
                     LET delay == Max({base, after}) + jitter
                     IN  IF attempt = 2 \/ delay >= left
                         THEN TokenFails("", Minted("status"))
                         ELSE /\ retry' = Minted("status") /\ spent' = spent + took + delay
                              /\ UNCHANGED <<stage, attempt, masked, redacted, exposed, over, phaseVars,
                                             tokenVars, job, denied>>

Pause ==
    /\ stage = "token" /\ retry # NoError
    /\ \/ /\ attempt' = attempt + 1 /\ retry' = NoError
          /\ UNCHANGED <<stage, spent, masked, redacted, exposed, over, phaseVars, tokenVars, job, denied>>
       \/ \E why \in {"canceled", "deadline"} : TokenFails(why, retry)

-----------------------------------------------------------------------------
(* runJavaScriptPhase. *)

\* The phase returns e: its ID-token credential, if it has one, is revoked.
\* The step marks what its timeout ended.
EndPhase(p, e) ==
    /\ failure' = [failure EXCEPT ![p] = IF p \in accepted THEN e ELSE MarkWorkflowTimeout(over[p], e)]
    /\ phaseAt' = [phaseAt EXCEPT ![p] = IF p \in accepted THEN "finish" ELSE "done"]
    /\ accepted' = accepted \ {p} /\ usable' = usable \ {p}

\* cacheActionEnvironment: only a cache client fails for want of a credential.
CacheCredential(p) ==
    /\ stage = "steps" /\ phaseAt[p] = "idle"
    /\ \/ over[p] # "" /\ EndPhase(p, Leaf(over[p])) /\ UNCHANGED <<masked, redacted, denied>>
       \/ /\ over[p] = "" /\ masked' = masked \cup {<<"cache", p>>}
          /\ redacted' = redacted \cup {<<"cache", p>>} /\ usable' = usable \cup {p}
          /\ phaseAt' = [phaseAt EXCEPT ![p] = "credential"] /\ UNCHANGED <<failure, accepted, denied>>
       \/ \E minted \in BOOLEAN :
            /\ over[p] = "" /\ UNCHANGED redacted
            /\ masked' = IF minted THEN masked \cup {<<"cache", p>>} ELSE masked
            /\ IF p \in CacheActions
               THEN /\ EndPhase(p, IF minted THEN Unredacted("")
                                 ELSE CacheRefused)
                    /\ denied' = IF minted THEN denied ELSE denied \cup {<<"cache", p>>}
               ELSE phaseAt' = [phaseAt EXCEPT ![p] = "credential"] /\ UNCHANGED <<failure, usable, accepted, denied>>
    /\ UNCHANGED <<stage, setupVars, exposed, over, tokenVars, job>>

\* actionEnvironment: a credential of the ID-token service for this phase,
\* with which the process runs.
Launch(p) ==
    /\ phaseAt[p] = "credential"
    /\ masked' = masked \cup {<<"request", p>>}
    /\ \/ /\ over[p] = "" /\ redacted' = redacted \cup {<<"request", p>>}
          /\ accepted' = accepted \cup {p}
          /\ phaseAt' = [phaseAt EXCEPT ![p] = "process"] /\ UNCHANGED <<failure, usable>>
          /\ exposed' = exposed \cup {<<"request", p>>} \cup (IF p \in usable THEN {<<"cache", p>>} ELSE {})
       \/ EndPhase(p, Unredacted(over[p])) /\ UNCHANGED <<redacted, exposed>>
    /\ UNCHANGED <<stage, setupVars, over, tokenVars, job, denied>>

\* A phase whose effects contain its cache credential loses them and fails.
EndProcess(p) ==
    /\ phaseAt[p] = "process"
    /\ \E e \in {NoError, Wrap("exited", Leaf("exit"))}, leaked \in {FALSE, (p \in usable)} :
         LET err == IF over[p] # "" THEN Leaf(over[p]) ELSE e
         IN  EndPhase(p, IF leaked THEN Joined(<<err, Leaf("leak")>>) ELSE err)
    /\ UNCHANGED <<stage, setupVars, masked, redacted, exposed, over, tokenVars, job, denied>>

LastRefused(p) ==
    {a \in Audiences : \E i \in DOMAIN answers[p] :
        /\ answers[p][i] = <<a, FALSE>>
        /\ \A j \in i + 1 .. Len(answers[p]) : answers[p][j][1] # a}

\* finish, after the credential is revoked: failures of ID tokens are told
\* with a failure of the phase.
Finish(p) ==
    /\ phaseAt[p] = "finish"
    /\ LET tokens == [i \in 1 .. Cardinality(failures[p]) |-> IDTokenRefused]
       IN  failure' = [failure EXCEPT ![p] = MarkWorkflowTimeout(over[p],
                         IF @ # NoError /\ failures[p] # {} THEN Joined(<<@>> \o tokens) ELSE @)]
    /\ phaseAt' = [phaseAt EXCEPT ![p] = "done"]
    /\ denied' = IF failure[p] # NoError /\ LastRefused(p) # {} THEN denied \cup {<<"id", p>>} ELSE denied
    /\ failures' = [failures EXCEPT ![p] = {}] /\ answers' = [answers EXCEPT ![p] = <<>>]
    /\ UNCHANGED <<stage, setupVars, masked, redacted, exposed, over, usable, accepted, requests, served, job>>

\* A step times out, or the job is cancelled.
StepTimeout(p) ==
    /\ stage = "steps" /\ over[p] = "" /\ phaseAt[p] # "done"
    /\ over' = [over EXCEPT ![p] = "deadline"]
    /\ UNCHANGED <<stage, setupVars, masked, redacted, exposed, phaseVars, tokenVars, job, denied>>

CancelJob ==
    /\ stage = "steps" /\ \E p \in ActionPhases : phaseAt[p] # "done" /\ over[p] = ""
    /\ over' = [p \in ActionPhases |-> IF over[p] = "" /\ phaseAt[p] # "done" THEN "canceled" ELSE over[p]]
    /\ UNCHANGED <<stage, setupVars, masked, redacted, exposed, phaseVars, tokenVars, job, denied>>

-----------------------------------------------------------------------------
(* The ID-token service: idTokenService.ServeHTTP.  A request presents the *)
(* credential of p; what a phase started may live longer than the phase.   *)

Ask(p, a) ==
    /\ stage = "steps" /\ p \in Asking /\ <<"request", p>> \in exposed /\ p \in accepted
    /\ served < MaxRequests /\ served' = served + 1
    /\ requests' = requests \cup {[id |-> served', phase |-> p, audience |-> a, step |-> "mint"]}
    /\ UNCHANGED <<stage, setupVars, masked, redacted, exposed, over, phaseVars, failures, job, answers, denied>>

\* Mutant: a later success does not take back the failure of an audience.
FailureKept(r, ok) ==
    IF phaseAt[r.phase] = "done" THEN UNCHANGED <<failures, answers>>
    ELSE /\ failures' = [failures EXCEPT ![r.phase] = IF ok THEN @ ELSE @ \cup {r.audience}]
         /\ answers' = [answers EXCEPT ![r.phase] = Append(@, <<r.audience, ok>>)]

\* Nobody reads what is recorded after Finish.
RecordResult(r, ok) ==
    IF phaseAt[r.phase] = "done" THEN UNCHANGED <<failures, answers>>
    ELSE /\ failures' = [failures EXCEPT ![r.phase] = IF ok THEN @ \ {r.audience} ELSE @ \cup {r.audience}]
         /\ answers' = [answers EXCEPT ![r.phase] = Append(@, <<r.audience, ok>>)]

Mint(r) ==
    /\ r.step = "mint"
    /\ \/ /\ requests' = (requests \ {r}) \cup {[r EXCEPT !.step = "protect"]}
          /\ masked' = masked \cup {<<"id", r.id>>}
          /\ UNCHANGED <<failures, answers>>
       \/ requests' = requests \ {r} /\ RecordResult(r, FALSE) /\ UNCHANGED masked
       \* the process has closed the connection: not a failed request
       \/ requests' = requests \ {r} /\ UNCHANGED <<masked, failures, answers>>
    /\ UNCHANGED <<stage, setupVars, redacted, exposed, over, phaseVars, served, job, denied>>

Answer(r) ==
    /\ r.step = "protect" /\ requests' = requests \ {r}
    /\ \/ /\ redacted' = redacted \cup {<<"id", r.id>>} /\ exposed' = exposed \cup {<<"id", r.id>>}
          /\ RecordResult(r, TRUE)
       \/ UNCHANGED <<redacted, exposed, failures, answers>>
    /\ UNCHANGED <<stage, setupVars, masked, over, phaseVars, served, job, denied>>

-----------------------------------------------------------------------------
\* The phases are done and requests for ID tokens given up.  Cleanup
\* can fail, alone or with what ended a phase.
EndJob ==
    /\ stage = "steps" /\ \A p \in ActionPhases : phaseAt[p] = "done"
    /\ stage' = "done"
    /\ \E last \in {NoError, Leaf("deadline"),
            MarkHardJobFailure(Joined(<<Wrap("timeout", Leaf("deadline")), Leaf("cleanup")>>))} :
         job' = Joined(Append([i \in 1 .. Cardinality(ActionPhases) |-> failure[SetToSeq(ActionPhases)[i]]], last))
    /\ requests' = {} /\ failure' = [p \in ActionPhases |-> NoError]
    /\ over' = [p \in ActionPhases |-> ""]
    /\ UNCHANGED <<setupVars, masked, redacted, exposed, phaseAt, usable, accepted, served, failures,
                   answers, denied>>

ServicesNext ==
    \/ ResolveSecret \/ Attempt \/ Pause \/ CancelJob \/ EndJob
    \/ \E p \in ActionPhases :
         \/ CacheCredential(p) \/ Launch(p) \/ EndProcess(p) \/ Finish(p) \/ StepTimeout(p)
         \/ \E a \in Audiences : Ask(p, a)
    \/ \E r \in requests : Mint(r) \/ Answer(r)
    \/ stage = "done" /\ UNCHANGED servicesVars

ServicesSpec == ServicesInit /\ [][ServicesNext]_servicesVars

-----------------------------------------------------------------------------
\* What a process of the job has seen is masked in all output and redacted by
\* the agent.  And a job that fails is told of as what went wrong: a refused
\* credential whenever something that needed it failed, and no other time; a
\* cleanup failure whatever came with it; and never an exit of the workflow's
\* own process, a cancellation or the workflow's own timeout.  A secret that
\* is not read because the job was cancelled is told of as unavailable.
CredentialsAccountedFor ==
    /\ exposed \subseteq masked \cap redacted
    /\ stage = "done" =>
         LET unexpected == UnexpectedFailure(job)
             Told == {n.kind : n \in {m \in ToSet(Within(unexpected)) : m.of = <<>>}}
             refused == denied \ {<<"secret">>} # {}
         IN  /\ Told \cap {"exit", "canceled", "cancelledProcess"} = {}
             /\ refused <=> Is(unexpected, {"setup"})
             /\ refused /\ ~Is(job, {"hard"}) =>
                  RuntimeFailureCode(job) \in {"workflow_token", "cache_credential", "oidc_token"}
             /\ Is(job, {"hard"}) => RuntimeFailureCode(unexpected) = "integrity" /\ "cleanup" \in Told
             /\ <<"secret">> \in denied <=> RuntimeFailureCode(job) = "secret_unavailable"
=============================================================================
