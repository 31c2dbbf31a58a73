----------------------------- MODULE StepLedger -----------------------------
(***************************************************************************)
(* What the step phase promises to the rest of the job, without admission  *)
(* limits, processes or contexts: every step is opened, closed with a      *)
(* verdict that never changes, and published once; the verdict of the job  *)
(* only gets worse; and once the phase is sealed nothing is open any more. *)
(***************************************************************************)
EXTENDS Naturals, Sequences

CONSTANT Steps

VARIABLES entry, verdict, log, failed, sealed

ledgerVars == <<entry, verdict, log, failed, sealed>>

Verdicts == {"none", "success", "failure", "cancelled", "skipped"}

Init ==
    /\ entry = [s \in Steps |-> "absent"]
    /\ verdict = [s \in Steps |-> "none"]
    /\ log = <<>>
    /\ failed = FALSE
    /\ sealed = FALSE

\* A background step is handed over.
Submit(s) ==
    /\ ~sealed
    /\ entry[s] = "absent"
    /\ entry' = [entry EXCEPT ![s] = "open"]
    /\ UNCHANGED <<verdict, log, failed, sealed>>

\* It ends, with a verdict nobody sees yet.
Close(s) ==
    /\ entry[s] = "open"
    /\ entry' = [entry EXCEPT ![s] = "closed"]
    /\ \E v \in {"success", "failure", "cancelled"} : verdict' = [verdict EXCEPT ![s] = v]
    /\ UNCHANGED <<log, failed, sealed>>

\* A barrier publishes a closed step.  A verdict "failure" is never lost;
\* "cancelled" may be what the job asked for.
Publish(s) ==
    /\ ~sealed
    /\ entry[s] = "closed"
    /\ entry' = [entry EXCEPT ![s] = "visible"]
    /\ log' = Append(log, s)
    /\ failed' \in {failed \/ verdict[s] = "failure", failed \/ verdict[s] # "success"}
    /\ UNCHANGED <<verdict, sealed>>

\* A step the job did not hand over is skipped, or judged where it stands.
Record(s) ==
    /\ ~sealed
    /\ entry[s] = "absent"
    /\ entry' = [entry EXCEPT ![s] = "visible"]
    /\ \E v \in Verdicts \ {"none"} :
          /\ verdict' = [verdict EXCEPT ![s] = v]
          /\ log' = IF v = "skipped" THEN log ELSE Append(log, s)
          /\ failed' = (failed \/ v \notin {"success", "skipped"})
    /\ UNCHANGED sealed

\* The phase ends with nothing open or unpublished; a job that was cancelled
\* meanwhile has failed.
Seal ==
    /\ ~sealed
    /\ \A s \in Steps : entry[s] \in {"absent", "visible"}
    /\ sealed' = TRUE
    /\ failed' \in {failed, TRUE}
    /\ UNCHANGED <<entry, verdict, log>>

Next ==
    \/ \E s \in Steps : Submit(s) \/ Close(s) \/ Publish(s) \/ Record(s)
    \/ Seal

Spec == Init /\ [][Next]_ledgerVars
=============================================================================
