----------------------------- MODULE JobContract -----------------------------
(***************************************************************************)
(* What a generated job promises to the build it belongs to: it publishes  *)
(* at most one result receipt, before it exits, and the exit status goes   *)
(* with the receipt.  Other jobs read the receipt; Buildkite schedules by  *)
(* the exit status.                                                        *)
(***************************************************************************)
CONSTANT none      \* not yet

VARIABLES receipt, \* the published result
          exit     \* the exit status of the process

Results == {"success", "failure", "cancelled", "skipped"}

\* 78 is the status reserved for a failure that continue-on-error admits;
\* "killed" is a process the agent had to kill.
Statuses == {"0", "1", "78", "killed"}

\* The statuses that go with a receipt.  A publication that fails, or whose
\* answer is lost, makes the job fail whatever it has published.
StatusesWith(r) ==
    CASE r = "success"   -> {"0", "78", "1", "killed"}
      [] r = "skipped"   -> {"0", "1", "killed"}
      [] r = "cancelled" -> {"0", "1", "killed"}
      [] r = "failure"   -> {"1", "killed"}
      [] r = none        -> {"1", "killed"}

Init == receipt = none /\ exit = none

Publish ==
    /\ exit = none /\ receipt = none
    /\ receipt' \in Results
    /\ UNCHANGED exit

Exit ==
    /\ exit = none
    /\ exit' \in StatusesWith(receipt)
    /\ UNCHANGED receipt

Next == Publish \/ Exit

Spec == Init /\ [][Next]_<<receipt, exit>>
=============================================================================
