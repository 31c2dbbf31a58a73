-------------------------------- MODULE MCLocks --------------------------------
(* What competes for locks: the RunJob goroutine and the background steps of *)
(* a job for the mutex of the supervisor, and the processes of a host for    *)
(* the files of the action cache.  A behaviour is of one of the two.         *)
EXTENDS MCBackgroundSteps, ActionCache, TLC

CONSTANTS p1, p2, p3, q1, q2, x, y

\* Entries are interchangeable, and bounded stores where all are bounded.
MCSymmetry == Permutations({p1, p2, p3}) \cup Permutations({x, y})

MCSize == [e \in Entries |-> 1]

Setup(procs, bounded, most, failing) ==
    [procs |-> procs, bounded |-> bounded, maxLeases |-> most, maxFaults |-> failing]

MCSetups == {Setup({p1, p2, p3}, {p1, p2, p3}, 1, 0), Setup({q1, q2}, {q1}, 2, 1)}

-----------------------------------------------------------------------------

VARIABLE part

MCInit ==
    /\ part \in {"background", "cache"}
    /\ Init /\ CacheInit
    /\ part = "background" => setup = CHOOSE s \in Setups : TRUE
    /\ part = "cache" => program = CHOOSE p \in Programs : TRUE

MCNext ==
    \/ part = "background" /\ Next /\ UNCHANGED <<part, cacheVars>>
    \/ part = "cache" /\ CacheNext /\ UNCHANGED <<part, vars>>

MCSpec == MCInit /\ [][MCNext]_<<part, vars, cacheVars>>
=============================================================================
