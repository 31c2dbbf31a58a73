------------------------- MODULE MCBackgroundSteps -------------------------
EXTENDS BackgroundSteps

CONSTANTS a, b, d, f

MCSteps == {a, b, d, f}

\* The continue-on-error of b is an expression; the other steps do not have one.
MCTolerant == [s \in MCSteps |-> IF s = b THEN {TRUE, FALSE} ELSE {FALSE}]

Begin(s)  == [kind |-> "run", id |-> s, background |-> TRUE, status |-> FALSE]
Always(s) == [kind |-> "run", id |-> s, background |-> FALSE, status |-> TRUE]
Run(s)    == [kind |-> "run", id |-> s, background |-> FALSE, status |-> FALSE]
Wait(t)   == [kind |-> "wait", targets |-> t]
WaitAll   == [kind |-> "wait-all"]
Cancel(s) == [kind |-> "cancel", target |-> s]

\* More tasks than slots and a barrier against start order; a cancel of a task
\* that is queued, running or finished, with an implicit drain after it; a
\* barrier that finds its target committed.
MCPrograms ==
    { <<Begin(a), Begin(f), Begin(d), Wait(<<f, a>>)>>,
      <<Begin(a), Begin(b), Cancel(b), Begin(d), WaitAll>>,
      <<Begin(a), Run(f), Cancel(a), Wait(<<a>>), Always(d)>> }

\* The same situations with one slot, where two tasks are enough, and a
\* barrier for a task that is still queued.
MCShortPrograms ==
    { <<Begin(a), Begin(b), Cancel(b), Always(f)>>,
      <<Begin(a), Cancel(a), Begin(b), WaitAll>>,
      <<Begin(a), Begin(b), Begin(d), Cancel(a), Wait(<<d>>)>> }
=============================================================================
