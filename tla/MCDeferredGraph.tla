---------------------------- MODULE MCDeferredGraph ----------------------------
EXTENDS DeferredGraph

\* Graphs by the jobs added to smaller ones: with one or two needs, and a
\* static job or a matrix from the output of one of these.
OneJob == [needs |-> <<{}>>, producer |-> <<0>>, rows |-> <<1>>]
Grown(g) ==
    {[needs |-> Append(g.needs, n), producer |-> Append(g.producer, p), rows |-> Append(g.rows, IF p = 0 THEN 1 ELSE 0)] :
        n \in kSubset(1, Jobs(g)) \cup kSubset(2, Jobs(g)), p \in {0} \cup {j \in Jobs(g) : g.producer[j] = 0}}
Sound(g) == \A r \in Roots(g) : g.producer[r] \in g.needs[r]
AllGrown(graphs) == {g \in UNION {Grown(h) : h \in graphs} : Sound(g)}

\* Three jobs after two static ones, or two after two matrices with a job that
\* one of these leads to.
TwoJobs == [needs |-> <<{}, {}>>, producer |-> <<0, 0>>, rows |-> <<1, 1>>]
Branches == [needs |-> <<{}, {1}, {1}, {3}>>, producer |-> <<0, 1, 1, 0>>, rows |-> <<1, 0, 0, 1>>]
MCGraphs == AllGrown(AllGrown(AllGrown({TwoJobs}))) \cup AllGrown(AllGrown({Branches}))

MCGraphSpec == GraphInit /\ [][GraphNext]_stageVars
=============================================================================
