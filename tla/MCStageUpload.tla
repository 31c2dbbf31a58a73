--------------------------- MODULE MCStageUpload ---------------------------
(* Instances of StageUpload: a stage with a child, beside a stage with two *)
(* joined roots that shares its gate; and one root without dependents.      *)
EXTENDS StageUpload

CONSTANTS s1, s2, s3, r1, r2, r3, r4, d1, d2, d4, p1, p2, g, h

MCStages     == {s1, s2, s3}
MCParent     == (s1 :> None) @@ (s2 :> None) @@ (s3 :> s1)
MCRoots      == (s1 :> <<r1>>) @@ (s2 :> <<r2, r3>>) @@ (s3 :> <<r4>>)
MCDependents == (s1 :> {d1}) @@ (s2 :> {d2}) @@ (s3 :> {d4})
MCUpstream   == (r1 :> {}) @@ (r2 :> {}) @@ (r3 :> {}) @@ (r4 :> {r1})
                  @@ (d1 :> {r1}) @@ (d2 :> {r2, r3}) @@ (d4 :> {r1, r4})
MCSource     == (r1 :> p1) @@ (r2 :> p1) @@ (r3 :> p2) @@ (r4 :> d1)
MCGate       == (r1 :> None) @@ (r2 :> None) @@ (r3 :> None) @@ (r4 :> g)
                  @@ (d1 :> g) @@ (d2 :> g) @@ (d4 :> h)

Published(n) == [result |-> "success", rows |-> 1..n]
MCFailure    == [result |-> "failure", rows |-> {}]
MCOutcomes   == (p1 :> {MCFailure, Published(2)}) @@ (p2 :> {Published(0), Published(1)})
                  @@ (d1 :> {Published(1), Published(2)})
MCAttempts   == (p1 :> 2) @@ (p2 :> 1) @@ (d1 :> 2)
MCRuns       == (s1 :> 2) @@ (s2 :> 1) @@ (s3 :> 2)

\* A single root that nothing depends on.
LoneStages     == {s1}
LoneParent     == s1 :> None
LoneRoots      == s1 :> <<r1>>
LoneDependents == s1 :> {}
LoneUpstream   == r1 :> {}
LoneSource     == r1 :> p1
LoneGate       == r1 :> g
LoneOutcomes   == p1 :> {MCFailure, Published(2)}
LoneAttempts   == p1 :> 2
LoneRuns       == s1 :> 2
============================================================================
