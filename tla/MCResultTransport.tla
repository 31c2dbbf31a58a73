--------------------------- MODULE MCResultTransport ---------------------------
EXTENDS ResultTransport, TLC
CONSTANTS text1, text2

Manifest(r, o) == [result |-> r, output |-> o]
MCManifests == {Manifest("success", text1), Manifest("success", text2), Manifest("failure", absent),
                Manifest("cancelled", absent)}
MCTwoManifests == {Manifest("success", text1), Manifest("failure", absent)}

MCSymmetry == Permutations({text1, text2})

MCOneScope == <<"runtime">>
MCScopes == <<"runtime", "strict">>
=============================================================================
