\* Two steps, one of which is retried, read for two scopes of one job one
\* after the other; expressions of up to two operators at each site.
SPECIFICATION MCSpec
CONSTANTS
    absent = absent
    empty = empty
    text1 = text1
    text2 = text2
    NProducers = 2
    Manifests <- MCManifests
    Scopes <- MCScopes
    MaxRetries = 1
    Scenarios <- MCScenarios
    Empty = Empty
    Graphs <- MCGraphs
    MaxGraphJobs = 9
    MaxRows = 2
    Definitions <- MCDefinitions
    Alphabet <- MCAlphabet
    Fold <- MCFold
    Canon <- MCCanon
    Scalars <- MCScalars
    Neighbours <- MCNeighbours
    MaxInstances = 4
INVARIANTS
    NeedsExact
    EvidenceSound
    DecisionsKept
    StagesAgree
    RowsAsDeclared
SYMMETRY MCSymmetry
CHECK_DEADLOCK FALSE
