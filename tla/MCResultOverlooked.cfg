\* An attempt between the two looks at a step.
SPECIFICATION QuerySpec
CONSTANTS
    absent = absent
    empty = empty
    text1 = text1
    text2 = text2
    NProducers = 2
    Manifests <- MCTwoManifests
    Scopes <- MCOneScope
    MaxRetries = 1
INVARIANTS
    NoReceiptOverlooked
