\* Queueing, liveness and refinement with a single slot, and checkouts.
SPECIFICATION MCSpec
CONSTANTS
    a = a
    b = b
    d = d
    f = f
    Steps <- MCSteps
    Programs <- MCShortPrograms
    Tolerant <- MCTolerant
    Limit = 1
    CheckoutJobs <- MCCheckoutJobs
    Event = "e"
    Branch = "main"
    Revisions = {"e", "x", "n"}
    NoCommit = NoCommit
    MaxTrouble = 2
INVARIANTS
    AdmissionOrder
    NoPanic
    CheckoutExact
PROPERTIES
    JobsDrain
    ImplementsLedger
