\* What TestFailureBeforeCancelStillFailsJob says of a step that failed first.
SPECIFICATION Spec
CONSTANTS
    a = a
    b = b
    d = d
    f = f
    Steps <- MCSteps
    Programs <- MCPrograms
    Tolerant <- MCTolerant
    Limit = 2
INVARIANT OwnFailureFailsJob
