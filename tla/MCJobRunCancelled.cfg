\* A cancelled job that exits with status 0.
SPECIFICATION MCSpec
CONSTANTS
    none = none
    nothing = nothing
    NSteps = 2
    Kind <- MCKind
    WithStatus = {2}
    Tolerant = {2}
    Needed <- MCNeeded
    Sites = {"host", "container"}
    Prompt = TRUE
    MaxProcessFaults = 1
    Services <- MCServices
    Volume <- MCVolume
    JobVolumes <- MCJobVolumes
    MaxDockerFaults = 2
    Masked <- MCMasked
    Written <- MCWritten
    Closing <- MCClosing
    MaxRendered = 8
    MaxSummary = 5
    MaxLines = 4
    Parent <- MCParent
    Action <- MCAction
    Entries = {"base", "own", "x", "n", "g", "d", "e", "f", "m"}
    Scripts <- MCScripts
    ActionPhases = {"p", "q"}
    CacheActions = {"p"}
    Asking = {"q"}
    Audiences = {"a", "b"}
    MaxRequests = 2
    WorkflowTokenBudget = 45
    AttemptTimeout = 15
    Afters = {0, 20, 45}
INVARIANTS
    CancelledJobFails
