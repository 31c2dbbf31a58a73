\* Two JavaScript actions, the second with a condition such as always() and a
\* tolerated failure; three resources.  A process on the host or in the job
\* container, with one failure; two services and the job container, with two.
\* Four lines of output with nested, crossing and multi-line masks; a tree of
\* six actions with continue-on-error of the first three; three steps with all
\* they can write to GITHUB_ENV and GITHUB_PATH.
SPECIFICATION MCSpec
CONSTANTS
    none = none
    nothing = nothing
    NSteps = 2
    Kind <- MCKind
    WithStatus = {2}
    Tolerant = {2}
    Needed <- MCNeeded
    Sites = {"host", "container"}
    Prompt = TRUE
    MaxProcessFaults = 1
    Services <- MCServices
    Volume <- MCVolume
    JobVolumes <- MCJobVolumes
    MaxDockerFaults = 2
    Masked <- MCMasked
    Written <- MCWritten
    Closing <- MCClosing
    MaxRendered = 8
    MaxSummary = 5
    MaxLines = 4
    Parent <- MCParent
    Action <- MCAction
    Entries = {"base", "own", "x", "n", "g", "d", "e", "f", "m"}
    Scripts <- MCScripts
    ActionPhases = {"p", "q"}
    CacheActions = {"p"}
    Asking = {"q"}
    Audiences = {"a", "b"}
    MaxRequests = 2
    WorkflowTokenBudget = 45
    AttemptTimeout = 15
    Afters = {0, 20, 45}
INVARIANTS
    VerdictHonest
    LifecyclesPaired
    ResourcesOutliveProcesses
    CancelledProcessesDie
    CleanupHonest
    MasksHold
    PresReported
    EffectsFollow
    CredentialsAccountedFor
PROPERTIES
    CancelledJobEnds
    ImplementsContract
