\* Builds of small workflows with calls, gates and groups.  Refs with one
\* change upstream, a refresh of the snapshot, and one crash or failed write.
SPECIFICATION MCSpec
CONSTANTS
    MaxDepth = 2
    Pairings <- MCPairings
    Groups <- MCGroups
    c1 = c1
    c2 = c2
    c3 = c3
    c4 = c4
    r1 = r1
    r2 = r2
    a = a
    Resolvers = {c1, c2, c3, c4}
    ProcOf <- MCProcOf
    Ref <- MCRef
    Root = {r2}
    Setups <- MCSetups
    Authenticated = {"direct", "cache"}
    Commits = {a}
    MaxMoves = 1
    MaxGenerations = 2
    MaxFaults = 1
    absent = absent
    none = none
    f1 = f1
    f2 = f2
    f3 = f3
    old = old
    new = new
    Trees <- MCTrees
    Home <- MCHome
    CommitOf <- MCCommitOf
    Catalog <- MCCatalog
    Substitute = "c0"
    CacheAction = "C"
    Bytes <- MCBytes
    MaxNestedActionDepth = 3
    MaxActionExecutablePathBytes = 3
    Askers = {f1, f2, f3}
    RefOf <- MCRefOf
    PathOf <- MCPathOf
    Recorded <- MCRecorded
    Revisions = {old, new}
    Nothing = Nothing
    Failed = Failed
    GivenUp = GivenUp
    MaxAway = 2
    Uploads <- MCUploads
    Provided = {"darwin", "linux"}
    Own = "linux"
    MaxTroubles = 2
INVARIANTS
    QueuesSound
    ResolutionSound
    LocksFollowUses
    OnePinPerRef
    NothingDropped
PROPERTY FollowsAuthoredWorkflow
