\* Two of three background steps at a time; and a cache that holds one of two
\* entries, for three bounded processes or one bounded and one that is not.
SPECIFICATION MCSpec
CONSTANTS
    p1 = p1
    p2 = p2
    p3 = p3
    q1 = q1
    q2 = q2
    x = x
    y = y
    none = none
    Procs = {p1, p2, p3, q1, q2}
    Entries = {x, y}
    Size <- MCSize
    MaxBytes = 1
    Setups <- MCSetups
    a = a
    b = b
    d = d
    f = f
    Steps <- MCSteps
    Programs <- MCPrograms
    Tolerant <- MCTolerant
    Limit = 2
INVARIANTS
    TypeOK
    SlotAccounting
    WorkConserving
    DeterministicCommits
    JobErrorExact
    Quiescent
    EntriesSound
    LimitKept
SYMMETRY MCSymmetry
