\* Two tasks in one lane; workers change role and are bound to another lane.
SPECIFICATION Spec
CONSTANTS
    w1 = w1
    r1 = r1
    r2 = r2
    i1 = i1
    None = None
    Tasks = {t1, t2}
    Workers = {w1, w2}
    Repos = {r1, r2}
    Intents = {i1}
    RepoOf <- MCRepoOne
    Priority <- MCPriority
    MaxAttempts <- MCMaxAttempts2
    Registrations <- MCEitherRole
    Reports <- MCNoReports
    LaneConfigs <- MCNoLaneConfigs
    Affinities <- MCElsewhere
    MaxRequeues = 1
    MaxRequeued = 1
    MaxBeats = 0
SYMMETRY PoolSymmetry
INVARIANTS
    TypeOK
    RowsSound
    OneActivePerWorker
    NewWorkFitsLane
PROPERTIES
    HandoffFenced
    ImplementsContract
    BlockedForCause
