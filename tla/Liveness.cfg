\* One task, a validator and a builder that polls the pool, goes to study mode
\* and sends overlapping heartbeats.
SPECIFICATION FairSpec
CONSTANTS
    w1 = w1
    r1 = r1
    r2 = r2
    i1 = i1
    None = None
    Tasks = {t1}
    Workers = {w1, w2}
    Repos = {r1}
    Intents = {i1, i2}
    RepoOf <- MCRepoOne
    Priority <- MCPriority
    MaxAttempts <- MCMaxAttempts
    Registrations <- MCStudyRoles
    Reports <- MCStudyReports
    LaneConfigs <- MCWiderLane
    Affinities <- MCNoAffinities
    MaxRequeues = 0
    MaxRequeued = 0
    MaxBeats = 2
PROPERTIES
    NoWorkInStudy
    Settles
