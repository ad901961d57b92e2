SPECIFICATION FairSpec
CONSTANTS
    r1 = r1
    r2 = r2
    c1 = c1
    c2 = c2
    k1 = k1
    k2 = k2
    s1 = s1
    Requests = {r1, r2}
    CauseOf <- MCCauseOf
    Priority <- MCPriority
    CauseRank <- MCCauseRank
    HumanGate = {}
    Unconfigured = {r2}
    Limite = 1
    Checks = {k1, k2}
    Shas = {s1, s2}
    Declared <- MCDeclared
    Reports <- MCReports
    Replicas = {w1}
    Users = {u1}
    UserMoves = {"QUEUED", "BLOCKED", "CANCELLED", "EVIDENCED"}
    UserReports = TRUE
    MaxCalls = 1
    MaxAborts = 1
    None = None
CHECK_DEADLOCK FALSE
PROPERTIES
    Decided
