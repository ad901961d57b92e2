SPECIFICATION FairSpec
CONSTANTS
    Keys = {k1}
    Payloads = {p1, p2}
    Usable = {p1}
    Handlers = {h1, h2}
    Executors = {e1, e2, e3}
    MaxTentativas = 2
    Faults = {"crash", "db", "slow"}
    MaxFaults = 3
    MaxRequeues = 2
    None = None
INVARIANTS
    AnswerIsStored
    OneClaimant
PROPERTIES
    BatchSettles
