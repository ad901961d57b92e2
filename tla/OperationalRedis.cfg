SPECIFICATION FairSpec
CONSTANTS
    Tasks = {t1, t2}
    Keys = {k1}
    Intents = {i1, i2}
    Requests <- MCRequests
    Handlers = {h1, h2}
    Runtimes = {p1}
    MaxAttempts = 2
    BatchSize = 2
    Faults = {"crash", "api_crash", "error", "slow"}
    MaxFaults = 1
    MaxMessages = 3
    None = None
CHECK_DEADLOCK FALSE
INVARIANTS
    RequestHonoured
    TerminalIsQuiet
    ExecutionsGuarded
PROPERTIES
    MemorySpec
    TaskSettles
