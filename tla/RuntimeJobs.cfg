SPECIFICATION FairSpec
CONSTANTS
    Jobs = {j1}
    Workers = {w1, w2}
    Handlers = {h1, h2}
    MaxTentativas = 2
    MaxQueueSize = 1
    Faults = {"crash", "interrupt", "lapse"}
    MaxFaults = 1
    MaxRequests = 2
    Dead = Dead
    None = None
CHECK_DEADLOCK FALSE
INVARIANTS
    NeverLost
    OneExecution
    AttemptsPerFault
PROPERTIES
    TerminalIsFinal
    AcceptedSettles
