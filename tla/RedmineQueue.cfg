SPECIFICATION FairSpec
CONSTANTS
    Items = {i1, i2}
    AgileRows = {c1}
    i1 = i1
    i2 = i2
    c1 = c1
    Links <- MCLinks
    Runs = {w1, w2}
    MaxTentativas = 2
    LoteMax = 2
    Faults = {"dataverse", "crash", "lost", "slow", "overlap"}
    MaxFaults = 2
    None = None
INVARIANTS
    IssueStatusIsTrue
    EffectsPerFault
PROPERTIES
    ItemSettles
