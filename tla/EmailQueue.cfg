SPECIFICATION FairSpec
CONSTANTS
    Items = {i1, i2}
    Consumers = {c1, c2}
    LoteMax = 2
    MaxRetries = 2
    MaxAttempts = 2
    FailureThreshold = 2
    Cooldown = 1
    Faults = {"crash", "db", "lost", "slow", "overlap"}
    MaxFaults = 1
    None = None
    Never = Never
INVARIANTS
    MailStatusIsTrue
    SendsPerFault
PROPERTIES
    MailSettles
