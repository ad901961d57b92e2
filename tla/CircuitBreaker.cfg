SPECIFICATION CircuitFairSpec
CONSTANTS
    Calls = {c1, c2, c3}
    FailureThreshold = 2
    Cooldown = 2
    MaxAttempts = 2
    Never = Never
INVARIANTS
    OpenedByFailures
    ShieldedService
PROPERTIES
    Recovers
