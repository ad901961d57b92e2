SPECIFICATION Spec
CONSTANTS
    Keys = {k1, k2}
    Events = {1, 2, 3, 4, 5, 6, 7}
    Handlers = {h1, h2}
    Groups = {g1, g2}
    Policies = {p1, p2}
    Verdicts = {"PASSED", "FAILED"}
    Instants = {1, 2}
    Statements = {s1, s2}
    k1 = k1
    Scopes <- MCScopes
    None = None
SYMMETRY Symmetry
INVARIANTS
    HistoryMatches
PROPERTIES
    GatesHold
    AcknowledgedIsStored
    LifecycleSpec
