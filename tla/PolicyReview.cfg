CONSTANTS
    NodeOf <- MCNodeOf
    Passive = {1, 2}
    MaxTargets = 3
    NoTarget = NoTarget
    PlaneNumbers = {1, 2, 3}
    Graphs <- MCGraphs
    Edits <- MCEdits
    MaxVersions = 3
    Scenarios <- MCScenarios
    Wishes <- MCWishes
    Operators = {o1}
    NoCopy = NoCopy
    NoEvaluation = NoEvaluation
SPECIFICATION PolicySpec
INVARIANTS
    EvidenceOfOneGraph
    ReportIsCurrent
    DomainsAreComponents
    CoverageAgrees
CHECK_DEADLOCK FALSE
