CONSTANTS
    Auditors = {a1}
    Requests = {q1}
    Retainers = {t1}
    Problems = {p1}
    GraphProblems = {p1}
    MaxCopies = 1
    MaxSuppressions = 2
    MaxRuns = 2
    MaxRebuilds = 1
    Overlap = FALSE
    MaxFaults = 0
SPECIFICATION FairSpec
INVARIANTS SuppressedHasSuppression TrailIsCurrent
PROPERTIES SuppressionEnds
