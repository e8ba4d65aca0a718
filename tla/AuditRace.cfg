CONSTANTS
    Auditors = {a1, a2}
    Requests = {q1}
    Retainers = {t1}
    Problems = {p1}
    GraphProblems = {}
    MaxCopies = 1
    MaxSuppressions = 1
    MaxRuns = 2
    MaxRebuilds = 0
    Overlap = TRUE
    MaxFaults = 0
SPECIFICATION Spec
INVARIANTS RowConsistent
PROPERTIES ReportedIsActive
SYMMETRY Slots
