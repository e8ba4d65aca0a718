CONSTANTS
    Auditors = {a1}
    Requests = {q1}
    Retainers = {t1}
    Problems = {p1}
    GraphProblems = {}
    MaxCopies = 2
    MaxSuppressions = 1
    MaxRuns = 3
    MaxRebuilds = 0
    Overlap = FALSE
    MaxFaults = 2
SPECIFICATION Spec
INVARIANTS OneRowPerFingerprint
PROPERTIES ImplementsLedger AuditMirrorsEvaluation AuditPreservesTriage ActiveRunsKept
