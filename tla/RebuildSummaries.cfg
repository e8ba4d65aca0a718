CONSTANTS
    Builds = {b1, b2, b3}
    Segments = {s1, s2}
    SiteSegments = {s1}
    OrphanSegments = {s1}
    Onboarded <- Onboardings
    Requests <- Callers
    PersistSummaries = TRUE
    Workers = 2
    MaxEdits = 1
    MaxFaults = 1
SPECIFICATION Spec
INVARIANTS SummariesMatchPlant OnlyClearedAreResolved CompletedRunObserved
PROPERTIES ReopeningsAreCounted RebuildKeepsSettings
SYMMETRY Symmetric
CHECK_DEADLOCK FALSE
