CONSTANTS
    Builds = {b1, b2}
    Segments = {s1, s2}
    SiteSegments = {s1}
    OrphanSegments = {}
    Onboarded <- Onboardings
    Requests <- Refreshes
    PersistSummaries = TRUE
    Workers = 1
    MaxEdits = 0
    MaxFaults = 0
SPECIFICATION Spec
PROPERTY RefreshKeepsTheRest
CHECK_DEADLOCK FALSE
