CONSTANTS
    Plants <- MCPlants
    Planes <- MCPlanes
    Units <- MCUnits
    ExpectedPlanes = 2
    NoCable = NoCable
    NoLane = NoLane
SPECIFICATION TransformSpec
INVARIANTS
    HealthyIsComplete
    NothingLostSilently
    PropagationExact
    EdgesOrderFree
    LanesRunThrough
    ConsistentMeansMapped
    RegressionsHaveRows
    LinksLeadToTheirGroup
CHECK_DEADLOCK FALSE
