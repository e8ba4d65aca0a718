CONSTANTS
    Plants <- PassageOnly
    Planes <- MCPlanes
    Units <- MCUnits
    ExpectedPlanes = 2
    NoCable = NoCable
    NoLane = NoLane
SPECIFICATION TransformSpec
INVARIANTS
    PassagesAreBuilt
CHECK_DEADLOCK FALSE
