CONSTANTS
    Nodes <- MCNodes
    Depths <- MCDepths
    Units <- MCUnits
    MaxLanes <- MCMaxLanes
    Graphs <- MCGraphs
    MaxBuilds <- MCMaxBuilds
    Requests <- MCRequests
    NoTarget = NoTarget
    NoPlane = NoPlane
SPECIFICATION ResolverSpec
INVARIANTS
    SearchExact
    AnswersOneGraph
    AloneIsRight
    PlaneKept
CHECK_DEADLOCK FALSE
