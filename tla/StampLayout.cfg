CONSTANTS
    Letters <- MCLetters
    NotANumber = NotANumber
    Users = {u1, u2}
    Worlds <- MCWorlds
    StampRequests <- MCStampRequests
    BreakoutRuns <- MCBreakoutRuns
    Edits <- MCEdits
    MaxOperations <- MCMaxOperations
SPECIFICATION LayoutSpec
SYMMETRY UserSymmetry
PROPERTIES
    SyncKeepsCanvas
    UnmovedStaysPut
    BreakoutIsComplete
    PlanesStayApart
CHECK_DEADLOCK FALSE
