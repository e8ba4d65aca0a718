CONSTANTS
    Executors = {e1}
    Rollbackers = {b1}
    MaxRecords = 3
    Kinds = {"spatial", "rack_population", "breakout", "assembly_passive", "cable_assembly", "vacant", "none"}
    Overlap = FALSE
    MaxFaults = 2
    Inventory <- EmptyRoom
    NoObject = NoObject
    site = site
    room = room
    rack = rack
    device = device
SPECIFICATION Spec
INVARIANTS MadeIsOnRecord
PROPERTIES ExecutesAllPending RollbackReachesAll
