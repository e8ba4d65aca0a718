CONSTANTS
    Executors = {e1, e2}
    Rollbackers = {b1}
    MaxRecords = 2
    Kinds = {"rack_population", "breakout", "assembly_passive"}
    Overlap = TRUE
    MaxFaults = 0
    Inventory <- OneRack
    NoObject = NoObject
    site = site
    room = room
    rack = rack
    device = device
SPECIFICATION FairSpec
INVARIANTS StampedHasResult
PROPERTIES StampingEnds
