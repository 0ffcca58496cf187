\* A cancellation after the last checkpoint.
CONSTANTS
    Robots = {"r1", "r2"}
    Zones = {"A"}
    NoRobot = NoRobot
    NoZone = NoZone
    Requests <- PatrolOnly
    Volatile = {}
    MaxTasks = 1
    MaxStops = 0
    CanCrash = FALSE
    Persistent = TRUE
    StoreFaults = FALSE
    Embedded = FALSE
SPECIFICATION Spec
INVARIANTS CancelHalts
