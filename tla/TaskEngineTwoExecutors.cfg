\* Cancelling a mall_assistant task.
CONSTANTS
    Robots = {"r1", "r2"}
    Zones = {"A"}
    NoRobot = NoRobot
    NoZone = NoZone
    Requests <- MallAndPatrol
    Volatile = {}
    MaxTasks = 2
    MaxStops = 0
    CanCrash = FALSE
    Persistent = TRUE
    StoreFaults = FALSE
    Embedded = TRUE
SPECIFICATION Spec
INVARIANTS OneExecutorPerRobot
