\* Runner inside the control plane, SQL store whose calls may fail, one stop or crash.
CONSTANTS
    Robots = {"r1", "r2"}
    Zones = {"A"}
    NoRobot = NoRobot
    NoZone = NoZone
    Requests <- AllKinds
    Volatile = {}
    MaxTasks = 2
    MaxStops = 1
    CanCrash = TRUE
    Persistent = TRUE
    StoreFaults = TRUE
    Embedded = TRUE
SPECIFICATION Spec
INVARIANTS TypeOK OneRunningPerRobot ZoneLockOwned
PROPERTIES StartOnce
