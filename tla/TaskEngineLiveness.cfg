\* Progress and outcomes of a runner that is never stopped, beside
\* cancellations and a changing fleet and catalogue.
CONSTANTS
    Robots = {"r1", "r2"}
    Zones = {"A"}
    NoRobot = NoRobot
    NoZone = NoZone
    Requests <- AllAndStored
    Volatile = {"r1"}
    MaxTasks = 2
    MaxStops = 0
    CanCrash = FALSE
    Persistent = TRUE
    StoreFaults = FALSE
    Embedded = TRUE
SPECIFICATION FairSpec
INVARIANTS OneCompletionEvent CancelOverrun RunningHasExecutor AnnouncedIsStored
PROPERTIES InHandEnds PendingServed
