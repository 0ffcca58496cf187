\* Two runs beside the Task Runner and administration.
CONSTANTS
    Robots = {"r1", "r2"}
    Tenants = {"t1", "t2"}
    Default = "t1"
    FirstOwner <- OneEach
    MaxRequests = 3
    Steps <- NamedAndAny
    Able <- AllPatrol
    Scenarios = {"patrol", "stand"}
    MaxRuns = 2
    MaxFaults = 1
SPECIFICATION Spec
INVARIANTS RobotsHaveTenants TasksArePrefix OneStepPerRobot RunsStayInTenant
CHECK_DEADLOCK FALSE
