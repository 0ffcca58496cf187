\* A deletion that overlaps a write, or that cannot read the registry, leaves robots behind.
CONSTANTS
    Robots = {"r1", "r2"}
    Tenants = {"t1", "t2"}
    Default = "t1"
    FirstOwner <- OneEach
    MaxRequests = 3
    Steps <- NamedAndAny
    Able <- AllPatrol
    Scenarios = {"patrol", "stand"}
    MaxRuns = 2
    MaxFaults = 1
SPECIFICATION Spec
INVARIANTS TenantsKeepRobots
CHECK_DEADLOCK FALSE
