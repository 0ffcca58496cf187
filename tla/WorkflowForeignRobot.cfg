\* A run takes a robot of another tenant when the registry does not return it.
CONSTANTS
    Robots = {"r1", "r2"}
    Tenants = {"t1", "t2"}
    Default = "t1"
    FirstOwner <- OneEach
    MaxRequests = 3
    Steps <- NamedAndAny
    Able <- AllPatrol
    Scenarios = {"patrol", "stand"}
    MaxRuns = 2
    MaxFaults = 1
SPECIFICATION Spec
INVARIANTS RobotsOfTenantOnly
CHECK_DEADLOCK FALSE
