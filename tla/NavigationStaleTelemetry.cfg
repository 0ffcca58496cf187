\* Telemetry from before the command.
CONSTANTS
    Store = 6
    MaxNavs = 1
    MaxEvents = 0
    MaxQueue = 2
    Interventions <- Anything
    BusFaults = FALSE
    TimeoutAsCompletion = TRUE
SPECIFICATION Spec
INVARIANTS ArrivedIsThere
CHECK_DEADLOCK FALSE
