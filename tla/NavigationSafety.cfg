\* Two navigations with every kind of intervention on a bus that may fail.
CONSTANTS
    Store = 6
    MaxNavs = 2
    MaxEvents = 2
    MaxQueue = 2
    Interventions <- Anything
    BusFaults = TRUE
    TimeoutAsCompletion = TRUE
SPECIFICATION Spec
INVARIANTS RestState TrueArrival
CHECK_DEADLOCK FALSE
