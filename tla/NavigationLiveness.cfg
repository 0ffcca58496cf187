\* Failing robots on a bus that works.
CONSTANTS
    Store = 6
    MaxNavs = 2
    MaxEvents = 2
    MaxQueue = 2
    Interventions <- Breakdowns
    BusFaults = FALSE
    TimeoutAsCompletion = FALSE
SPECIFICATION FairSpec
PROPERTIES FailedHalts NavigationEnds
CHECK_DEADLOCK FALSE
