SPECIFICATION Spec
CONSTANTS
    MaxVisits = 2
    Texts = {"x", "y"}
    Cap = 1
    MaxCancels = 1
    Maps <- SmallMaps
    Directory <- StoreNames
INVARIANT ArrivalIsReal
CHECK_DEADLOCK FALSE
