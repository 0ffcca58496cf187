SPECIFICATION FairSpec
CONSTANTS
    MaxVisits = 2
    Texts = {"x", "y"}
    Cap = 1
    MaxCancels = 1
    Maps <- SmallMaps
    Directory <- StoreNames
INVARIANTS UndisturbedVisits TextsStayWithVisit RoutesShortest
PROPERTIES VisitEnds
CHECK_DEADLOCK FALSE
