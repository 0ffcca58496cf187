\* Two deliveries beside edits of the webhook, over two endpoints: a lower
\* threshold and fewer retries than in the code, so that breakers open,
\* half-open and close again between the edits.
CONSTANTS
    Threshold = 3
    Hooks = {h1}
    Urls = {u1, u2}
    NoHook = NoHook
    Deleted = Deleted
    Events = {e1, e2}
    Retries = 2
    MaxEdits = 2
    SqlStore = TRUE
SPECIFICATION FairSpec
INVARIANTS AttemptsBounded OneProbeEach GivenUpForCause
PROPERTIES DeletedIsSilent DeliveriesEnd
CHECK_DEADLOCK FALSE
