\* A delivery that outlives the request it was dispatched from.
CONSTANTS
    Threshold = 5
    Hooks = {h1}
    Urls = {u1}
    NoHook = NoHook
    Deleted = Deleted
    Events = {e1}
    Retries = 3
    MaxEdits = 0
    SqlStore = TRUE
SPECIFICATION Spec
INVARIANTS FailuresRecorded
CHECK_DEADLOCK FALSE
