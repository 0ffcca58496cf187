SPECIFICATION Spec
CONSTANTS
    Sendings <- WithGoto
    Tries <- Once
    MaxFaults = 0
    MaxExpired = 0
    Slots = {"h1"}
    Persistent = TRUE
INVARIANT EdgeMirrors
CHECK_DEADLOCK FALSE
