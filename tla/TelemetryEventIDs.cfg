\* Does a client see a sample once, whatever the texts of the timestamps?
CONSTANTS
    Traces <- SmallTraces
    Uses <- Streams
    Clients = {"c1", "c2"}
    Filter <- Unfiltered
    RingCap = 2
    ChanCap = 2
    Second = 100
    Places = {10, 100}
    MaxConnects = 3
    Sources = {"watcher", "runner"}
    Subscribers = {"s1", "s2"}
    EventCap = 1
    MaxEvents = 3
    Drivers = {"pgx", "sqlite"}
    Hour = 56
    Cutoffs = {56, 80, 100, 112, 168}
    Ranges <- SmallRanges
SPECIFICATION Spec
INVARIANTS SeenOnce
CHECK_DEADLOCK FALSE
