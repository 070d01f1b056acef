SPECIFICATION MCSpec
CONSTANTS
    Controller = c
    Managed = {p, q}
    Streams = {s1, s2}
    MaxEvents = 2
    FeedSize = 1
    RouteSize = 1
    QueueSize = 1
    None = None
    Disturbances = 1
    Connected = {p}
INVARIANTS ShownOnce OrderIsKept OffIsSilent
PROPERTIES QueuesDrain
CHECK_DEADLOCK FALSE
