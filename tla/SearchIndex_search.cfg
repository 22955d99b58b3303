SPECIFICATION FairSpec
CONSTANTS
    Rooms = {r1}
    Handlers = {h1, h2}
    Workers = {w1, w2}
    Attempts = 2
    Ops = {"create", "update", "occupy", "touch", "bulk", "remove",
           "redis", "crash", "fail", "stall"}
    MaxCalls = 2
    MaxFaults = 2
    Null = Null
    Gone = Gone
INVARIANTS SettledIndexAgrees
PROPERTIES IndexNeverGoesBack IndexCatchesUp
CHECK_DEADLOCK FALSE
