CONSTANTS
    k1 = k1
    k2 = k2
    Target <- MCTarget
    Priority <- MCPriority
    MaxHandlers = 2
    MaxRequests = 3
    MaxBatches = 2
SPECIFICATION FairSpec
INVARIANTS WakesKept
PROPERTIES WakeAnswered
CHECK_DEADLOCK FALSE
