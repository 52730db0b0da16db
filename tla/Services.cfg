CONSTANTS
    k1 = k1
    k2 = k2
    c1 = c1
    c2 = c2
    c3 = c3
    p1 = p1
    p2 = p2
    a1 = a1
    a2 = a2
    a3 = a3
    home = home
    away = away
    Target <- MCTarget
    Priority <- MCPriority
    MaxHandlers = 2
    MaxRequests = 2
    MaxBatches = 2
    Caller <- MCCaller
    Process <- MCProcess
    processOf <- MCProcessOf
    GatewayCaller <- MCGatewayCaller
    Id = {1, 2, 3, 4, 5, 6}
    MaxFaults = 1
    MaxRegistrations = 2
    Announcement <- MCAnnouncement
    Route <- MCRoute
    Unroutable = "unroutable"
    Settings <- MCSettings
    MaxMishaps = 2
SPECIFICATION ServicesSpec
INVARIANTS WakesKept LockExcludes ApprovalsHonoured AnnounceKept
PROPERTIES OwedIsGiven
CHECK_DEADLOCK FALSE
