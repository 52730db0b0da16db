CONSTANTS
    m1 = m1
    m2 = m2
    m3 = m3
    chatA = chatA
    chatB = chatB
    noOrigin = noOrigin
    webchat = webchat
    Msg <- Msgs3
    Route <- TwoRoutes
    Unkeyed = noOrigin
    Unroutable = webchat
    Settings <- Mixed
    Policies <- TwoPolicies
    MaxQueues = 2
SPECIFICATION FairSpec
INVARIANTS HandledOnce DrainedByOne CollectedHaveOneTarget
PROPERTIES EventuallyHandled
CHECK_DEADLOCK FALSE
